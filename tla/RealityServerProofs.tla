------------------------ MODULE RealityServerProofs ------------------------
(* Proofs about RealityServer, for every value of its constants: which     *)
(* goroutine is where, that Server of tls.go implements RealityPromise,    *)
(* and that what it sends a client has the lengths of the target's         *)
(* records.                                                                *)
EXTENDS RealityServer, TLAPS, SequenceTheorems

(* Which goroutine is where: the control invariant.                        *)
Control ==
    /\ WaitGroupCounts
    /\ pcM = "dial" =>
          pcC = "off" /\ pcS = "off" /\ pcL = "off" /\ pcP = "off"
    /\ pcM = "returned" => ~LiveC /\ ~LiveS /\ ~LiveL
    /\ result = "conn" => pcM = "returned"
    /\ authed => pcC \in {"finish", "done"} /\ ~stole
    /\ stole => pcC \in {"finish", "done"}
    /\ pcC = "held" => mutex = "C"
    /\ pcS \in {"parse", "handshake", "finished"} => authed
    /\ pcS = "handshake" => hsLen[0] # 0
    /\ pcL # "off" => authed /\ pcS \in {"saved", "copyRead", "copyWrite",
                                         "finish", "done"}
    /\ pcP # "off" => hsLen[0] # 0 /\ pcS \in {"finished", "after", "finish",
                                              "done"}

IInv == TypeOK /\ Control

-----------------------------------------------------------------------------
(* Operators *)

(* A stretch of a stream is a sequence of positions. *)
LEMMA WindowType ==
    ASSUME NEW a \in Nat, NEW b \in Nat, a <= b
    PROVE  Window(a, b) \in Seq(Nat)
<1>1. b - a \in Nat
    OBVIOUS
<1>2. Window(a, b) \in [1..(b - a) -> Nat]
    BY DEF Window
<1> QED
    BY <1>1, <1>2

(* The record at the head of s2cSaved has a positive length. *)
LEMMA HeadRecordLen ==
    ASSUME TypeOK
    PROVE  HeadRecord.len \in Nat /\ HeadRecord.len > 0
<1>1. CASE \E k \in 1..Len(script) : script[k].at = cut
  <2>1. PICK k \in 1..Len(script) : HeadRecord = script[k]
    BY <1>1 DEF HeadRecord
  <2>2. script \in Scripts
    BY DEF TypeOK
  <2>3. script \in Seq(Record)
    BY <2>2, ScriptsAssumption
  <2>4. script[k].len \in Nat
    <3>1. script[k] \in Record
      BY <2>3
    <3> QED
      BY <3>1 DEF Record
  <2>5. script[k].len > RecordHeaderLen
    BY <2>2, ScriptsAssumption
  <2> QED
    BY <2>1, <2>4, <2>5, SizesAssumption
<1>2. CASE ~\E k \in 1..Len(script) : script[k].at = cut
    BY <1>2, SizesAssumption DEF HeadRecord, Garbage
<1> QED
    BY <1>1, <1>2

(* The length S sees in a header, or has seen before, is a natural number. *)
LEMMA LengthsSeen ==
    ASSUME TypeOK
    PROVE  SeenLen \in Nat
    BY HeadRecordLen DEF SeenLen, TypeOK

(* Cur is the first entry of types with no length yet. *)
LEMMA CurFacts ==
    ASSUME TypeOK
    PROVE  /\ Cur \in 0..7
           /\ \A j \in 0..6 : j < Cur => hsLen[j] # 0
<1>1. CASE \E i \in 0..6 : hsLen[i] = 0
  <2>1. \E i \in 0..6 : hsLen[i] = 0 /\ \A j \in 0..(i - 1) : hsLen[j] # 0
    BY <1>1, 0..6 = {0, 1, 2, 3, 4, 5, 6}
  <2>2. PICK i \in 0..6 : Cur = i /\ \A j \in 0..(i - 1) : hsLen[j] # 0
    BY <1>1, <2>1 DEF Cur
  <2> QED
    BY <2>2
<1>2. CASE ~\E i \in 0..6 : hsLen[i] = 0
    BY <1>2 DEF Cur
<1> QED
    BY <1>1, <1>2

-----------------------------------------------------------------------------
(* The control invariant *)

(* Every step of every goroutine and of the peers keeps Control. *)
LEMMA ControlStep ==
    ASSUME IInv, [Next]_vars
    PROVE  Control'
<1> USE DEF IInv, Control, TypeOK, WaitGroupCounts, LiveC, LiveS, LiveL, Bit, At, env, peers,
        written, flags, closed, parsing, varsM, varsC, varsS, varsL, varsP, vars
<1>1. CASE DialFails
    BY <1>1 DEF DialFails
<1>2. CASE DialSucceeds
    BY <1>2 DEF DialSucceeds, Spawned
<1>3. CASE Return
    BY <1>3, SMTT(40) DEF Return
<1>4. CASE LockC
    BY <1>4 DEF LockC
<1>5. CASE MirrorRead
    BY <1>5 DEF MirrorRead
<1>6. CASE MirrorReadReturns
    BY <1>6 DEF MirrorReadReturns
<1>7. CASE MirrorWrite
    BY <1>7 DEF MirrorWrite
<1>8. CASE HelloError
    BY <1>8 DEF HelloError
<1>9. CASE JudgeHello
    BY <1>9 DEF JudgeHello, LeavesClient
<1>10. CASE CopyC
    BY <1>10 DEF CopyC
<1>11. CASE DoneC
    BY <1>11, SMTT(40) DEF DoneC
<1>12. CASE ReadTarget
  <2>1. CASE TargetReadable /\ pcS' = "lock" /\ UNCHANGED wg
    BY <1>12, <2>1 DEF ReadTarget
  <2>2. CASE pcS' = "done" /\ wg' = wg - 1
    <3>1. /\ pcS = "read" /\ pcL = "off" /\ pcP = "off"
          /\ UNCHANGED <<pcM, pcC, pcL, pcP, result, authed, stole, mutex, hsLen>>
      BY <1>12 DEF ReadTarget
    <3>2. wg \in Nat
      BY DEF TypeOK
    <3> HIDE DEF TypeOK
    <3>3. WaitGroupCounts'
      BY <2>2, <3>1, <3>2
    <3>4. pcM # "dial" /\ pcM # "returned"
      BY <3>1
    <3> QED
      BY <2>2, <3>1, <3>3, <3>4
  <2> QED
    BY <1>12, <2>1, <2>2 DEF ReadTarget, AbandonClient
<1>13. CASE GiveUpOnData
    BY <1>13 DEF GiveUpOnData
<1>14. CASE LockS
    BY <1>14 DEF LockS
<1>15. CASE ParseReject
    BY <1>15 DEF ParseReject
<1>16. CASE ParseLast
  <2>1. Cur \in {2, 6} /\ hsLen[0] # 0
    BY <1>16, CurFacts, SMTT(40) DEF ParseLast, NoTicketYet, LengthSuffices
  <2>2. hsLen'[0] # 0
    BY <1>16, <2>1, SMTT(40) DEF ParseLast
  <2> QED
    BY <1>16, <2>2 DEF ParseLast
<1>17. CASE ParseWait
    BY <1>17 DEF ParseWait
<1>18. CASE ParseTake
    BY <1>18, LengthsSeen, CurFacts DEF ParseTake, NextRecLen
<1>19. CASE HandshakePanics
    BY <1>19 DEF HandshakePanics
<1>20. CASE HandshakeSent
    BY <1>20 DEF HandshakeSent, UsedLens, OwnRecords
<1>21. CASE HandshakeFails
    BY <1>21 DEF HandshakeFails, UsedLens, OwnRecords
<1>22. CASE FinishedRead
    BY <1>22 DEF FinishedRead, Confirm
<1>23. CASE FinishedFails
    BY <1>23 DEF FinishedFails
<1>24. CASE AfterLoop
  <2>1. CASE hsLen[0] # 0 /\ pcS' = "finish" /\ UNCHANGED <<wg, pcL>>
    BY <1>24, <2>1 DEF AfterLoop
  <2>2. CASE hsLen[0] = 0 /\ authed /\ wg' = wg + 1 /\ pcL' = "copyRead"
    BY <1>24, <2>2, SMTT(40) DEF AfterLoop, Unanswered
  <2>3. CASE hsLen[0] = 0 /\ ~authed /\ UNCHANGED <<wg, pcL>>
    BY <1>24, <2>3 DEF AfterLoop, Unanswered
  <2> QED
    BY <1>24, <2>1, <2>2, <2>3 DEF AfterLoop, Unanswered, NeedsL, SpawnL
<1>25. CASE WriteSaved
    BY <1>25 DEF WriteSaved
<1>26. CASE CopyS
    BY <1>26 DEF CopyS
<1>27. CASE DoneS
    BY <1>27, SMTT(40) DEF DoneS
<1>28. CASE CopyL
  <2>1. CASE pcL' # "done" /\ UNCHANGED wg
    BY <1>28, <2>1 DEF CopyL
  <2>2. CASE pcL' = "done" /\ wg' = wg - 1
    <3>1. /\ pcL \in {"copyRead", "copyWrite"}
          /\ UNCHANGED <<pcM, pcC, pcS, pcP, result, authed, stole, mutex, hsLen>>
      BY <1>28, <2>2 DEF CopyL
    <3>2. wg \in Nat
      BY DEF TypeOK
    <3> HIDE DEF TypeOK
    <3>3. WaitGroupCounts'
      BY <2>2, <3>1, <3>2
    <3>4. pcM # "dial" /\ pcM # "returned"
      BY <3>1
    <3> QED
      BY <2>2, <3>1, <3>3, <3>4
  <2> QED
    BY <1>28, <2>1, <2>2 DEF CopyL
<1>29. CASE DrainTarget
    BY <1>29 DEF DrainTarget
<1>30. CASE ProbeTarget
    BY <1>30 DEF ProbeTarget
<1>31. CASE ProbeCheck
    BY <1>31 DEF ProbeCheck
<1>32. CASE ProbeClose
    BY <1>32 DEF ProbeClose
<1>33. CASE ClientSends
    BY <1>33 DEF ClientSends, ours
<1>34. CASE ClientCloses
    BY <1>34 DEF ClientCloses, ours
<1>35. CASE TargetSends
    BY <1>35 DEF TargetSends, ours
<1>36. CASE TargetCloses
    BY <1>36 DEF TargetCloses, ours
<1>37. CASE UNCHANGED vars
    BY <1>37
<1> QED
    BY <1>1, <1>2, <1>3, <1>4, <1>5, <1>6, <1>7, <1>8, <1>9, <1>10, <1>11, <1>12, <1>13, <1>14, <1>15, <1>16, <1>17, <1>18, <1>19, <1>20, <1>21, <1>22, <1>23, <1>24, <1>25, <1>26, <1>27, <1>28, <1>29, <1>30, <1>31, <1>32, <1>33, <1>34, <1>35, <1>36, <1>37
       DEF Next, StepM, StepC, StepS, StepP, Environment, Terminated

-----------------------------------------------------------------------------
(* Types *)

(* What a read returns. *)
LEMMA ReadTypes ==
    ASSUME TypeOK
    PROVE  /\ Len(cOut) \in Nat
           /\ ClientReadable => Window(cPos, Len(cOut)) \in Seq(Nat)
           /\ TargetReadable => Window(tPos, tSent) \in Seq(Nat)
           /\ SavedUnits \in Seq(Nat)
<1>1. Len(cOut) \in Nat
    BY DEF TypeOK
<1>2. ClientReadable => Window(cPos, Len(cOut)) \in Seq(Nat)
    BY <1>1, WindowType DEF TypeOK, ClientReadable
<1>3. TargetReadable => Window(tPos, tSent) \in Seq(Nat)
    BY WindowType DEF TypeOK, TargetReadable
<1>4. SavedUnits \in Seq(Nat)
    BY WindowType DEF TypeOK, SavedUnits
<1> QED
    BY <1>1, <1>2, <1>3, <1>4

(* Our flight is a sequence of lengths. *)
LEMMA FlightType ==
    ASSUME TypeOK
    PROVE  PaddedFlight \in Seq(Nat)
<1>1. \A i \in 0..6 : Padded(i) \in Nat
    BY DEF TypeOK, Padded
<1>2. <<Padded(2)>> \in Seq(Nat) /\ <<Padded(6)>> \in Seq(Nat)
    BY <1>1
<1>3. [i \in 1..4 |-> Padded(i + 1)] \in Seq(Nat)
    BY <1>1
<1> QED
    BY <1>2, <1>3 DEF PaddedFlight

(* Every step of every goroutine and of the peers keeps the types. *)
LEMMA TypeStep ==
    ASSUME IInv, [Next]_vars, Control'
    PROVE  TypeOK'
<1>0. wg' \in 0..3
    BY DEF Control, WaitGroupCounts, Bit
<1>a. TypeOK
    BY DEF IInv
<1>b. /\ Len(cOut) \in Nat
      /\ ClientReadable => Window(cPos, Len(cOut)) \in Seq(Nat)
      /\ TargetReadable => Window(tPos, tSent) \in Seq(Nat)
      /\ SavedUnits \in Seq(Nat)
    BY <1>a, ReadTypes
<1>c. /\ toTarget \o cBuf \in Seq(Nat)
      /\ toTarget \o lBuf \in Seq(Nat)
      /\ toClient \o sBuf \in Seq(Nat)
      /\ toClient \o SavedUnits \in Seq(Nat)
    BY <1>a, <1>b DEF TypeOK
<1>d. SeenLen \in Nat
    BY <1>a, LengthsSeen
<1>f. PaddedFlight \in Seq(Nat)
    BY <1>a, FlightType
<1>n. tPos \in Nat /\ tSent \in Nat /\ cut \in Nat /\ cut <= tPos /\ recLen \in Nat
    BY <1>a DEF TypeOK
<1>r. TargetReadable => tPos < tSent
    BY DEF TargetReadable
<1>g. /\ cPos \in Nat /\ tPos \in Nat /\ tSent \in Nat /\ cut \in Nat /\ cut <= tPos
      /\ recLen \in Nat /\ hsLen \in [0..6 -> Nat] /\ toTarget \in Seq(Nat)
      /\ toClient \in Seq(Nat) /\ cBuf \in Seq(Nat) /\ lBuf \in Seq(Nat)
      /\ sBuf \in Seq(Nat) /\ readErr \in BOOLEAN /\ <<>> \in Seq(Nat)
    BY <1>a DEF TypeOK
<1> USE DEF At, env, peers, written, flags, closed, parsing, varsM,
        varsC, varsS, varsL, varsP, vars
<1>1. CASE DialFails
    BY <1>0, <1>a, <1>1 DEF DialFails, TypeOK
<1>2. CASE DialSucceeds
    BY <1>0, <1>a, <1>2 DEF DialSucceeds, Spawned, TypeOK
<1>3. CASE Return
    BY <1>0, <1>a, <1>3 DEF Return, TypeOK
<1>4. CASE LockC
    BY <1>0, <1>a, <1>4 DEF LockC, TypeOK
<1>5. CASE MirrorRead
    BY <1>0, <1>a, <1>5 DEF MirrorRead, TypeOK
<1>6. CASE MirrorReadReturns
  <2>1. cPos' \in Nat /\ cBuf' \in Seq(Nat) /\ readErr' \in BOOLEAN
    BY <1>g, <1>6, <1>b, <1>c DEF MirrorReadReturns
  <2> QED
    BY <1>0, <1>a, <1>6, <2>1 DEF MirrorReadReturns, TypeOK
<1>7. CASE MirrorWrite
    BY <1>0, <1>a, <1>7 DEF MirrorWrite, TypeOK
<1>8. CASE HelloError
    BY <1>0, <1>a, <1>8 DEF HelloError, TypeOK
<1>9. CASE JudgeHello
    BY <1>0, <1>a, <1>9 DEF JudgeHello, LeavesClient, TypeOK
<1>10. CASE CopyC
  <2>1. cPos' \in Nat /\ cBuf' \in Seq(Nat) /\ toTarget' \in Seq(Nat)
    BY <1>g, <1>10, <1>b, <1>c DEF CopyC
  <2> QED
    BY <1>0, <1>a, <1>10, <2>1 DEF CopyC, TypeOK
<1>11. CASE DoneC
    BY <1>0, <1>a, <1>11 DEF DoneC, TypeOK
<1>12. CASE ReadTarget
  <2>1. tPos' \in Nat /\ cut <= tPos'
    <3>1. CASE TargetReadable /\ tPos' = MinOf(tSent, tPos + Size)
      BY <1>n, <1>r, <3>1, SizesAssumption DEF MinOf
    <3>2. CASE tPos' = tPos
      BY <1>n, <3>2
    <3> QED
      BY <1>12, <3>1, <3>2 DEF ReadTarget
  <2> QED
    <3>1. cut' = cut /\ hsLen' = hsLen /\ recLen' = recLen
      BY <1>12 DEF ReadTarget
    <3>2. cut' \in Nat /\ cut' <= tPos'
      BY <1>g, <2>1, <3>1
    <3>3. UNCHANGED <<hello, script, cOut, cSide, tSent, tSide, cPos, toTarget,
                      toClient, flight, writeShut, targetClosed, authed,
                      copying, stole, complete, mutex, hsLen, recLen, pcM,
                      result, pcC, cBuf, readErr, sBuf, pcL, lBuf, pcP,
                      probeErr, crashed>>
      BY <1>12 DEF ReadTarget
    <3>4. pcS' \in {"lock", "done"} /\ connClosed' \in BOOLEAN
      BY <1>a, <1>12 DEF ReadTarget, AbandonClient, TypeOK
    <3> QED
      BY <1>0, <1>a, <2>1, <3>2, <3>3, <3>4 DEF TypeOK
<1>13. CASE GiveUpOnData
    BY <1>0, <1>a, <1>13 DEF GiveUpOnData, TypeOK
<1>14. CASE LockS
    BY <1>0, <1>a, <1>14 DEF LockS, TypeOK
<1>15. CASE ParseReject
    BY <1>0, <1>a, <1>15, <1>d DEF ParseReject, TypeOK
<1>16. CASE ParseLast
  <2>1. recLen' \in Nat /\ hsLen' \in [0..6 -> Nat]
    BY <1>g, <1>16, <1>d DEF ParseLast
  <2> QED
    BY <1>0, <1>a, <1>16, <2>1 DEF ParseLast, TypeOK
<1>17. CASE ParseWait
    BY <1>0, <1>a, <1>17, <1>d DEF ParseWait, TypeOK
<1>18. CASE ParseTake
  <2>1. recLen' \in Nat /\ hsLen' \in [0..6 -> Nat]
    BY <1>g, <1>18, <1>d DEF ParseTake, NextRecLen
  <2>2. cut' \in Nat /\ cut' <= tPos
    BY <1>g, <1>18, <1>d DEF ParseTake, Saved
  <2> QED
    <3>1. tPos' = tPos
      BY <1>18 DEF ParseTake
    <3>2. cut' \in Nat /\ cut' <= tPos'
      BY <2>2, <3>1
    <3>3. UNCHANGED <<hello, script, cOut, cSide, tSent, tSide, cPos, toTarget,
                      toClient, flight, writeShut, connClosed, targetClosed,
                      authed, copying, stole, complete, mutex, pcM, result, pcC,
                      cBuf, readErr, pcS, sBuf, pcL, lBuf, pcP, probeErr,
                      crashed>>
      BY <1>18 DEF ParseTake
    <3>4. tPos' \in Nat
      BY <1>a, <1>18 DEF ParseTake, TypeOK
    <3> QED
      BY <1>0, <1>a, <2>1, <3>2, <3>3, <3>4 DEF TypeOK
<1>19. CASE HandshakePanics
    BY <1>0, <1>a, <1>19 DEF HandshakePanics, TypeOK
<1>20. CASE HandshakeSent
    BY <1>0, <1>a, <1>20, <1>f DEF HandshakeSent, UsedLens, TypeOK
<1>21. CASE HandshakeFails
    BY <1>0, <1>a, <1>21 DEF HandshakeFails, UsedLens, TypeOK
<1>22. CASE FinishedRead
    BY <1>0, <1>a, <1>22 DEF FinishedRead, Confirm, ClientReadable, TypeOK
<1>23. CASE FinishedFails
    BY <1>0, <1>a, <1>23 DEF FinishedFails, ClientReadable, TypeOK
<1>24. CASE AfterLoop
    BY <1>0, <1>a, <1>24, SMTT(40) DEF AfterLoop, Unanswered, NeedsL, SpawnL, TypeOK
<1>25. CASE WriteSaved
    BY <1>0, <1>a, <1>25, <1>b, <1>c DEF WriteSaved, TypeOK
<1>26. CASE CopyS
  <2>1. /\ tPos' \in Nat /\ cut <= tPos'
        /\ sBuf' \in Seq(Nat) /\ toClient' \in Seq(Nat)
    <3>1. CASE TargetReadable /\ sBuf' = Window(tPos, tSent) /\ tPos' = tSent
               /\ toClient' = toClient
      BY <1>g, <1>b, <3>1 DEF TargetReadable
    <3>2. CASE sBuf' = <<>> /\ tPos' = tPos
               /\ toClient' \in {toClient, toClient \o sBuf}
      BY <1>g, <1>c, <3>2
    <3> QED
      BY <1>26, <3>1, <3>2 DEF CopyS
  <2> QED
    <3>1. cut' = cut /\ hsLen' = hsLen /\ recLen' = recLen
      BY <1>26 DEF CopyS
    <3>2. cut' \in Nat /\ cut' <= tPos'
      BY <1>g, <2>1, <3>1
    <3>3. UNCHANGED <<hello, script, cOut, cSide, tSent, tSide, cPos, toTarget,
                      flight, connClosed, targetClosed, authed, copying, stole,
                      complete, mutex, hsLen, recLen, pcM, result, pcC, cBuf,
                      readErr, pcL, lBuf, pcP, probeErr, crashed>>
      BY <1>26 DEF CopyS
    <3>4. pcS' \in {"copyRead", "copyWrite", "finish"} /\ writeShut' \in BOOLEAN
      BY <1>a, <1>26 DEF CopyS, TypeOK
    <3> QED
      BY <1>0, <1>a, <2>1, <3>2, <3>3, <3>4 DEF TypeOK
<1>27. CASE DoneS
    BY <1>0, <1>a, <1>27 DEF DoneS, TypeOK
<1>28. CASE CopyL
  <2>1. cPos' \in Nat /\ lBuf' \in Seq(Nat) /\ toTarget' \in Seq(Nat)
    BY <1>g, <1>28, <1>b, <1>c DEF CopyL
  <2> QED
    BY <1>0, <1>a, <1>28, <2>1 DEF CopyL, TypeOK
<1>29. CASE DrainTarget
  <2>1. Undrained > 0 => Undrained \in Nat
    BY <1>g DEF Undrained, Saved
  <2>2. tPos' \in Nat /\ cut <= tPos'
    <3>1. CASE TargetReadable /\ tPos' = MinOf(tSent, tPos + Undrained)
               /\ Undrained > 0
      BY <1>n, <1>r, <2>1, <3>1 DEF MinOf
    <3>2. CASE tPos' = tPos
      BY <1>n, <3>2
    <3> QED
      BY <1>29, <3>1, <3>2 DEF DrainTarget
  <2> QED
    BY <1>0, <1>a, <1>29, <2>2 DEF DrainTarget, TypeOK
<1>30. CASE ProbeTarget
  <2>1. tPos' \in Nat /\ cut <= tPos'
    <3>1. CASE TargetReadable /\ tPos' = MinOf(tSent, tPos + Size)
      BY <1>n, <1>r, <3>1, SizesAssumption DEF MinOf
    <3>2. CASE tPos' = tPos
      BY <1>n, <3>2
    <3> QED
      BY <1>30, <3>1, <3>2 DEF ProbeTarget
  <2> QED
    <3>1. cut' = cut /\ hsLen' = hsLen /\ recLen' = recLen
      BY <1>30 DEF ProbeTarget
    <3>2. cut' \in Nat /\ cut' <= tPos'
      BY <1>g, <2>1, <3>1
    <3>3. UNCHANGED <<hello, script, cOut, cSide, tSent, tSide, cPos, toTarget,
                      toClient, flight, writeShut, connClosed, targetClosed,
                      authed, copying, stole, complete, mutex, hsLen, recLen,
                      pcM, result, pcC, cBuf, readErr, pcS, sBuf, pcL, lBuf,
                      crashed>>
      BY <1>30 DEF ProbeTarget
    <3>4. pcP' = "check" /\ probeErr' \in BOOLEAN
      BY <1>a, <1>30 DEF ProbeTarget, TypeOK
    <3> QED
      BY <1>0, <1>a, <2>1, <3>2, <3>3, <3>4 DEF TypeOK
<1>31. CASE ProbeCheck
    BY <1>0, <1>a, <1>31 DEF ProbeCheck, TypeOK
<1>32. CASE ProbeClose
    BY <1>0, <1>a, <1>32 DEF ProbeClose, TypeOK
<1>33. CASE ClientSends
  <2>1. cOut' \in Seq({"hello", "data", "fin"})
    <3>1. cOut \in Seq({"hello", "data", "fin"})
      BY <1>a DEF TypeOK
    <3>2. \A x \in {"hello", "data", "fin"} :
              Append(cOut, x) \in Seq({"hello", "data", "fin"})
      BY <3>1
    <3> QED
      BY <1>33, <3>2 DEF ClientSends
  <2> QED
    BY <1>0, <1>a, <1>33, <2>1 DEF ClientSends, ours, TypeOK
<1>34. CASE ClientCloses
    BY <1>0, <1>a, <1>34 DEF ClientCloses, ours, TypeOK
<1>35. CASE TargetSends
    BY <1>0, <1>a, <1>35 DEF TargetSends, ours, TypeOK
<1>36. CASE TargetCloses
    BY <1>0, <1>a, <1>36 DEF TargetCloses, ours, TypeOK
<1>37. CASE UNCHANGED vars
    BY <1>0, <1>a, <1>37 DEF TypeOK
<1> QED
    BY <1>1, <1>2, <1>3, <1>4, <1>5, <1>6, <1>7, <1>8, <1>9, <1>10, <1>11,
       <1>12, <1>13, <1>14, <1>15, <1>16, <1>17, <1>18, <1>19, <1>20, <1>21,
       <1>22, <1>23, <1>24, <1>25, <1>26, <1>27, <1>28, <1>29, <1>30, <1>31,
       <1>32, <1>33, <1>34, <1>35, <1>36, <1>37
       DEF Next, StepM, StepC, StepS, StepP, Environment, Terminated

-----------------------------------------------------------------------------
(* The state in which Server is called satisfies IInv. *)
LEMMA InitIInv ==
    ASSUME Init
    PROVE  IInv
<1>1. hsLen \in [0..6 -> Nat]
    BY DEF Init
<1>2. <<>> \in Seq(Nat) /\ <<>> \in Seq({"hello", "data", "fin"})
    OBVIOUS
<1>3. TypeOK
  <2>1. /\ cPos \in Nat /\ tPos \in Nat /\ tSent \in Nat /\ recLen \in Nat
        /\ cut \in Nat /\ cut <= tPos /\ wg \in 0..3
    BY DEF Init
  <2>2. /\ cOut \in Seq({"hello", "data", "fin"})
        /\ toTarget \in Seq(Nat) /\ toClient \in Seq(Nat) /\ flight \in Seq(Nat)
        /\ cBuf \in Seq(Nat) /\ lBuf \in Seq(Nat) /\ sBuf \in Seq(Nat)
    BY <1>2 DEF Init
  <2> QED
    BY <1>1, <2>1, <2>2, Zenon DEF Init, TypeOK
<1>4. Control
    BY DEF Init, Control, WaitGroupCounts, LiveC, LiveS, LiveL, Bit
<1> QED
    BY <1>3, <1>4 DEF IInv

(* IInv, the conjunction of the types and the control invariant, is        *)
(* inductive and holds of every behaviour of Server.                       *)
THEOREM InductiveInvariant == Spec => []IInv
<1>1. Init => IInv
    BY InitIInv
<1>2. IInv /\ [Next]_vars => IInv'
    BY ControlStep, TypeStep DEF IInv
<1> QED
    BY <1>1, <1>2, PTL DEF Spec

(* Every variable keeps its type; in particular the wait group's counter   *)
(* is never negative and s2cSaved is never re-sliced past its end.         *)
THEOREM TypeCorrect == Spec => []TypeOK
<1>1. IInv => TypeOK
    BY DEF IInv
<1> QED
    BY <1>1, InductiveInvariant, PTL

(* The wait group's counter is the number of goroutines C, S and L that    *)
(* have not called Done.                                                   *)
THEOREM WaitGroupExact == Spec => []WaitGroupCounts
<1>1. IInv => WaitGroupCounts
    BY DEF IInv, Control
<1> QED
    BY <1>1, InductiveInvariant, PTL

(* No two goroutines are ever inside a Read of the same connection.        *)
THEOREM OneReader == Spec => []SoleReaders
<1>1. ASSUME IInv PROVE SoleReaders
  <2> USE <1>1 DEF IInv, Control, LiveC, LiveS, LiveL
  <2>1. \A g, h \in ClientReaders : g = h
    BY DEF ClientReaders
  <2>2. \A g, h \in TargetReaders : g = h
    BY DEF TargetReaders
  <2> QED
    BY <2>1, <2>2 DEF SoleReaders
<1> QED
    BY <1>1, InductiveInvariant, PTL

-----------------------------------------------------------------------------
(* The relay in both directions *)

ClientDirectionOver == cSide # "open" \/ connClosed \/ ~TargetWritable

Relay ==
    /\ pcC \in {"finish", "done"} => authed \/ stole \/ ClientDirectionOver
    /\ pcL = "done" => ClientDirectionOver
    /\ pcS \in {"saved", "copyRead", "copyWrite"} /\ authed => pcL # "off"
    /\ pcS \in {"after", "saved", "copyRead", "copyWrite"} =>
          authed \/ copying \/ stole

(* Every step keeps what makes the relay bidirectional. *)
LEMMA RelayStep ==
    ASSUME IInv, Relay, [Next]_vars
    PROVE  Relay'
<1> USE DEF IInv, Control, Relay, ClientDirectionOver, TargetWritable, At, env, peers,
        written, flags, closed, parsing, varsM, varsC, varsS, varsL, varsP, vars
<1>1. CASE DialFails
    BY <1>1 DEF DialFails
<1>2. CASE DialSucceeds
    BY <1>2 DEF DialSucceeds, Spawned
<1>3. CASE Return
    BY <1>3 DEF Return
<1>4. CASE LockC
    BY <1>4 DEF LockC
<1>5. CASE MirrorRead
    BY <1>5 DEF MirrorRead
<1>6. CASE MirrorReadReturns
    BY <1>6 DEF MirrorReadReturns
<1>7. CASE MirrorWrite
    BY <1>7 DEF MirrorWrite
<1>8. CASE HelloError
    BY <1>8 DEF HelloError
<1>9. CASE JudgeHello
    BY <1>9 DEF JudgeHello, LeavesClient
<1>10. CASE CopyC
    BY <1>10 DEF CopyC, ClientReadFails
<1>11. CASE DoneC
    BY <1>11 DEF DoneC
<1>12. CASE ReadTarget
    BY <1>12 DEF ReadTarget, AbandonClient
<1>13. CASE GiveUpOnData
    BY <1>13 DEF GiveUpOnData
<1>14. CASE LockS
    BY <1>14 DEF LockS
<1>15. CASE ParseReject
    BY <1>15 DEF ParseReject
<1>16. CASE ParseLast
    BY <1>16 DEF ParseLast
<1>17. CASE ParseWait
    BY <1>17 DEF ParseWait
<1>18. CASE ParseTake
    BY <1>18 DEF ParseTake
<1>19. CASE HandshakePanics
    BY <1>19 DEF HandshakePanics
<1>20. CASE HandshakeSent
    BY <1>20 DEF HandshakeSent
<1>21. CASE HandshakeFails
    BY <1>21 DEF HandshakeFails
<1>22. CASE FinishedRead
    BY <1>22 DEF FinishedRead
<1>23. CASE FinishedFails
    BY <1>23 DEF FinishedFails
<1>24. CASE AfterLoop
    BY <1>24 DEF AfterLoop, Unanswered, NeedsL, SpawnL
<1>25. CASE WriteSaved
    BY <1>25 DEF WriteSaved
<1>26. CASE CopyS
    BY <1>26 DEF CopyS
<1>27. CASE DoneS
    BY <1>27 DEF DoneS
<1>28. CASE CopyL
    BY <1>28 DEF CopyL, ClientReadFails
<1>29. CASE DrainTarget
    BY <1>29 DEF DrainTarget
<1>30. CASE ProbeTarget
    BY <1>30 DEF ProbeTarget
<1>31. CASE ProbeCheck
    BY <1>31 DEF ProbeCheck
<1>32. CASE ProbeClose
    BY <1>32 DEF ProbeClose
<1>33. CASE ClientSends
    BY <1>33 DEF ClientSends, ours
<1>34. CASE ClientCloses
    BY <1>34 DEF ClientCloses, ours
<1>35. CASE TargetSends
    BY <1>35 DEF TargetSends, ours
<1>36. CASE TargetCloses
    BY <1>36 DEF TargetCloses, ours
<1>37. CASE UNCHANGED vars
    BY <1>37
<1> QED
    BY <1>1, <1>2, <1>3, <1>4, <1>5, <1>6, <1>7, <1>8, <1>9, <1>10, <1>11,
       <1>12, <1>13, <1>14, <1>15, <1>16, <1>17, <1>18, <1>19, <1>20, <1>21,
       <1>22, <1>23, <1>24, <1>25, <1>26, <1>27, <1>28, <1>29, <1>30, <1>31,
       <1>32, <1>33, <1>34, <1>35, <1>36, <1>37
       DEF Next, StepM, StepC, StepS, StepP, Environment, Terminated

(* For a client that named one of our server names the relay always has    *)
(* both copiers, whichever of C and S took the mutex first.                *)
THEOREM RelayHasBothCopiers == Spec => []RelayBothWaysForOurNames
<1>1. Init => Relay
    BY DEF Init, Relay
<1>2. IInv /\ Relay /\ [Next]_vars => Relay'
    BY RelayStep
<1>3. ASSUME Relay, IInv PROVE RelayBothWaysForOurNames
    BY <1>3 DEF Relay, IInv, TypeOK, RelayBothWaysForOurNames, RelayBothWays, CopierGone,
                ClientDirectionOver
<1> QED
    BY <1>1, <1>2, <1>3, InductiveInvariant, PTL DEF Spec

-----------------------------------------------------------------------------
(* The cut into the target's stream *)

AtRecord == \E k \in 1..Len(script) : script[k].at = cut

Alignment ==
    /\ tPos <= tSent /\ tSent <= StreamEnd
    /\ CutAligned
    /\ recLen # 0 => AtRecord /\ recLen = HeadRecord.len
    /\ PaddingInBounds

(* The end of the target's stream is a position of it. *)
LEMMA StreamEndType ==
    ASSUME TypeOK
    PROVE  StreamEnd \in Nat
<1>1. script \in Seq(Record) /\ script # <<>>
    BY ScriptsAssumption DEF TypeOK
<1>2. Len(script) \in 1..Len(script)
    BY <1>1
<1>3. script[Len(script)] \in Record
    BY <1>1, <1>2
<1> QED
    BY <1>3 DEF StreamEnd, Record

(* The record after the one at the cut starts where that one ends. *)
LEMMA NextRecord ==
    ASSUME TypeOK, AtRecord
    PROVE  \/ cut + HeadRecord.len = StreamEnd
           \/ \E k \in 1..Len(script) : script[k].at = cut + HeadRecord.len
<1>1. PICK k \in 1..Len(script) : script[k].at = cut /\ HeadRecord = script[k]
    BY DEF AtRecord, HeadRecord
<1>2. CASE k = Len(script)
    BY <1>1, <1>2 DEF StreamEnd
<1>3. CASE k # Len(script)
  <2>1. k + 1 \in 2..Len(script) /\ k + 1 \in 1..Len(script) /\ (k + 1) - 1 = k
    BY <1>3
  <2>2. script[k + 1].at = script[(k + 1) - 1].at + script[(k + 1) - 1].len
    BY <2>1, ScriptsAssumption DEF TypeOK
  <2> QED
    BY <1>1, <2>1, <2>2
<1> QED
    BY <1>2, <1>3

(* A header that S looks at is the header of a record. *)
LEMMA HeaderAtRecord ==
    ASSUME TypeOK, Alignment, HeaderVisible
    PROVE  AtRecord
<1>1. cut < tPos
    BY SizesAssumption DEF TypeOK, HeaderVisible, Saved
<1>2. cut # StreamEnd
    BY <1>1, StreamEndType DEF TypeOK, Alignment
<1> QED
    BY <1>2 DEF Alignment, CutAligned, AtRecord

(* A length that S has seen is the length of the record at the cut. *)
LEMMA SeenRecord ==
    ASSUME TypeOK, Alignment, SeenLen # 0
    PROVE  AtRecord /\ SeenLen = HeadRecord.len
    BY HeaderAtRecord DEF SeenLen, Alignment

(* S's view of the stream depends on these variables only. *)
LEMMA AlignmentFrame ==
    ASSUME Alignment, UNCHANGED <<script, tPos, tSent, cut, recLen, hsLen>>
    PROVE  Alignment'
    BY DEF Alignment, CutAligned, AtRecord, HeadRecord, Garbage, PaddingInBounds,
           StreamEnd

(* Every step keeps S aligned with the target's records. *)
LEMMA AlignmentStep ==
    ASSUME IInv, Alignment, [Next]_vars
    PROVE  Alignment'
<1>1. TypeOK
    BY DEF IInv
<1>2. /\ tPos \in Nat /\ tSent \in Nat /\ cut \in Nat /\ recLen \in Nat
      /\ hsLen \in [0..6 -> Nat] /\ StreamEnd \in Nat /\ SeenLen \in Nat
    BY <1>1, StreamEndType, LengthsSeen DEF TypeOK
<1>3. tPos <= tSent /\ tSent <= StreamEnd
    BY DEF Alignment
<1>4. ASSUME UNCHANGED <<script, cut, hsLen, recLen>>,
             tPos' \in Nat, tSent' \in Nat, tPos' <= tSent', tSent' <= StreamEnd
      PROVE  Alignment'
    BY <1>4 DEF Alignment, CutAligned, AtRecord, HeadRecord, Garbage, PaddingInBounds,
                StreamEnd
<1>5. ASSUME UNCHANGED <<script, tPos, tSent, cut>>, PaddingInBounds',
             recLen' # 0 => AtRecord /\ recLen' = HeadRecord.len
      PROVE  Alignment'
    BY <1>5 DEF Alignment, CutAligned, AtRecord, HeadRecord, Garbage, StreamEnd
<1> USE DEF At, env, peers, written, flags, closed, parsing, varsM, varsC, varsS,
        varsL, varsP, vars
<1>6. CASE UNCHANGED vars
    BY <1>6, AlignmentFrame
<1>7. CASE TargetSends
  <2>1. UNCHANGED <<script, cut, hsLen, recLen, tPos>> /\ tSent' = tSent + 1
        /\ tSent < StreamEnd
    BY <1>7 DEF TargetSends, ours
  <2> QED
    BY <1>2, <1>3, <1>4, <2>1
<1>8. CASE ReadTarget \/ CopyS \/ DrainTarget \/ ProbeTarget
  <2>1. UNCHANGED <<script, cut, hsLen, recLen, tSent>>
    BY <1>8 DEF ReadTarget, CopyS, DrainTarget, ProbeTarget
  <2>2. tPos' \in Nat /\ tPos' <= tSent
    <3>1. \/ tPos' = tPos
          \/ tPos' = tSent
          \/ TargetReadable /\ tPos' = MinOf(tSent, tPos + Size)
          \/ TargetReadable /\ Undrained > 0 /\ tPos' = MinOf(tSent, tPos + Undrained)
      BY <1>8 DEF ReadTarget, CopyS, DrainTarget, ProbeTarget
    <3>2. TargetReadable => tPos < tSent
      BY DEF TargetReadable
    <3>3. Undrained \in Int
      BY <1>2 DEF Undrained, Saved
    <3> QED
      BY <1>2, <1>3, <3>1, <3>2, <3>3, SizesAssumption DEF MinOf
  <2> QED
    BY <1>2, <1>3, <1>4, <2>1, <2>2
<1>9. CASE HandshakeSent \/ HandshakeFails
  <2>1. UNCHANGED <<script, tPos, tSent, cut, recLen>> /\ hsLen' = UsedLens
    BY <1>9 DEF HandshakeSent, HandshakeFails
  <2>2. PaddingInBounds'
    BY <1>2, <2>1, SizesAssumption DEF Alignment, PaddingInBounds, UsedLens
  <2> QED
    BY <1>5, <2>1, <2>2 DEF Alignment
<1>10. CASE ParseReject \/ ParseWait
  <2>1. UNCHANGED <<script, tPos, tSent, cut, hsLen>> /\ recLen' \in {recLen, SeenLen}
    BY <1>10 DEF ParseReject, ParseWait
  <2>2. recLen' # 0 => AtRecord /\ recLen' = HeadRecord.len
    BY <1>1, <2>1, SeenRecord DEF Alignment
  <2>3. PaddingInBounds'
    BY <2>1 DEF Alignment, PaddingInBounds
  <2> QED
    BY <1>5, <2>1, <2>2, <2>3
<1>11. CASE ParseLast
  <2>1. /\ UNCHANGED <<script, tPos, tSent, cut>>
        /\ \/ UNCHANGED <<hsLen, recLen>>
           \/ /\ SeenLen <= Size /\ recLen' = SeenLen
              /\ hsLen' = [hsLen EXCEPT ![Cur] = SeenLen]
    BY <1>2, <1>11, SizesAssumption DEF ParseLast, Unfit, TooLong
  <2>2. recLen' # 0 => AtRecord /\ recLen' = HeadRecord.len
    BY <1>1, <2>1, SeenRecord DEF Alignment
  <2>3. PaddingInBounds'
    BY <1>2, <2>1 DEF Alignment, PaddingInBounds
  <2> QED
    BY <1>5, <2>1, <2>2, <2>3
<1>12. CASE ParseTake
  <2>1. /\ UNCHANGED <<script, tPos, tSent>> /\ SeenLen > 0 /\ SeenLen <= Size
        /\ cut' = cut + SeenLen /\ recLen' = 0
        /\ hsLen' = [hsLen EXCEPT ![Cur] = SeenLen]
    BY <1>2, <1>12, SizesAssumption DEF ParseTake, NextRecLen, Unfit, TooLong
  <2>2. SeenLen # 0
    BY <1>2, <2>1
  <2>3. AtRecord /\ SeenLen = HeadRecord.len
    BY <1>1, <2>2, SeenRecord
  <2>4. CutAligned'
    BY <1>1, <2>1, <2>3, NextRecord DEF CutAligned, StreamEnd
  <2>5. PaddingInBounds'
    BY <1>2, <2>1 DEF Alignment, PaddingInBounds
  <2> QED
    BY <1>3, <2>1, <2>4, <2>5 DEF Alignment, StreamEnd
<1>13. CASE ~(ReadTarget \/ CopyS \/ DrainTarget \/ ProbeTarget \/ TargetSends
               \/ HandshakeSent \/ HandshakeFails \/ ParseReject \/ ParseWait
               \/ ParseLast \/ ParseTake \/ UNCHANGED vars)
  <2>1. CASE \/ DialFails \/ DialSucceeds \/ Return \/ LockC \/ MirrorRead
             \/ MirrorReadReturns \/ MirrorWrite \/ HelloError
             \/ JudgeHello \/ CopyC \/ DoneC \/ GiveUpOnData \/ LockS
             \/ HandshakePanics \/ FinishedRead \/ FinishedFails
             \/ AfterLoop \/ WriteSaved \/ DoneS \/ CopyL \/ ProbeCheck
             \/ ProbeClose \/ ClientSends \/ ClientCloses \/ TargetCloses
    BY <2>1, AlignmentFrame
       DEF DialFails, DialSucceeds, Return, LockC, MirrorRead,
           MirrorReadReturns, MirrorWrite, HelloError, JudgeHello, CopyC,
           DoneC, GiveUpOnData, LockS, HandshakePanics, FinishedRead,
           FinishedFails, AfterLoop, WriteSaved, DoneS, CopyL, ProbeCheck,
           ProbeClose, ClientSends, ClientCloses, TargetCloses, ours
  <2> QED
    BY <1>13, <2>1 DEF Next, StepM, StepC, StepS, StepP, Environment, Terminated
<1> QED
    BY <1>6, <1>7, <1>8, <1>9, <1>10, <1>11, <1>12, <1>13

(* S starts at the first record of the target. *)
LEMMA InitAlignment ==
    ASSUME Init
    PROVE  Alignment
<1>1. TypeOK
    BY InitIInv DEF IInv
<1>2. script # <<>> /\ script[1].at = 0 /\ script \in Seq(Record)
    BY <1>1, ScriptsAssumption DEF TypeOK
<1>3. CutAligned
  <2>1. 1 \in 1..Len(script)
    BY <1>2
  <2> QED
    BY <1>2, <2>1 DEF CutAligned, Init
<1> QED
    BY <1>1, <1>3, StreamEndType, SizesAssumption DEF Init, Alignment, PaddingInBounds

(* S is aligned with the target's records in every behaviour of Server. *)
LEMMA AlignmentInvariant == Spec => []Alignment
<1>1. Init => Alignment
    BY InitAlignment
<1>2. IInv /\ Alignment /\ [Next]_vars => Alignment'
    BY AlignmentStep
<1> QED
    BY <1>1, <1>2, InductiveInvariant, PTL DEF Spec

(* S looks for a header only where a record of the target starts, for      *)
(* every way the stream is cut into reads.                                 *)
THEOREM HeadersAligned == Spec => []CutAligned
<1>1. Alignment => CutAligned
    BY DEF Alignment
<1> QED
    BY <1>1, AlignmentInvariant, PTL

(* No recorded length exceeds the buffer that padding is taken from.       *)
THEOREM PaddingFits == Spec => []PaddingInBounds
<1>1. Alignment => PaddingInBounds
    BY DEF Alignment
<1> QED
    BY <1>1, AlignmentInvariant, PTL

-----------------------------------------------------------------------------
(* Stretches of a stream *)

(* The length and the elements of a stretch. *)
LEMMA WindowFacts ==
    ASSUME NEW a \in Nat, NEW b \in Nat, a <= b
    PROVE  /\ Window(a, b) \in Seq(Nat)
           /\ Len(Window(a, b)) = b - a
           /\ \A i \in 1..(b - a) : Window(a, b)[i] = a + i
<1>1. b - a \in Nat
    OBVIOUS
<1>2. Window(a, b) \in Seq(Nat)
    BY WindowType
<1>3. DOMAIN Window(a, b) = 1..(b - a)
    BY DEF Window
<1>4. Len(Window(a, b)) = b - a
    BY <1>1, <1>2, <1>3
<1>5. \A i \in 1..(b - a) : Window(a, b)[i] = a + i
    BY DEF Window
<1> QED
    BY <1>2, <1>4, <1>5

(* An empty stretch begins where it ends, and conversely. *)
LEMMA EmptyWindow ==
    ASSUME NEW a \in Nat, NEW b \in Nat, a <= b
    PROVE  Window(a, b) = <<>> <=> a = b
<1>1. Len(Window(a, b)) = b - a /\ Window(a, b) \in Seq(Nat)
    BY WindowFacts
<1>2. CASE a = b
    BY <1>1, <1>2
<1>3. CASE a # b
    BY <1>1, <1>3
<1> QED
    BY <1>2, <1>3

(* Two stretches that meet are one. *)
LEMMA JoinWindows ==
    ASSUME NEW a \in Nat, NEW b \in Nat, NEW c \in Nat, a <= b, b <= c
    PROVE  Window(a, b) \o Window(b, c) = Window(a, c)
<1> DEFINE s == Window(a, b)
           t == Window(b, c)
           u == Window(a, c)
<1>0. a <= c
    OBVIOUS
<1>1. s \in Seq(Nat) /\ Len(s) = b - a /\ \A i \in 1..(b - a) : s[i] = a + i
    BY WindowFacts
<1>2. t \in Seq(Nat) /\ Len(t) = c - b /\ \A i \in 1..(c - b) : t[i] = b + i
    BY WindowFacts
<1>3. u \in Seq(Nat) /\ Len(u) = c - a /\ \A i \in 1..(c - a) : u[i] = a + i
    BY <1>0, WindowFacts
<1> HIDE DEF s, t, u
<1>4. /\ s \o t \in Seq(Nat) /\ Len(s \o t) = Len(s) + Len(t)
      /\ \A i \in 1..(Len(s) + Len(t)) :
            (s \o t)[i] = IF i <= Len(s) THEN s[i] ELSE t[i - Len(s)]
    BY <1>1, <1>2, ConcatProperties
<1>5. Len(s \o t) = Len(u)
    BY <1>1, <1>2, <1>3, <1>4
<1>6. ASSUME NEW i \in 1..Len(s \o t)
      PROVE  (s \o t)[i] = u[i]
  <2>1. u[i] = a + i
    BY <1>3, <1>5
  <2>2. CASE i <= Len(s)
    <3>1. i \in 1..(b - a)
      BY <1>1, <2>2
    <3> QED
      BY <1>1, <1>4, <2>1, <2>2, <3>1
  <2>3. CASE i > Len(s)
    <3>1. i - Len(s) \in 1..(c - b) /\ ~(i <= Len(s))
      BY <1>1, <1>3, <1>5, <2>3
    <3>2. t[i - Len(s)] = b + (i - Len(s))
      BY <1>2, <3>1
    <3>3. (s \o t)[i] = t[i - Len(s)]
      BY <1>4, <3>1
    <3> QED
      BY <1>1, <2>1, <3>2, <3>3
  <2> QED
    BY <1>1, <2>2, <2>3
<1>7. s \o t = u
    BY <1>3, <1>4, <1>5, <1>6, SeqEqual
<1> QED
    BY <1>7 DEF s, t, u

-----------------------------------------------------------------------------
(* Versions *)

(* A version is a sequence of three bytes. *)
LEMMA VersionLen ==
    ASSUME NEW x \in Version
    PROVE  Len(x) = 3
<1>1. ASSUME NEW n \in Nat, NEW y \in [1..n -> 0..255]
      PROVE  Len(y) = n
    BY <1>1
<1>2. 3 \in Nat /\ x \in [1..3 -> 0..255]
    BY DEF Version
<1> QED
    BY <1>1, <1>2

(* Value reads three bytes as one number. *)
LEMMA ValueOfVersion ==
    ASSUME NEW x \in Version
    PROVE  Value(x) = 65536 * x[1] + 256 * x[2] + x[3]
<1> DEFINE B(g) == [i \in 0..3 |-> IF i = 0 THEN 0 ELSE 256 * g[i - 1] + x[i]]
           w == [i \in 0..3 |-> IF i = 0 THEN 0
                                ELSE IF i = 1 THEN x[1]
                                ELSE IF i = 2 THEN 256 * x[1] + x[2]
                                ELSE 65536 * x[1] + 256 * x[2] + x[3]]
           v == CHOOSE g : g = B(g)
<1>1. x[1] \in Int /\ x[2] \in Int /\ x[3] \in Int
    BY DEF Version
<1>2. Len(x) = 3
    BY VersionLen
<1>3. w = B(w)
    BY <1>1
<1> HIDE DEF w
<1>4. v = B(v)
  <2>1. \E g : g = B(g)
    BY <1>3
  <2> QED
    BY <2>1, Zenon
<1>5. Value(x) = v[3]
    BY <1>2, Zenon DEF Value
<1> HIDE DEF v
<1>6. v[0] = 0
    BY <1>4
<1>7. v[1] = 256 * v[0] + x[1]
    BY <1>4
<1>8. v[2] = 256 * v[1] + x[2]
    BY <1>4
<1>9. v[3] = 256 * v[2] + x[3]
    BY <1>4
<1> QED
    BY <1>1, <1>5, <1>6, <1>7, <1>8, <1>9

(* The value of a version is a number. *)
LEMMA ValueType ==
    ASSUME NEW x \in Version
    PROVE  Value(x) \in Int
<1>1. x[1] \in Int /\ x[2] \in Int /\ x[3] \in Int
    BY DEF Version
<1> QED
    BY <1>1, ValueOfVersion

(* Comparing versions as numbers is comparing them component by component, *)
(* because every component is a byte.                                      *)
LEMMA ValueOrder ==
    ASSUME NEW x \in Version, NEW y \in Version, Value(x) <= Value(y)
    PROVE  Precedes(x, y)
<1>1. /\ x[1] \in 0..255 /\ x[2] \in 0..255 /\ x[3] \in 0..255
      /\ y[1] \in 0..255 /\ y[2] \in 0..255 /\ y[3] \in 0..255
    BY DEF Version
<1>2. 65536 * x[1] + 256 * x[2] + x[3] <= 65536 * y[1] + 256 * y[2] + y[3]
    BY ValueOfVersion
<1>3. Len(x) = 3
    BY VersionLen
<1>4. \/ x[1] < y[1]
      \/ x[1] = y[1] /\ x[2] < y[2]
      \/ x[1] = y[1] /\ x[2] = y[2] /\ x[3] < y[3]
      \/ x[1] = y[1] /\ x[2] = y[2] /\ x[3] = y[3]
  <2>1. PICK a \in 0..255, b \in 0..255, c \in 0..255 :
            a = x[1] /\ b = x[2] /\ c = x[3]
    BY <1>1
  <2>2. PICK d \in 0..255, e \in 0..255, f \in 0..255 :
            d = y[1] /\ e = y[2] /\ f = y[3]
    BY <1>1
  <2>3. 65536 * a + 256 * b + c <= 65536 * d + 256 * e + f
    BY <1>2, <2>1, <2>2
  <2>4. \/ a < d
        \/ a = d /\ b < e
        \/ a = d /\ b = e /\ c < f
        \/ a = d /\ b = e /\ c = f
    BY <2>3
  <2> QED
    BY <2>1, <2>2, <2>4
<1>5. CASE x[1] < y[1]
    BY <1>3, <1>5 DEF Precedes
<1>6. CASE x[1] = y[1] /\ x[2] < y[2]
    BY <1>3, <1>6 DEF Precedes
<1>7. CASE x[1] = y[1] /\ x[2] = y[2] /\ x[3] < y[3]
    BY <1>3, <1>7 DEF Precedes
<1>8. CASE x[1] = y[1] /\ x[2] = y[2] /\ x[3] = y[3]
  <2>1. \A i \in 1..3 : x[i] = y[i]
    BY <1>8
  <2>2. x = y
    BY <2>1 DEF Version
  <2> QED
    BY <2>2 DEF Precedes
<1> QED
    BY <1>4, <1>5, <1>6, <1>7, <1>8

(* What C checks before it hands the client to S is what makes a client    *)
(* genuine.                                                                *)
LEMMA JudgedGenuine ==
    ASSUME TypeOK, hello.valid, hello.serverName \in ServerNames, hello.tls13,
           Authentic(hello)
    PROVE  Genuine
<1>1. hello.ver \in Version /\ hello.time \in Int
    BY ConfigAssumption DEF TypeOK
<1>2. MinClientVer # Nil => Precedes(MinClientVer, hello.ver)
  <2> SUFFICES ASSUME MinClientVer # Nil PROVE Precedes(MinClientVer, hello.ver)
    OBVIOUS
  <2>1. MinClientVer \in Version
    BY ConfigAssumption
  <2>2. Value(MinClientVer) \in Int /\ Value(hello.ver) \in Int
    BY <1>1, <2>1, ValueType
  <2>3. Value(hello.ver) >= Value(MinClientVer)
    BY DEF Authentic, Admitted
  <2> QED
    BY <1>1, <2>1, <2>2, <2>3, ValueOrder
<1>3. MaxClientVer # Nil => Precedes(hello.ver, MaxClientVer)
  <2> SUFFICES ASSUME MaxClientVer # Nil PROVE Precedes(hello.ver, MaxClientVer)
    OBVIOUS
  <2>1. MaxClientVer \in Version
    BY ConfigAssumption
  <2>2. Value(hello.ver) <= Value(MaxClientVer)
    BY DEF Authentic, Admitted
  <2> QED
    BY <1>1, <2>1, <2>2, ValueOrder
<1>4. MaxTimeDiff > 0 => hello.time \in (Now - MaxTimeDiff)..(Now + MaxTimeDiff)
  <2>1. MaxTimeDiff = 0 \/ Abs(Now - hello.time) <= MaxTimeDiff
    BY DEF Authentic, Admitted
  <2> QED
    BY <1>1, <2>1, ConfigAssumption DEF Abs
<1> QED
    BY <1>2, <1>3, <1>4 DEF Genuine, Authentic, Admitted

-----------------------------------------------------------------------------
(* The stages of a connection *)

Copying == pcS \in {"saved", "copyRead", "copyWrite"}

(* Where the goroutines are when a stream or our flight has begun: what    *)
(* was relayed and what we sent ourselves exclude each other because the   *)
(* length of the target's ServerHello is recorded for good.                *)
Stages ==
    /\ authed => Genuine
    /\ pcM = "returned" <=> result # "none"
    /\ pcP # "off" => authed
    /\ pcL # "off" \/ Copying => hsLen[0] = 0
    /\ hsLen[0] = 0 => cut = 0
    /\ flight # <<>> => pcP # "off"
    /\ pcS = "finished" => flight # <<>>
    /\ complete => flight # <<>> /\ pcS \in {"after", "finish", "done"}
    /\ toClient # <<>> =>
          hsLen[0] = 0 /\ pcS \in {"copyRead", "copyWrite", "finish", "done"}

(* Our flight has at least one record. *)
LEMMA FlightNotEmpty ==
    ASSUME TypeOK
    PROVE  PaddedFlight # <<>>
<1> DEFINE s == IF Coalesced THEN <<Padded(2)>> ELSE [i \in 1..4 |-> Padded(i + 1)]
           t == IF 6 \in OwnRecords THEN <<Padded(6)>> ELSE <<>>
<1>1. \A i \in 0..6 : Padded(i) \in Nat
    BY DEF TypeOK, Padded
<1>2. s \in Seq(Nat) /\ Len(s) > 0
  <2>1. <<Padded(2)>> \in Seq(Nat) /\ Len(<<Padded(2)>>) = 1
    BY <1>1
  <2>2. [i \in 1..4 |-> Padded(i + 1)] \in Seq(Nat)
        /\ Len([i \in 1..4 |-> Padded(i + 1)]) = 4
    BY <1>1
  <2> QED
    BY <2>1, <2>2
<1>3. t \in Seq(Nat)
    BY <1>1
<1>4. PaddedFlight = s \o t
    BY DEF PaddedFlight
<1> HIDE DEF s, t
<1>5. Len(s \o t) = Len(s) + Len(t)
    BY <1>2, <1>3
<1> QED
    BY <1>2, <1>3, <1>4, <1>5

(* A step leaves the ClientHello and the target's records as they are. *)
LEMMA PeersFixed ==
    ASSUME [Next]_vars
    PROVE  UNCHANGED <<hello, script>>
<1> USE DEF env, peers, vars
<1>1. CASE DialFails
    BY <1>1 DEF DialFails
<1>2. CASE DialSucceeds
    BY <1>2 DEF DialSucceeds
<1>3. CASE Return
    BY <1>3 DEF Return
<1>4. CASE LockC
    BY <1>4 DEF LockC
<1>5. CASE MirrorRead
    BY <1>5 DEF MirrorRead
<1>6. CASE MirrorReadReturns
    BY <1>6 DEF MirrorReadReturns
<1>7. CASE MirrorWrite
    BY <1>7 DEF MirrorWrite
<1>8. CASE HelloError
    BY <1>8 DEF HelloError
<1>9. CASE JudgeHello
    BY <1>9 DEF JudgeHello
<1>10. CASE CopyC
    BY <1>10 DEF CopyC
<1>11. CASE DoneC
    BY <1>11 DEF DoneC
<1>12. CASE ReadTarget
    BY <1>12 DEF ReadTarget
<1>13. CASE GiveUpOnData
    BY <1>13 DEF GiveUpOnData
<1>14. CASE LockS
    BY <1>14 DEF LockS
<1>15. CASE ParseReject
    BY <1>15 DEF ParseReject
<1>16. CASE ParseLast
    BY <1>16 DEF ParseLast
<1>17. CASE ParseWait
    BY <1>17 DEF ParseWait
<1>18. CASE ParseTake
    BY <1>18 DEF ParseTake
<1>19. CASE HandshakePanics
    BY <1>19 DEF HandshakePanics
<1>20. CASE HandshakeSent
    BY <1>20 DEF HandshakeSent
<1>21. CASE HandshakeFails
    BY <1>21 DEF HandshakeFails
<1>22. CASE FinishedRead
    BY <1>22 DEF FinishedRead
<1>23. CASE FinishedFails
    BY <1>23 DEF FinishedFails
<1>24. CASE AfterLoop
    BY <1>24 DEF AfterLoop
<1>25. CASE WriteSaved
    BY <1>25 DEF WriteSaved
<1>26. CASE CopyS
    BY <1>26 DEF CopyS
<1>27. CASE DoneS
    BY <1>27 DEF DoneS
<1>28. CASE CopyL
    BY <1>28 DEF CopyL
<1>29. CASE DrainTarget
    BY <1>29 DEF DrainTarget
<1>30. CASE ProbeTarget
    BY <1>30 DEF ProbeTarget
<1>31. CASE ProbeCheck
    BY <1>31 DEF ProbeCheck
<1>32. CASE ProbeClose
    BY <1>32 DEF ProbeClose
<1>33. CASE ClientSends
    BY <1>33 DEF ClientSends, ours
<1>34. CASE ClientCloses
    BY <1>34 DEF ClientCloses, ours
<1>35. CASE TargetSends
    BY <1>35 DEF TargetSends, ours
<1>36. CASE TargetCloses
    BY <1>36 DEF TargetCloses, ours
<1>37. CASE UNCHANGED vars
    BY <1>37
<1> QED
    BY <1>1, <1>2, <1>3, <1>4, <1>5, <1>6, <1>7, <1>8, <1>9, <1>10, <1>11,
       <1>12, <1>13, <1>14, <1>15, <1>16, <1>17, <1>18, <1>19, <1>20, <1>21, <1>22,
       <1>23, <1>24, <1>25, <1>26, <1>27, <1>28, <1>29, <1>30, <1>31, <1>32, <1>33,
       <1>34, <1>35, <1>36, <1>37
       DEF Next, StepM, StepC, StepS, StepP, Environment, Terminated

(* Whether the client is genuine depends on its ClientHello only. *)
LEMMA GenuineFixed ==
    ASSUME UNCHANGED hello
    PROVE  (Genuine' <=> Genuine) /\ Genuine' = Genuine
<1>1. Genuine' <=> Genuine
    BY DEF Genuine
<1>2. Genuine \in BOOLEAN /\ Genuine' \in BOOLEAN
    BY Zenon DEF Genuine
<1> QED
    BY <1>1, <1>2, Zenon

(* The length of the target's ServerHello, once recorded, stays. *)
LEMMA HelloLen ==
    ASSUME TypeOK
    PROVE  UsedLens[0] = hsLen[0]
    BY DEF UsedLens, OwnRecords

(* Every step keeps the stages. *)
LEMMA StagesStep ==
    ASSUME IInv, Stages, [Next]_vars
    PROVE  Stages'
<1>0. Genuine' <=> Genuine
    BY PeersFixed, GenuineFixed
<1>a. TypeOK
    BY DEF IInv
<1> USE <1>0 DEF IInv, Control, Stages, Copying, At, env, peers, written, flags, closed,
        parsing, varsM, varsC, varsS, varsL, varsP, vars
<1>1. CASE DialFails
    BY <1>1 DEF DialFails
<1>2. CASE DialSucceeds
    BY <1>2 DEF DialSucceeds
<1>3. CASE Return
    BY <1>3 DEF Return, TypeOK
<1>4. CASE LockC
    BY <1>4 DEF LockC
<1>5. CASE MirrorRead
    BY <1>5 DEF MirrorRead
<1>6. CASE MirrorReadReturns
    BY <1>6 DEF MirrorReadReturns
<1>7. CASE MirrorWrite
    BY <1>7 DEF MirrorWrite
<1>8. CASE HelloError
    BY <1>8 DEF HelloError
<1>9. CASE JudgeHello
  <2>1. authed' => Genuine
    BY <1>a, <1>9, JudgedGenuine DEF JudgeHello
  <2> QED
    BY <2>1, <1>9 DEF JudgeHello
<1>10. CASE CopyC
    BY <1>10 DEF CopyC
<1>11. CASE DoneC
    BY <1>11 DEF DoneC
<1>12. CASE ReadTarget
    BY <1>12 DEF ReadTarget, AbandonClient
<1>13. CASE GiveUpOnData
    BY <1>13 DEF GiveUpOnData
<1>14. CASE LockS
    BY <1>14 DEF LockS
<1>15. CASE ParseReject
    BY <1>15 DEF ParseReject
<1>16. CASE ParseLast
  <2>1. hsLen[0] # 0 /\ hsLen'[0] # 0
    <3>1. Cur \in {2, 6} /\ hsLen[0] # 0
      BY <1>a, <1>16, CurFacts, SMTT(40) DEF ParseLast, NoTicketYet, LengthSuffices
    <3> QED
      BY <1>a, <1>16, <3>1, SMTT(40) DEF ParseLast, TypeOK
  <2> QED
    BY <1>16, <2>1 DEF ParseLast
<1>17. CASE ParseWait
    BY <1>17 DEF ParseWait
<1>18. CASE ParseTake
  <2>1. hsLen'[0] # 0
    <3>1. /\ hsLen \in [0..6 -> Nat] /\ SeenLen \in Nat /\ SeenLen > 0
          /\ hsLen' = [hsLen EXCEPT ![Cur] = SeenLen]
      BY <1>a, <1>18, LengthsSeen DEF ParseTake, TypeOK
    <3>2. Cur = 0 \/ hsLen[0] # 0
      BY <1>a, CurFacts
    <3> QED
      BY <3>1, <3>2
  <2> QED
    BY <1>18, <2>1 DEF ParseTake
<1>19. CASE HandshakePanics
    BY <1>19 DEF HandshakePanics
<1>20. CASE HandshakeSent
  <2>1. hsLen'[0] = hsLen[0] /\ flight' # <<>>
    BY <1>a, <1>20, HelloLen, FlightNotEmpty DEF HandshakeSent
  <2> QED
    BY <1>20, <2>1 DEF HandshakeSent
<1>21. CASE HandshakeFails
  <2>1. hsLen'[0] = hsLen[0]
    BY <1>a, <1>21, HelloLen DEF HandshakeFails
  <2> QED
    BY <1>21, <2>1 DEF HandshakeFails
<1>22. CASE FinishedRead
    BY <1>22 DEF FinishedRead, Confirm
<1>23. CASE FinishedFails
    BY <1>23 DEF FinishedFails
<1>24. CASE AfterLoop
    BY <1>24 DEF AfterLoop, Unanswered, NeedsL, SpawnL
<1>25. CASE WriteSaved
    BY <1>25 DEF WriteSaved
<1>26. CASE CopyS
    BY <1>26 DEF CopyS
<1>27. CASE DoneS
    BY <1>27 DEF DoneS
<1>28. CASE CopyL
    BY <1>28 DEF CopyL
<1>29. CASE DrainTarget
    BY <1>29 DEF DrainTarget
<1>30. CASE ProbeTarget
    BY <1>30 DEF ProbeTarget
<1>31. CASE ProbeCheck
    BY <1>31 DEF ProbeCheck
<1>32. CASE ProbeClose
    BY <1>32 DEF ProbeClose
<1>33. CASE ClientSends
    BY <1>33 DEF ClientSends, ours
<1>34. CASE ClientCloses
    BY <1>34 DEF ClientCloses, ours
<1>35. CASE TargetSends
    BY <1>35 DEF TargetSends, ours
<1>36. CASE TargetCloses
    BY <1>36 DEF TargetCloses, ours
<1>37. CASE UNCHANGED vars
    BY <1>37
<1> QED
    BY <1>1, <1>2, <1>3, <1>4, <1>5, <1>6, <1>7, <1>8, <1>9, <1>10, <1>11,
       <1>12, <1>13, <1>14, <1>15, <1>16, <1>17, <1>18, <1>19, <1>20, <1>21, <1>22,
       <1>23, <1>24, <1>25, <1>26, <1>27, <1>28, <1>29, <1>30, <1>31, <1>32, <1>33,
       <1>34, <1>35, <1>36, <1>37
       DEF Next, StepM, StepC, StepS, StepP, Environment, Terminated

-----------------------------------------------------------------------------
(* From the client to the target *)

(* What has been written to the target is the beginning of what has been   *)
(* read from the client, and as long as the target can be written to, what *)
(* C or L still holds is the rest of it.  The FinishedRead of our own      *)
(* handshake ends this: its bytes are not for the target.                  *)
Up ==
    /\ toTarget = Window(0, Len(toTarget))
    /\ pcC \notin {"relock", "copyWrite"} => cBuf = <<>>
    /\ pcL # "copyWrite" => lBuf = <<>>
    /\ pcP = "off" /\ TargetWritable =>
          /\ Len(toTarget) <= cPos
          /\ cBuf \o lBuf = Window(Len(toTarget), cPos)

(* A connection that cannot be written to never can be again. *)
LEMMA WritableLost ==
    ASSUME TypeOK, [Next]_vars
    PROVE  /\ TargetWritable' => TargetWritable
           /\ ClientWritable' => ClientWritable
<1> USE DEF TypeOK, TargetWritable, ClientWritable, env, peers, closed, vars
<1>1. CASE DialFails
    BY <1>1 DEF DialFails
<1>2. CASE DialSucceeds
    BY <1>2 DEF DialSucceeds
<1>3. CASE Return
    BY <1>3 DEF Return
<1>4. CASE LockC
    BY <1>4 DEF LockC
<1>5. CASE MirrorRead
    BY <1>5 DEF MirrorRead
<1>6. CASE MirrorReadReturns
    BY <1>6 DEF MirrorReadReturns
<1>7. CASE MirrorWrite
    BY <1>7 DEF MirrorWrite
<1>8. CASE HelloError
    BY <1>8 DEF HelloError
<1>9. CASE JudgeHello
    BY <1>9 DEF JudgeHello
<1>10. CASE CopyC
    BY <1>10 DEF CopyC
<1>11. CASE DoneC
    BY <1>11 DEF DoneC
<1>12. CASE ReadTarget
    BY <1>12 DEF ReadTarget, AbandonClient
<1>13. CASE GiveUpOnData
    BY <1>13 DEF GiveUpOnData
<1>14. CASE LockS
    BY <1>14 DEF LockS
<1>15. CASE ParseReject
    BY <1>15 DEF ParseReject
<1>16. CASE ParseLast
    BY <1>16 DEF ParseLast
<1>17. CASE ParseWait
    BY <1>17 DEF ParseWait
<1>18. CASE ParseTake
    BY <1>18 DEF ParseTake
<1>19. CASE HandshakePanics
    BY <1>19 DEF HandshakePanics
<1>20. CASE HandshakeSent
    BY <1>20 DEF HandshakeSent
<1>21. CASE HandshakeFails
    BY <1>21 DEF HandshakeFails
<1>22. CASE FinishedRead
    BY <1>22 DEF FinishedRead
<1>23. CASE FinishedFails
    BY <1>23 DEF FinishedFails
<1>24. CASE AfterLoop
    BY <1>24 DEF AfterLoop
<1>25. CASE WriteSaved
    BY <1>25 DEF WriteSaved
<1>26. CASE CopyS
    BY <1>26 DEF CopyS
<1>27. CASE DoneS
    BY <1>27 DEF DoneS
<1>28. CASE CopyL
    BY <1>28 DEF CopyL
<1>29. CASE DrainTarget
    BY <1>29 DEF DrainTarget
<1>30. CASE ProbeTarget
    BY <1>30 DEF ProbeTarget
<1>31. CASE ProbeCheck
    BY <1>31 DEF ProbeCheck
<1>32. CASE ProbeClose
    BY <1>32 DEF ProbeClose
<1>33. CASE ClientSends
    BY <1>33 DEF ClientSends, ours
<1>34. CASE ClientCloses
    BY <1>34 DEF ClientCloses, ours
<1>35. CASE TargetSends
    BY <1>35 DEF TargetSends, ours
<1>36. CASE TargetCloses
    BY <1>36 DEF TargetCloses, ours
<1>37. CASE UNCHANGED vars
    BY <1>37
<1> QED
    BY <1>1, <1>2, <1>3, <1>4, <1>5, <1>6, <1>7, <1>8, <1>9, <1>10, <1>11,
       <1>12, <1>13, <1>14, <1>15, <1>16, <1>17, <1>18, <1>19, <1>20, <1>21, <1>22,
       <1>23, <1>24, <1>25, <1>26, <1>27, <1>28, <1>29, <1>30, <1>31, <1>32, <1>33,
       <1>34, <1>35, <1>36, <1>37
       DEF Next, StepM, StepC, StepS, StepP, Environment, Terminated

(* A step that moves nothing from the client towards the target keeps Up. *)
LEMMA UpFrame ==
    ASSUME Up, UNCHANGED <<toTarget, cBuf, lBuf, cPos>>,
           TargetWritable' => TargetWritable,
           pcP' = "off" => pcP = "off",
           pcC' \notin {"relock", "copyWrite"} => pcC \notin {"relock", "copyWrite"},
           pcL' # "copyWrite" => pcL # "copyWrite"
    PROVE  Up'
    BY DEF Up

(* A read from the client by C or L, which held nothing. *)
LEMMA UpRead ==
    ASSUME TypeOK, Up, cBuf = <<>>, lBuf = <<>>, ClientReadable,
           cPos' = Len(cOut), UNCHANGED <<toTarget, pcP>>,
           TargetWritable' => TargetWritable,
           \/ cBuf' = Window(cPos, Len(cOut)) /\ lBuf' = <<>>
           \/ lBuf' = Window(cPos, Len(cOut)) /\ cBuf' = <<>>,
           pcC' \notin {"relock", "copyWrite"} => cBuf' = <<>>,
           pcL' # "copyWrite" => lBuf' = <<>>
    PROVE  Up'
<1>1. cPos \in Nat /\ Len(cOut) \in Nat /\ Len(toTarget) \in Nat
  <2>1. cPos \in Nat /\ toTarget \in Seq(Nat)
    BY DEF TypeOK
  <2>2. Len(cOut) \in Nat
    BY ReadTypes
  <2> QED
    BY <2>1, <2>2
<1>2. cPos <= Len(cOut)
    BY <1>1 DEF ClientReadable
<1>3. cBuf' \o lBuf' = Window(cPos, Len(cOut))
  <2>1. Window(cPos, Len(cOut)) \in Seq(Nat)
    BY <1>1, <1>2, WindowFacts
  <2> QED
    BY <2>1, ConcatEmptySeq
<1>4. pcP = "off" /\ TargetWritable => Len(toTarget) = cPos
  <2>1. cBuf \o lBuf = <<>>
    OBVIOUS
  <2> QED
    BY <1>1, <2>1, EmptyWindow DEF Up
<1>5. (pcP' = "off" /\ TargetWritable') =>
          /\ Len(toTarget)' <= cPos'
          /\ (cBuf \o lBuf)' = Window(Len(toTarget), cPos)'
  <2> SUFFICES ASSUME pcP' = "off", TargetWritable'
               PROVE  /\ Len(toTarget)' <= cPos'
                      /\ (cBuf \o lBuf)' = Window(Len(toTarget), cPos)'
    OBVIOUS
  <2>1. Len(toTarget) = cPos /\ toTarget' = toTarget
    BY <1>4
  <2> QED
    BY <1>2, <1>3, <2>1
<1> QED
    BY <1>5 DEF Up

(* A write to the target of what C or L holds. *)
LEMMA UpWrite ==
    ASSUME TypeOK, Up, pcP = "off", TargetWritable,
           toTarget' = toTarget \o (cBuf \o lBuf),
           cBuf' = <<>>, lBuf' = <<>>, UNCHANGED cPos
    PROVE  Up'
<1>0. cPos \in Nat /\ Len(toTarget) \in Nat
    BY DEF TypeOK
<1>1. /\ cPos \in Nat /\ Len(toTarget) \in Nat /\ Len(toTarget) <= cPos
      /\ cBuf \o lBuf = Window(Len(toTarget), cPos)
    BY <1>0 DEF Up
<1>2. 0 <= Len(toTarget)
    BY <1>1
<1>3. toTarget' = Window(0, Len(toTarget)) \o Window(Len(toTarget), cPos)
    BY <1>1 DEF Up
<1>4. toTarget' = Window(0, cPos)
    BY <1>1, <1>2, <1>3, JoinWindows
<1>5. Len(Window(0, cPos)) = cPos
    BY <1>1, WindowFacts
<1>6. Window(cPos, cPos) = <<>>
    BY <1>1, EmptyWindow
<1>7. (cBuf \o lBuf)' = <<>>
    OBVIOUS
<1>8. Len(toTarget)' = cPos /\ cPos' = cPos
    BY <1>4, <1>5
<1>9. Len(toTarget)' <= cPos'
    BY <1>1, <1>8
<1>10. toTarget' = Window(0, Len(toTarget))'
    BY <1>4, <1>8
<1>11. (cBuf \o lBuf)' = Window(Len(toTarget), cPos)'
    BY <1>6, <1>7, <1>8
<1> QED
    BY <1>9, <1>10, <1>11 DEF Up

(* Every step keeps the stream from the client to the target in order. *)
LEMMA UpStep ==
    ASSUME IInv, Stages, Up, [Next]_vars
    PROVE  Up'
<1>1. TypeOK /\ cBuf \in Seq(Nat) /\ lBuf \in Seq(Nat)
    BY DEF IInv, TypeOK
<1>2. TargetWritable' => TargetWritable
    BY <1>1, WritableLost
<1>3. cBuf \o <<>> = cBuf /\ <<>> \o lBuf = lBuf
    BY <1>1, ConcatEmptySeq
<1> USE DEF At, env, peers, written, flags, closed, parsing, varsM, varsC, varsS, varsL,
        varsP, vars
<1>4. CASE MirrorReadReturns
  <2>1. pcC = "reading" /\ pcC' = "relock" /\ UNCHANGED <<toTarget, lBuf, pcL, pcP>>
    BY <1>4 DEF MirrorReadReturns
  <2>2. cBuf = <<>> /\ lBuf = <<>> /\ pcL = "off"
    BY <2>1 DEF IInv, Control, Up
  <2>3. CASE ClientReadable /\ cBuf' = Window(cPos, Len(cOut)) /\ cPos' = Len(cOut)
    BY <1>1, <1>2, <2>1, <2>2, <2>3, UpRead
  <2>4. CASE UNCHANGED <<cBuf, cPos>>
    BY <1>2, <2>1, <2>4, UpFrame
  <2> QED
    BY <1>4, <2>3, <2>4 DEF MirrorReadReturns
<1>5. CASE MirrorWrite
  <2>1. /\ pcC = "relock" /\ pcC' = "held" /\ cBuf' = <<>>
        /\ UNCHANGED <<cPos, lBuf, pcL, pcP>>
        /\ toTarget' = IF TargetWritable THEN toTarget \o cBuf ELSE toTarget
    BY <1>5 DEF MirrorWrite
  <2>2. pcP = "off" /\ lBuf = <<>>
    BY <2>1 DEF IInv, Control, Stages, Up
  <2>3. CASE TargetWritable
    BY <1>1, <1>3, <2>1, <2>2, <2>3, UpWrite
  <2>4. CASE ~TargetWritable
    BY <1>2, <2>1, <2>2, <2>4 DEF Up
  <2> QED
    BY <2>3, <2>4
<1>6. CASE CopyC
  <2>1. pcC \in {"copyRead", "copyWrite"} /\ UNCHANGED <<lBuf, pcL, pcP>>
    BY <1>6 DEF CopyC
  <2>2. pcP = "off" /\ lBuf = <<>> /\ pcL = "off"
    BY <2>1 DEF IInv, Control, Stages, Up
  <2>3. CASE /\ pcC = "copyRead" /\ ClientReadable /\ pcC' = "copyWrite"
             /\ cBuf' = Window(cPos, Len(cOut)) /\ cPos' = Len(cOut)
             /\ UNCHANGED toTarget
    <3>1. cBuf = <<>>
      BY <2>3 DEF Up
    <3> QED
      BY <1>1, <1>2, <2>1, <2>2, <2>3, <3>1, UpRead
  <2>4. CASE pcC = "copyRead" /\ UNCHANGED <<cBuf, cPos, toTarget>>
    BY <1>2, <2>1, <2>4, UpFrame
  <2>5. CASE TargetWritable /\ toTarget' = toTarget \o cBuf /\ cBuf' = <<>>
             /\ UNCHANGED cPos
    BY <1>1, <1>3, <2>1, <2>2, <2>5, UpWrite
  <2>6. CASE ~TargetWritable /\ cBuf' = <<>> /\ UNCHANGED <<cPos, toTarget>>
    BY <1>2, <2>1, <2>2, <2>6 DEF Up
  <2> QED
    BY <1>6, <2>3, <2>4, <2>5, <2>6 DEF CopyC
<1>7. CASE CopyL
  <2>1. pcL \in {"copyRead", "copyWrite"} /\ UNCHANGED <<cBuf, pcC, pcP>>
    BY <1>7 DEF CopyL
  <2>2. pcP = "off" /\ cBuf = <<>> /\ pcC \in {"finish", "done"}
    BY <2>1 DEF IInv, Control, Stages, Up
  <2>3. CASE /\ pcL = "copyRead" /\ ClientReadable /\ pcL' = "copyWrite"
             /\ lBuf' = Window(cPos, Len(cOut)) /\ cPos' = Len(cOut)
             /\ UNCHANGED toTarget
    <3>1. lBuf = <<>>
      BY <2>3 DEF Up
    <3> QED
      BY <1>1, <1>2, <2>1, <2>2, <2>3, <3>1, UpRead
  <2>4. CASE TargetWritable /\ toTarget' = toTarget \o lBuf /\ lBuf' = <<>>
             /\ UNCHANGED cPos
    BY <1>1, <1>3, <2>1, <2>2, <2>4, UpWrite
  <2>5. CASE pcL = "copyRead" /\ lBuf' = <<>> /\ UNCHANGED <<cPos, toTarget>>
    BY <1>2, <2>1, <2>2, <2>5 DEF Up
  <2>6. CASE ~TargetWritable /\ lBuf' = <<>> /\ UNCHANGED <<cPos, toTarget>>
    BY <1>2, <2>1, <2>2, <2>6 DEF Up
  <2> QED
    BY <1>7, <2>3, <2>4, <2>5, <2>6 DEF CopyL
<1>8. CASE FinishedRead \/ FinishedFails
  <2>1. pcS = "finished" /\ UNCHANGED <<toTarget, cBuf, lBuf, pcC, pcL, pcP>>
    BY <1>8 DEF FinishedRead, FinishedFails
  <2>2. pcP # "off"
    BY <2>1 DEF Stages
  <2> QED
    BY <2>1, <2>2 DEF Up
<1>9. CASE \/ DialFails \/ DialSucceeds \/ Return \/ LockC \/ MirrorRead
            \/ HelloError \/ JudgeHello \/ DoneC \/ ReadTarget
            \/ GiveUpOnData \/ LockS \/ ParseReject \/ ParseLast \/ ParseWait
            \/ ParseTake \/ HandshakePanics \/ HandshakeSent
            \/ HandshakeFails \/ AfterLoop \/ WriteSaved \/ CopyS \/ DoneS
            \/ DrainTarget \/ ProbeTarget \/ ProbeCheck \/ ProbeClose
            \/ ClientSends \/ ClientCloses \/ TargetSends \/ TargetCloses
  <2>1. /\ UNCHANGED <<toTarget, cBuf, lBuf, cPos>>
        /\ pcP' = "off" => pcP = "off"
        /\ pcC' \notin {"relock", "copyWrite"} => pcC \notin {"relock", "copyWrite"}
        /\ pcL' # "copyWrite" => pcL # "copyWrite"
    BY <1>9
       DEF IInv, Control, DialFails, DialSucceeds, Return, LockC, MirrorRead, HelloError,
           JudgeHello, DoneC, ReadTarget, GiveUpOnData, LockS, ParseReject,
           ParseLast, ParseWait, ParseTake, HandshakePanics, HandshakeSent,
           HandshakeFails, AfterLoop, WriteSaved, CopyS, DoneS, DrainTarget,
           ProbeTarget, ProbeCheck, ProbeClose, ClientSends, ClientCloses,
           TargetSends, TargetCloses, AbandonClient, SpawnL, LeavesClient, ours
  <2> QED
    BY <1>2, <2>1, UpFrame
<1>10. CASE UNCHANGED vars
    BY <1>2, <1>10, UpFrame
<1> QED
    BY <1>4, <1>5, <1>6, <1>7, <1>8, <1>9, <1>10
       DEF Next, StepM, StepC, StepS, StepP, Environment, Terminated

-----------------------------------------------------------------------------
(* From the target to the client *)

(* What has been written to the client is the beginning of the target's    *)
(* stream, and while the copy runs and the client can be written to, what  *)
(* S still holds is the rest of what it read.                              *)
Down ==
    /\ toClient = Window(0, Len(toClient))
    /\ pcS # "copyWrite" => sBuf = <<>>
    /\ pcS \in {"copyRead", "copyWrite"} /\ ClientWritable =>
          /\ Len(toClient) <= tPos
          /\ sBuf = Window(Len(toClient), tPos)

(* A step that moves nothing from the target towards the client keeps Down. *)
LEMMA DownFrame ==
    ASSUME Down, UNCHANGED <<toClient, sBuf>>,
           ClientWritable' => ClientWritable,
           pcS' \in {"copyRead", "copyWrite"} => UNCHANGED <<pcS, tPos>>,
           pcS' # "copyWrite" => pcS # "copyWrite"
    PROVE  Down'
    BY DEF Down

(* A write that leaves S with nothing in hand. *)
LEMMA DownWrite ==
    ASSUME TypeOK, toClient' = Window(0, tPos), sBuf' = <<>>, UNCHANGED tPos
    PROVE  Down'
<1>1. tPos \in Nat
    BY DEF TypeOK
<1>2. Len(Window(0, tPos)) = tPos
    BY <1>1, WindowFacts
<1>3. Len(toClient)' = tPos /\ tPos' = tPos
    BY <1>2
<1>4. Window(tPos, tPos) = <<>>
    BY <1>1, EmptyWindow
<1>5. sBuf' = Window(Len(toClient), tPos)' /\ Len(toClient)' <= tPos'
    BY <1>1, <1>3, <1>4
<1>6. toClient' = Window(0, Len(toClient))'
    BY <1>3
<1> QED
    BY <1>5, <1>6 DEF Down

(* Every step keeps the stream from the target to the client in order. *)
LEMMA DownStep ==
    ASSUME IInv, Stages, Down, [Next]_vars
    PROVE  Down'
<1>1. TypeOK
    BY DEF IInv
<1>2. ClientWritable' => ClientWritable
    BY <1>1, WritableLost
<1>3. tPos \in Nat /\ tSent \in Nat /\ toClient \in Seq(Nat) /\ Len(toClient) \in Nat
    BY <1>1 DEF TypeOK
<1> USE DEF At, env, peers, written, flags, closed, parsing, varsM, varsC, varsS, varsL,
        varsP, vars
<1>4. CASE WriteSaved
  <2>1. /\ pcS = "saved" /\ pcS' = "copyRead" /\ UNCHANGED <<tPos, sBuf>>
        /\ toClient' = IF ClientWritable THEN toClient \o SavedUnits ELSE toClient
    BY <1>4 DEF WriteSaved
  <2>2. toClient = <<>> /\ cut = 0 /\ sBuf = <<>>
    BY <2>1 DEF Stages, Copying, Down
  <2>3. CASE ClientWritable
    <3>1. SavedUnits = Window(0, tPos)
      BY <2>2 DEF SavedUnits
    <3>2. Window(0, tPos) \in Seq(Nat)
      BY <1>3, WindowFacts
    <3>3. toClient' = Window(0, tPos)
      BY <2>1, <2>2, <2>3, <3>1, <3>2, ConcatEmptySeq
    <3> QED
      BY <1>1, <2>1, <2>2, <3>3, DownWrite
  <2>4. CASE ~ClientWritable
    BY <1>2, <2>1, <2>2, <2>4 DEF Down
  <2> QED
    BY <2>3, <2>4
<1>5. CASE CopyS
  <2>1. CASE /\ pcS = "copyRead" /\ TargetReadable /\ pcS' = "copyWrite"
             /\ sBuf' = Window(tPos, tSent) /\ tPos' = tSent /\ UNCHANGED toClient
    <3>1. ClientWritable => Len(toClient) = tPos
      BY <1>3, <2>1, EmptyWindow DEF Down
    <3>2. tPos <= tSent
      BY <1>3, <2>1 DEF TargetReadable
    <3>3. ClientWritable' =>
             Len(toClient)' <= tPos' /\ sBuf' = Window(Len(toClient), tPos)'
      <4> SUFFICES ASSUME ClientWritable'
                   PROVE  Len(toClient)' <= tPos' /\ sBuf' = Window(Len(toClient), tPos)'
        OBVIOUS
      <4>1. Len(toClient) = tPos /\ toClient' = toClient
        BY <1>2, <2>1, <3>1
      <4> QED
        BY <2>1, <3>2, <4>1
    <3> QED
      BY <2>1, <3>3 DEF Down
  <2>2. CASE /\ pcS = "copyWrite" /\ ClientWritable /\ UNCHANGED tPos
             /\ toClient' = toClient \o sBuf /\ sBuf' = <<>>
    <3>1. Len(toClient) <= tPos /\ sBuf = Window(Len(toClient), tPos)
      BY <2>2 DEF Down
    <3>2. 0 <= Len(toClient) /\ toClient = Window(0, Len(toClient))
      BY <1>3 DEF Down
    <3>3. toClient' = Window(0, Len(toClient)) \o Window(Len(toClient), tPos)
      BY <2>2, <3>1, <3>2
    <3>4. toClient' = Window(0, tPos)
      BY <1>3, <3>1, <3>2, <3>3, JoinWindows
    <3> QED
      BY <1>1, <2>2, <3>4, DownWrite
  <2>3. CASE pcS' = "finish" /\ sBuf' = <<>> /\ UNCHANGED toClient
    BY <2>3 DEF Down
  <2> QED
    BY <1>5, <2>1, <2>2, <2>3 DEF CopyS
<1>6. CASE DrainTarget \/ ProbeTarget
  <2>1. pcP # "off" /\ UNCHANGED <<pcS, toClient, sBuf>>
    BY <1>6 DEF DrainTarget, ProbeTarget
  <2>2. pcS \notin {"copyRead", "copyWrite"}
    BY <2>1 DEF IInv, Control
  <2> QED
    BY <1>2, <2>1, <2>2, DownFrame
<1>7. CASE \/ DialFails \/ DialSucceeds \/ Return \/ LockC \/ MirrorRead
            \/ MirrorReadReturns \/ MirrorWrite \/ HelloError \/ JudgeHello
            \/ CopyC \/ DoneC \/ ReadTarget \/ GiveUpOnData \/ LockS
            \/ ParseReject \/ ParseLast \/ ParseWait \/ ParseTake
            \/ HandshakePanics \/ HandshakeSent \/ HandshakeFails
            \/ FinishedRead \/ FinishedFails \/ AfterLoop \/ DoneS \/ CopyL
            \/ ProbeCheck \/ ProbeClose \/ ClientSends \/ ClientCloses
            \/ TargetSends \/ TargetCloses
  <2>1. /\ UNCHANGED <<toClient, sBuf>>
        /\ pcS' \in {"copyRead", "copyWrite"} => UNCHANGED <<pcS, tPos>>
        /\ pcS' # "copyWrite" => pcS # "copyWrite"
    BY <1>7
       DEF IInv, Control, DialFails, DialSucceeds, Return, LockC, MirrorRead,
           MirrorReadReturns, MirrorWrite, HelloError, JudgeHello, CopyC,
           DoneC, ReadTarget, GiveUpOnData, LockS, ParseReject, ParseLast,
           ParseWait, ParseTake, HandshakePanics, HandshakeSent,
           HandshakeFails, FinishedRead, FinishedFails, AfterLoop, DoneS,
           CopyL, ProbeCheck, ProbeClose, ClientSends, ClientCloses,
           TargetSends, TargetCloses, AbandonClient, Unanswered, SpawnL, ours
  <2> QED
    BY <1>2, <2>1, DownFrame
<1>8. CASE UNCHANGED vars
    BY <1>2, <1>8, DownFrame
<1> QED
    BY <1>4, <1>5, <1>6, <1>7, <1>8
       DEF Next, StepM, StepC, StepS, StepP, Environment, Terminated

-----------------------------------------------------------------------------
(* What S learns of the target's records *)

Looking == pcS \in {"off", "read", "lock", "parse"}

Fits(i, r) ==
    /\ i = 0 => r.good
    /\ i = 1 => r.typ = "ccs"
    /\ i > 1 => r.typ = "appdata"

(* The length in entry i is that of the target's record in its place. *)
Known(i) ==
    /\ i < Len(script) /\ hsLen[i] = script[i + 1].len
    /\ Fits(i, script[i + 1])

NoGap == \A i \in 0..6 : hsLen[i] # 0 => \A j \in 0..(i - 1) : hsLen[j] # 0

(* s2cSaved starts with the record that Cur stands for. *)
AtEntry ==
    \/ Cur < Len(script) /\ cut = script[Cur + 1].at
    \/ Cur >= Len(script) /\ cut = StreamEnd

(* Until encrypt uses them up, the lengths S has recorded are those of the *)
(* target's records, in order and without a gap; and while S is still      *)
(* looking, its cut, the entry it looks for and the length it has seen     *)
(* belong to the same record, over any number of reads and releases of the *)
(* mutex.                                                                  *)
Learned ==
    /\ flight = <<>> => \A i \in 0..6 : hsLen[i] # 0 => Known(i)
    /\ Looking \/ pcS = "handshake" => NoGap
    /\ Looking => /\ hsLen[6] = 0 /\ AtEntry
                  /\ recLen # 0 => HeaderOK(Cur)

(* No two records of the target start at the same place. *)
LEMMA RecordAt ==
    ASSUME TypeOK, NEW j \in 1..Len(script), script[j].at = cut
    PROVE  HeadRecord = script[j]
<1>1. PICK k \in 1..Len(script) : script[k].at = cut /\ HeadRecord = script[k]
    BY DEF HeadRecord
<1>2. script \in Scripts /\ script \in Seq(Record)
    BY ScriptsAssumption DEF TypeOK
<1>3. script[j] \in Record /\ script[k] \in Record
    BY <1>2
<1>4. /\ script[j].at \in Nat /\ script[j].len \in Nat
      /\ script[k].at \in Nat /\ script[k].len \in Nat
    BY <1>3 DEF Record
<1>5. script[j].len > 0 /\ script[k].len > 0
  <2>1. script[j].len > RecordHeaderLen /\ script[k].len > RecordHeaderLen
    BY <1>2, ScriptsAssumption
  <2>2. RecordHeaderLen \in Nat
    BY SizesAssumption
  <2> QED
    BY <1>4, <2>1, <2>2
<1>6. /\ j < k => script[j].at + script[j].len <= script[k].at
      /\ k < j => script[k].at + script[k].len <= script[j].at
    BY <1>2, ScriptsAssumption
<1>7. j = k
    BY <1>1, <1>4, <1>5, <1>6
<1> QED
    BY <1>1, <1>7

(* A record starts before the stream ends. *)
LEMMA BeforeEnd ==
    ASSUME TypeOK, AtRecord
    PROVE  cut # StreamEnd
<1>1. PICK k \in 1..Len(script) : script[k].at = cut
    BY DEF AtRecord
<1>2. script \in Scripts /\ script \in Seq(Record) /\ Len(script) \in 1..Len(script)
    BY <1>1, ScriptsAssumption DEF TypeOK
<1>3. script[k] \in Record /\ script[Len(script)] \in Record
    BY <1>2
<1>4. /\ script[k].at \in Nat /\ script[k].len \in Nat
      /\ script[Len(script)].at \in Nat /\ script[Len(script)].len \in Nat
    BY <1>3 DEF Record
<1>5. script[k].len > 0 /\ script[Len(script)].len > 0
  <2>1. script[k].len > RecordHeaderLen /\ script[Len(script)].len > RecordHeaderLen
    BY <1>2, ScriptsAssumption
  <2>2. RecordHeaderLen \in Nat
    BY SizesAssumption
  <2> QED
    BY <1>4, <2>1, <2>2
<1>6. k < Len(script) => script[k].at + script[k].len <= script[Len(script)].at
    BY <1>2, ScriptsAssumption
<1> QED
    BY <1>1, <1>4, <1>5, <1>6 DEF StreamEnd

(* The first zero of a table of lengths. *)
LEMMA FirstZero ==
    ASSUME NEW f \in [0..6 -> Nat], NEW k \in 0..6, f[k] = 0,
           \A j \in 0..(k - 1) : f[j] # 0
    PROVE  k = CHOOSE i \in 0..6 : f[i] = 0 /\ \A j \in 0..(i - 1) : f[j] # 0
<1> DEFINE c == CHOOSE i \in 0..6 : f[i] = 0 /\ \A j \in 0..(i - 1) : f[j] # 0
<1>1. c \in 0..6 /\ f[c] = 0 /\ \A j \in 0..(c - 1) : f[j] # 0
    OBVIOUS
<1> HIDE DEF c
<1>2. ~(c < k) /\ ~(k < c)
    BY <1>1
<1>3. k = c
    BY <1>1, <1>2
<1> QED
    BY <1>3 DEF c

(* While the last entry is empty, Cur is an empty entry. *)
LEMMA CurEntry ==
    ASSUME TypeOK, hsLen[6] = 0
    PROVE  Cur \in 0..6 /\ hsLen[Cur] = 0
<1>1. \E i \in 0..6 : hsLen[i] = 0
    OBVIOUS
<1>2. \E i \in 0..6 : hsLen[i] = 0 /\ \A j \in 0..(i - 1) : hsLen[j] # 0
    BY <1>1, 0..6 = {0, 1, 2, 3, 4, 5, 6}
<1> QED
    BY <1>1, <1>2 DEF Cur

(* A length that S has seen is that of the record Cur stands for, whose    *)
(* header is the right one unless it is refused.                           *)
LEMMA EntryRecord ==
    ASSUME TypeOK, Alignment, Learned, Looking, SeenLen # 0, ~Unfit
    PROVE  /\ Cur < Len(script) /\ cut = script[Cur + 1].at
           /\ HeadRecord = script[Cur + 1] /\ SeenLen = script[Cur + 1].len
           /\ HeaderOK(Cur)
<1>1. AtRecord /\ SeenLen = HeadRecord.len
    BY SeenRecord
<1>2. cut # StreamEnd
    BY <1>1, BeforeEnd
<1>3. Cur < Len(script) /\ cut = script[Cur + 1].at
    BY <1>2 DEF Learned, AtEntry
<1>4. Cur \in 0..6 /\ Len(script) \in Nat
  <2>1. Len(script) \in Nat
    BY ScriptsAssumption DEF TypeOK
  <2> QED
    BY <2>1, CurEntry DEF Learned
<1>5. Cur + 1 \in 1..Len(script)
    BY <1>3, <1>4
<1>6. HeadRecord = script[Cur + 1]
    BY <1>3, <1>5, RecordAt
<1>7. HeaderOK(Cur)
  <2>1. CASE HeaderVisible
    BY <2>1 DEF Unfit
  <2>2. CASE ~HeaderVisible
    BY <2>2 DEF SeenLen, Learned
  <2> QED
    BY <2>1, <2>2
<1> QED
    BY <1>1, <1>3, <1>6, <1>7

(* A step that leaves what S knows alone keeps Learned. *)
LEMMA LearnedFrame ==
    ASSUME Learned, UNCHANGED <<script, hsLen, recLen, cut, flight>>,
           Looking' => Looking, pcS' = "handshake" => pcS = "handshake"
    PROVE  Learned'
<1>1. \A i \in 0..6 : Known(i)' <=> Known(i)
    BY DEF Known, Fits
<1>2. Cur' = Cur /\ StreamEnd' = StreamEnd /\ HeadRecord' = HeadRecord
    BY DEF Cur, StreamEnd, HeadRecord, Garbage
<1>3. (NoGap' <=> NoGap) /\ (AtEntry' <=> AtEntry) /\ (HeaderOK(Cur)' <=> HeaderOK(Cur))
    BY <1>2 DEF NoGap, AtEntry, HeaderOK
<1> QED
    BY <1>1, <1>3 DEF Learned

(* A length is recorded in its entry. *)
LEMMA Recorded ==
    ASSUME TypeOK, Alignment, Learned, Looking, SeenLen # 0, ~Unfit,
           Cur = 0 => HeadRecord.good,
           hsLen' = [hsLen EXCEPT ![Cur] = SeenLen], UNCHANGED <<script, flight>>
    PROVE  /\ flight' = <<>> => \A i \in 0..6 : hsLen'[i] # 0 => Known(i)'
           /\ NoGap'
<1>1. hsLen \in [0..6 -> Nat] /\ Cur \in 0..6 /\ hsLen[Cur] = 0
    BY CurEntry DEF TypeOK, Learned
<1>2. /\ Cur < Len(script) /\ HeadRecord = script[Cur + 1]
      /\ SeenLen = script[Cur + 1].len /\ HeaderOK(Cur)
    BY EntryRecord
<1>3. Fits(Cur, script[Cur + 1])
    BY <1>1, <1>2 DEF HeaderOK, Fits
<1>4. \A i \in 0..6 : hsLen'[i] = IF i = Cur THEN SeenLen ELSE hsLen[i]
    BY <1>1
<1>5. ASSUME flight' = <<>>, NEW i \in 0..6, hsLen'[i] # 0
      PROVE  Known(i)'
  <2>1. CASE i = Cur
    <3>1. hsLen'[i] = script[i + 1].len /\ i < Len(script) /\ Fits(i, script[i + 1])
      BY <1>2, <1>3, <1>4, <2>1
    <3> QED
      BY <3>1 DEF Known, Fits
  <2>2. CASE i # Cur
    <3>1. hsLen'[i] = hsLen[i] /\ Known(i)
      BY <1>4, <1>5, <2>2 DEF Learned
    <3> QED
      BY <3>1 DEF Known, Fits
  <2> QED
    BY <2>1, <2>2
<1>6. NoGap'
  <2>1. \A j \in 0..6 : j < Cur => hsLen[j] # 0
    BY CurFacts
  <2>2. ASSUME NEW i \in 0..6, hsLen'[i] # 0, NEW j \in 0..(i - 1)
        PROVE  hsLen'[j] # 0
    <3>1. i <= Cur
      <4> SUFFICES ASSUME i > Cur PROVE FALSE
        BY <1>1
      <4>1. hsLen[i] # 0 /\ Cur \in 0..(i - 1)
        BY <1>1, <1>4, <2>2
      <4> QED
        BY <1>1, <4>1 DEF Learned, NoGap
    <3>2. j \in 0..6 /\ j < Cur
      BY <1>1, <3>1
    <3> QED
      BY <1>4, <2>1, <3>2
  <2> QED
    BY <2>2 DEF NoGap
<1> QED
    BY <1>5, <1>6

(* Every step keeps what S has learned. *)
LEMMA LearnedStep ==
    ASSUME IInv, Alignment, Stages, Learned, [Next]_vars
    PROVE  Learned'
<1>1. TypeOK /\ SeenLen \in Nat
    BY LengthsSeen DEF IInv
<1> USE DEF At, env, peers, written, flags, closed, parsing, varsM, varsC, varsS, varsL,
        varsP, vars
<1>2. CASE ParseReject
  <2>1. pcS' = "after" /\ UNCHANGED <<script, hsLen, flight>>
    BY <1>2 DEF ParseReject
  <2>2. \A i \in 0..6 : Known(i)' <=> Known(i)
    BY <2>1 DEF Known, Fits
  <2> QED
    BY <2>1, <2>2 DEF Learned, Looking
<1>3. CASE ParseLast
  <2>1. pcS = "parse" /\ pcS' = "handshake" /\ UNCHANGED <<script, flight>>
    BY <1>3 DEF ParseLast
  <2>2. Looking /\ ~Looking'
    BY <2>1 DEF Looking
  <2>3. CASE UNCHANGED hsLen
    <3>1. \A i \in 0..6 : Known(i)' <=> Known(i)
      BY <2>1, <2>3 DEF Known, Fits
    <3> QED
      BY <2>1, <2>2, <2>3, <3>1 DEF Learned, NoGap
  <2>4. CASE ~Unfit /\ LengthSuffices /\ hsLen' = [hsLen EXCEPT ![Cur] = SeenLen]
    <3>1. SeenLen # 0 /\ Cur # 0
      BY <1>1, <2>4 DEF LengthSuffices
    <3>2. /\ flight' = <<>> => \A i \in 0..6 : hsLen'[i] # 0 => Known(i)'
          /\ NoGap'
      BY <1>1, <2>1, <2>2, <2>4, <3>1, Recorded
    <3> QED
      BY <2>2, <3>2 DEF Learned
  <2> QED
    BY <1>3, <2>3, <2>4 DEF ParseLast
<1>4. CASE ParseWait
  <2>1. /\ pcS = "parse" /\ pcS' = "read" /\ recLen' = SeenLen /\ ~Unfit
        /\ UNCHANGED <<script, hsLen, cut, flight>>
    BY <1>4 DEF ParseWait
  <2>2. Looking /\ pcS' # "handshake"
    BY <2>1 DEF Looking
  <2>3. recLen' # 0 => HeaderOK(Cur)
    BY <1>1, <2>1, <2>2, EntryRecord
  <2>4. \A i \in 0..6 : Known(i)' <=> Known(i)
    BY <2>1 DEF Known, Fits
  <2>5. Cur' = Cur /\ StreamEnd' = StreamEnd /\ HeadRecord' = HeadRecord
    BY <2>1 DEF Cur, StreamEnd, HeadRecord, Garbage
  <2>6. (NoGap' <=> NoGap) /\ (AtEntry' <=> AtEntry) /\ (HeaderOK(Cur)' <=> HeaderOK(Cur))
    BY <2>1, <2>5 DEF NoGap, AtEntry, HeaderOK
  <2> QED
    BY <2>1, <2>2, <2>3, <2>4, <2>6 DEF Learned
<1>5. CASE ParseTake
  <2>1. /\ pcS = "parse" /\ ~Unfit /\ ~LengthSuffices
        /\ SeenLen > 0 /\ Saved >= SeenLen
        /\ hsLen' = [hsLen EXCEPT ![Cur] = SeenLen]
        /\ cut' = cut + SeenLen /\ recLen' = 0
        /\ UNCHANGED <<script, flight, pcS>>
    BY <1>5 DEF ParseTake, NextRecLen
  <2>2. Looking /\ SeenLen # 0
    BY <1>1, <2>1 DEF Looking
  <2>3. Cur = 0 => HeadRecord.good
    BY <2>1 DEF Unfit
  <2>4. /\ flight' = <<>> => \A i \in 0..6 : hsLen'[i] # 0 => Known(i)'
        /\ NoGap'
    BY <1>1, <2>1, <2>2, <2>3, Recorded
  <2>5. hsLen \in [0..6 -> Nat] /\ Cur \in 0..6 /\ hsLen[Cur] = 0 /\ hsLen[6] = 0
    BY <1>1, <2>2, CurEntry DEF TypeOK, Learned
  <2>6. Cur \in 0..5
    BY <2>1, <2>5 DEF LengthSuffices
  <2>7. /\ Cur < Len(script) /\ cut = script[Cur + 1].at
        /\ SeenLen = script[Cur + 1].len
    BY <1>1, <2>1, <2>2, EntryRecord
  <2>8. hsLen' \in [0..6 -> Nat] /\ hsLen'[6] = 0 /\ hsLen'[Cur + 1] = 0
    <3>1. hsLen[Cur + 1] = 0
      BY <2>2, <2>5, <2>6 DEF Learned, NoGap
    <3> QED
      BY <1>1, <2>1, <2>5, <2>6, <3>1
  <2>9. Cur' = Cur + 1
    <3>1. \A j \in 0..((Cur + 1) - 1) : hsLen'[j] # 0
      BY <1>1, <2>1, <2>5, <2>6, CurFacts
    <3>2. Cur + 1 \in 0..6
      BY <2>6
    <3>3. Cur + 1 = CHOOSE i \in 0..6 :
                        hsLen'[i] = 0 /\ \A j \in 0..(i - 1) : hsLen'[j] # 0
      BY <2>8, <3>1, <3>2, FirstZero
    <3>4. \E i \in 0..6 : hsLen'[i] = 0
      BY <2>8
    <3> QED
      BY <3>3, <3>4 DEF Cur
  <2>10. AtEntry'
    <3>1. Len(script) \in Nat /\ script \in Scripts
      BY <1>1, ScriptsAssumption DEF TypeOK
    <3>2. CASE Cur + 1 < Len(script)
      <4>1. Cur + 2 \in 2..Len(script) /\ (Cur + 2) - 1 = Cur + 1
        BY <2>6, <3>1, <3>2
      <4>2. script[Cur + 2].at = script[(Cur + 2) - 1].at + script[(Cur + 2) - 1].len
        BY <3>1, <4>1, ScriptsAssumption
      <4>3. cut' = script[Cur + 2].at /\ (Cur + 1) + 1 = Cur + 2
        BY <2>1, <2>6, <2>7, <4>1, <4>2
      <4> QED
        BY <2>1, <2>9, <3>2, <4>3 DEF AtEntry
    <3>3. CASE ~(Cur + 1 < Len(script))
      <4>1. Len(script) = Cur + 1
        BY <2>6, <2>7, <3>1, <3>3
      <4>2. cut' = StreamEnd
        BY <2>1, <2>7, <4>1 DEF StreamEnd
      <4>3. StreamEnd' = StreamEnd
        BY <2>1 DEF StreamEnd
      <4> QED
        BY <2>1, <2>6, <2>9, <4>1, <4>2, <4>3 DEF AtEntry
    <3> QED
      BY <3>2, <3>3
  <2> QED
    BY <2>1, <2>4, <2>8, <2>10 DEF Learned
<1>6. CASE HandshakeSent
  <2>1. pcS' = "finished" /\ flight' # <<>>
    BY <1>1, <1>6, FlightNotEmpty DEF HandshakeSent
  <2> QED
    BY <2>1 DEF Learned, Looking
<1>7. CASE HandshakeFails
  <2>1. pcS' = "after" /\ hsLen' = UsedLens /\ UNCHANGED <<script, flight>>
    BY <1>7 DEF HandshakeFails
  <2>2. \A i \in 0..6 : hsLen'[i] # 0 => hsLen'[i] = hsLen[i]
    BY <2>1 DEF UsedLens
  <2>3. ASSUME flight' = <<>>, NEW i \in 0..6, hsLen'[i] # 0
        PROVE  Known(i)'
    <3>1. hsLen'[i] = hsLen[i] /\ Known(i)
      BY <2>1, <2>2, <2>3 DEF Learned
    <3> QED
      BY <2>1, <3>1 DEF Known, Fits
  <2> QED
    BY <2>1, <2>3 DEF Learned, Looking
<1>8. CASE \/ DialFails \/ DialSucceeds \/ Return \/ LockC \/ MirrorRead
            \/ MirrorReadReturns \/ MirrorWrite \/ HelloError \/ JudgeHello
            \/ CopyC \/ DoneC \/ ReadTarget \/ GiveUpOnData \/ LockS
            \/ HandshakePanics \/ FinishedRead \/ FinishedFails \/ AfterLoop
            \/ WriteSaved \/ CopyS \/ DoneS \/ CopyL \/ DrainTarget
            \/ ProbeTarget \/ ProbeCheck \/ ProbeClose \/ ClientSends
            \/ ClientCloses \/ TargetSends \/ TargetCloses
  <2>1. /\ UNCHANGED <<script, hsLen, recLen, cut, flight>>
        /\ Looking' => Looking
        /\ pcS' = "handshake" => pcS = "handshake"
    BY <1>8
       DEF IInv, Control, Looking, DialFails, DialSucceeds, Return, LockC, MirrorRead,
           MirrorReadReturns, MirrorWrite, HelloError, JudgeHello, CopyC,
           DoneC, ReadTarget, GiveUpOnData, LockS, HandshakePanics,
           FinishedRead, FinishedFails, AfterLoop, WriteSaved, CopyS, DoneS,
           CopyL, DrainTarget, ProbeTarget, ProbeCheck, ProbeClose,
           ClientSends, ClientCloses, TargetSends, TargetCloses,
           AbandonClient, Unanswered, ours
  <2> QED
    BY <2>1, LearnedFrame
<1>9. CASE UNCHANGED vars
    BY <1>9, LearnedFrame DEF Looking
<1> QED
    BY <1>2, <1>3, <1>4, <1>5, <1>6, <1>7, <1>8, <1>9
       DEF Next, StepM, StepC, StepS, StepP, Environment, Terminated

-----------------------------------------------------------------------------
(* What the client receives from us *)

(* The records of a flight that fits are those the target sent. *)
LEMMA FlightImitates ==
    ASSUME IInv, Stages, Learned, pcS = "handshake", Misfits = {}
    PROVE  /\ Len(script) >= Len(PaddedFlight) + 2
           /\ script[1].good /\ script[2].typ = "ccs"
           /\ \A k \in 1..Len(PaddedFlight) :
                 /\ PaddedFlight[k] = script[k + 2].len
                 /\ script[k + 2].typ = "appdata"
<1>1. /\ hsLen \in [0..6 -> Nat] /\ Len(script) \in Nat
      /\ OwnLen \in [2..6 -> Nat \ {0}] /\ OwnCoalesced \in Nat \ {0}
      /\ SessionTickets \in BOOLEAN
    BY ScriptsAssumption, SizesAssumption DEF IInv, TypeOK
<1>2. NoGap /\ \A i \in 0..6 : hsLen[i] # 0 => Known(i)
  <2>1. flight = <<>>
    BY DEF Stages, IInv, Control
  <2> QED
    BY <2>1 DEF Learned
<1>3. \A i \in 2..6 : OwnRecord(i) > 0 => ~(OwnRecord(i) > hsLen[i])
    BY DEF Misfits, OwnRecords
<1>4. hsLen[2] # 0
  <2>1. OwnRecord(2) \in Nat \ {0}
    BY <1>1 DEF OwnRecord
  <2>2. OwnRecord(2) > 0
    BY <2>1
  <2>3. hsLen[2] \in Nat
    BY <1>1
  <2>4. ~(OwnRecord(2) > hsLen[2])
    BY <1>3, <2>2
  <2> QED
    BY <2>1, <2>3, <2>4
<1>5. Known(0) /\ Known(1) /\ Known(2)
  <2>1. hsLen[0] # 0 /\ hsLen[1] # 0
    BY <1>2, <1>4 DEF NoGap
  <2> QED
    BY <1>2, <1>4, <2>1
<1>6. script[1].good /\ script[2].typ = "ccs"
    BY <1>5 DEF Known, Fits
<1>7. ASSUME NEW i \in 2..6, Known(i)
      PROVE  i < Len(script) /\ hsLen[i] = script[i + 1].len /\ script[i + 1].typ = "appdata"
    BY <1>7 DEF Known, Fits
<1>8. CASE Coalesced
  <2>1. hsLen[3] = 0 /\ hsLen[6] = 0
    BY <1>2, <1>8 DEF Coalesced, NoGap
  <2>2. 6 \notin OwnRecords
    <3>1. SessionTickets => OwnRecord(6) \in Nat \ {0}
      BY <1>1 DEF OwnRecord
    <3>2. ~SessionTickets
      <4> SUFFICES ASSUME SessionTickets PROVE FALSE
        OBVIOUS
      <4>1. OwnRecord(6) > 0
        BY <3>1
      <4>2. ~(OwnRecord(6) > hsLen[6])
        BY <1>3, <4>1
      <4> QED
        BY <2>1, <4>1, <4>2
    <3> QED
      BY <2>1, <3>2 DEF OwnRecords, OwnRecord
  <2>3. PaddedFlight = <<hsLen[2]>>
    BY <1>1, <1>8, <2>2 DEF PaddedFlight, Padded
  <2>4. Len(PaddedFlight) = 1 /\ PaddedFlight[1] = hsLen[2]
    BY <2>3
  <2>5. 2 < Len(script) /\ hsLen[2] = script[3].len /\ script[3].typ = "appdata"
    BY <1>5, <1>7
  <2>6. Len(script) >= Len(PaddedFlight) + 2
    BY <1>1, <2>4, <2>5
  <2>7. ASSUME NEW k \in 1..Len(PaddedFlight)
        PROVE  PaddedFlight[k] = script[k + 2].len /\ script[k + 2].typ = "appdata"
    <3>1. k = 1 /\ k + 2 = 3
      BY <2>4
    <3> QED
      BY <2>4, <2>5, <3>1
  <2> QED
    BY <1>6, <2>6, <2>7
<1>9. CASE ~Coalesced
  <2>1. hsLen[3] # 0 /\ hsLen[4] # 0 /\ hsLen[5] # 0
    <3>1. /\ OwnRecord(3) \in Nat \ {0} /\ OwnRecord(4) \in Nat \ {0}
          /\ OwnRecord(5) \in Nat \ {0}
      BY <1>1, <1>9 DEF OwnRecord
    <3>2. hsLen[3] \in Nat /\ hsLen[4] \in Nat /\ hsLen[5] \in Nat
      BY <1>1
    <3>3. /\ OwnRecord(3) > 0 /\ OwnRecord(4) > 0 /\ OwnRecord(5) > 0
      BY <3>1
    <3>4. /\ ~(OwnRecord(3) > hsLen[3]) /\ ~(OwnRecord(4) > hsLen[4])
          /\ ~(OwnRecord(5) > hsLen[5])
      BY <1>3, <3>3
    <3> QED
      BY <3>1, <3>2, <3>4
  <2>2. \A i \in 2..5 : hsLen[i] = script[i + 1].len /\ script[i + 1].typ = "appdata"
    BY <1>2, <1>4, <1>7, <2>1
  <2>3. 5 < Len(script)
    BY <1>2, <1>7, <2>1
  <2> DEFINE s == [i \in 1..4 |-> hsLen[i + 1]]
  <2>4. s \in Seq(Nat) /\ Len(s) = 4 /\ \A k \in 1..4 : s[k] = hsLen[k + 1]
    BY <1>1
  <2> HIDE DEF s
  <2>5. CASE 6 \in OwnRecords
    <3>1. hsLen[6] # 0
      BY <1>1, <1>3, <2>5 DEF OwnRecords, OwnRecord
    <3>2. PaddedFlight = s \o <<hsLen[6]>>
      BY <1>9, <2>5 DEF PaddedFlight, Padded, s
    <3>3. /\ Len(PaddedFlight) = 5 /\ PaddedFlight[5] = hsLen[6]
          /\ \A k \in 1..4 : PaddedFlight[k] = s[k]
      <4> DEFINE t == <<hsLen[6]>>
      <4>1. t \in Seq(Nat) /\ Len(t) = 1 /\ t[1] = hsLen[6]
        BY <1>1
      <4>2. PaddedFlight = s \o t
        BY <3>2
      <4> HIDE DEF t
      <4>3. /\ Len(s \o t) = Len(s) + Len(t)
            /\ \A i \in 1..(Len(s) + Len(t)) :
                  (s \o t)[i] = IF i <= Len(s) THEN s[i] ELSE t[i - Len(s)]
        BY <2>4, <4>1, ConcatProperties
      <4>4. Len(PaddedFlight) = 5 /\ 5 \in 1..(Len(s) + Len(t))
        BY <2>4, <4>1, <4>2, <4>3
      <4>5. PaddedFlight[5] = t[1]
        BY <2>4, <4>2, <4>3, <4>4
      <4>6. ASSUME NEW k \in 1..4
            PROVE  PaddedFlight[k] = s[k]
        <5>1. Len(s) = 4 /\ Len(t) = 1
          BY <2>4, <4>1
        <5>2. k \in 1..(Len(s) + Len(t)) /\ k <= Len(s)
          BY <5>1
        <5>3. (s \o t)[k] = s[k]
          BY <4>3, <5>2
        <5> QED
          BY <4>2, <5>3
      <4> QED
        BY <4>1, <4>4, <4>5, <4>6
    <3>4. 6 < Len(script) /\ hsLen[6] = script[7].len /\ script[7].typ = "appdata"
      BY <1>2, <1>7, <3>1
    <3>5. Len(script) >= Len(PaddedFlight) + 2
      BY <1>1, <3>3, <3>4
    <3>6. ASSUME NEW k \in 1..Len(PaddedFlight)
          PROVE  PaddedFlight[k] = script[k + 2].len /\ script[k + 2].typ = "appdata"
      <4>1. CASE k = 5
        BY <3>3, <3>4, <4>1
      <4>2. CASE k # 5
        <5>1. k \in 1..4 /\ k + 1 \in 2..5 /\ (k + 1) + 1 = k + 2
          BY <3>3, <4>2
        <5> QED
          BY <2>2, <2>4, <3>3, <5>1
      <4> QED
        BY <4>1, <4>2
    <3> QED
      BY <1>6, <3>5, <3>6
  <2>6. CASE 6 \notin OwnRecords
    <3>1. PaddedFlight = s
      BY <1>9, <2>4, <2>6, ConcatEmptySeq DEF PaddedFlight, Padded, s
    <3>0. Len(PaddedFlight) = 4
      BY <2>4, <3>1, Zenon
    <3>2. Len(script) >= Len(PaddedFlight) + 2
      BY <1>1, <2>3, <3>0
    <3>3. ASSUME NEW k \in 1..Len(PaddedFlight)
          PROVE  PaddedFlight[k] = script[k + 2].len /\ script[k + 2].typ = "appdata"
      <4>1. k \in 1..4 /\ k + 1 \in 2..5 /\ (k + 1) + 1 = k + 2
        BY <3>0
      <4> QED
        BY <2>2, <2>4, <3>1, <4>1
    <3> QED
      BY <1>6, <3>2, <3>3
  <2> QED
    BY <2>5, <2>6
<1> QED
    BY <1>8, <1>9

(* Every step keeps the imitation. *)
LEMMA ImitationStep ==
    ASSUME IInv, Stages, Learned, Imitation, [Next]_vars
    PROVE  Imitation'
<1>1. script' = script
    BY PeersFixed
<1>2. CASE HandshakeSent
  <2>1. pcS = "handshake" /\ Misfits = {} /\ flight' = PaddedFlight
    BY <1>2 DEF HandshakeSent, At
  <2>2. /\ Len(script) >= Len(PaddedFlight) + 2
        /\ script[1].good /\ script[2].typ = "ccs"
        /\ \A k \in 1..Len(PaddedFlight) :
              /\ PaddedFlight[k] = script[k + 2].len
              /\ script[k + 2].typ = "appdata"
    BY <2>1, FlightImitates
  <2> HIDE DEF PaddedFlight
  <2> QED
    BY <1>1, <2>1, <2>2 DEF Imitation
<1>3. CASE UNCHANGED flight
    BY <1>1, <1>3 DEF Imitation
<1>4. ~HandshakeSent => UNCHANGED flight
  <2> USE DEF written, vars
  <2>1. CASE \/ DialFails \/ DialSucceeds \/ Return \/ LockC \/ MirrorRead
            \/ MirrorReadReturns \/ MirrorWrite \/ HelloError \/ JudgeHello
            \/ CopyC \/ DoneC \/ ReadTarget \/ GiveUpOnData \/ LockS
            \/ ParseReject \/ ParseLast \/ ParseWait \/ ParseTake
            \/ HandshakePanics \/ HandshakeFails \/ FinishedRead
            \/ FinishedFails \/ AfterLoop \/ WriteSaved \/ CopyS \/ DoneS
            \/ CopyL \/ DrainTarget \/ ProbeTarget \/ ProbeCheck
            \/ ProbeClose \/ ClientSends \/ ClientCloses \/ TargetSends
            \/ TargetCloses
    BY <2>1
       DEF DialFails, DialSucceeds, Return, LockC, MirrorRead,
           MirrorReadReturns, MirrorWrite, HelloError, JudgeHello, CopyC,
           DoneC, ReadTarget, GiveUpOnData, LockS, ParseReject, ParseLast,
           ParseWait, ParseTake, HandshakePanics, HandshakeFails,
           FinishedRead, FinishedFails, AfterLoop, WriteSaved, CopyS, DoneS,
           CopyL, DrainTarget, ProbeTarget, ProbeCheck, ProbeClose,
           ClientSends, ClientCloses, TargetSends, TargetCloses,
           AbandonClient, ours
  <2> QED
    BY <2>1 DEF Next, StepM, StepC, StepS, StepP, Environment, Terminated
<1> QED
    BY <1>2, <1>3, <1>4

-----------------------------------------------------------------------------
(* The invariant *)

(* The streams, the stages and what S knows, on top of the types, the      *)
(* control invariant and the alignment.                                    *)
Faithful ==
    /\ IInv /\ Alignment
    /\ Stages /\ Up /\ Down /\ Learned /\ Imitation

(* A connection that has just been accepted is in the first stage. *)
LEMMA InitFaithful ==
    ASSUME Init
    PROVE  Faithful
<1>1. IInv /\ Alignment
    BY InitIInv, InitAlignment
<1>2. TypeOK
    BY <1>1 DEF IInv
<1>3. Window(0, 0) = <<>>
    BY EmptyWindow
<1>4. Stages
    BY DEF Init, Stages, Copying
<1>5. Up
  <2>1. /\ toTarget = <<>> /\ cBuf = <<>> /\ lBuf = <<>> /\ cPos = 0 /\ pcP = "off"
        /\ Len(toTarget) = 0 /\ cBuf \o lBuf = <<>>
    BY DEF Init
  <2> QED
    BY <1>3, <2>1 DEF Up
<1>6. Down
  <2>1. toClient = <<>> /\ sBuf = <<>> /\ Len(toClient) = 0 /\ pcS = "off"
    BY DEF Init
  <2> QED
    BY <1>3, <2>1 DEF Down
<1>7. Learned
  <2>1. /\ hsLen \in [0..6 -> Nat] /\ \A i \in 0..6 : hsLen[i] = 0
        /\ cut = 0 /\ recLen = 0
    BY DEF Init
  <2>2. Cur = 0
    <3>1. 0 = CHOOSE i \in 0..6 : hsLen[i] = 0 /\ \A j \in 0..(i - 1) : hsLen[j] # 0
      BY <2>1, FirstZero
    <3> QED
      BY <2>1, <3>1 DEF Cur
  <2>3. Len(script) \in Nat /\ 0 < Len(script) /\ script[1].at = 0
    <3>1. script \in Seq(Record) /\ script # <<>> /\ script[1].at = 0
      BY <1>2, ScriptsAssumption DEF TypeOK
    <3> QED
      BY <3>1
  <2>4. AtEntry
    BY <2>1, <2>2, <2>3 DEF AtEntry
  <2> QED
    BY <2>1, <2>4 DEF Learned, NoGap
<1>8. Imitation
    BY DEF Init, Imitation
<1> QED
    BY <1>1, <1>4, <1>5, <1>6, <1>7, <1>8 DEF Faithful

(* Every step keeps Faithful. *)
LEMMA FaithfulStep ==
    ASSUME Faithful, [Next]_vars
    PROVE  Faithful'
<1>1. IInv /\ Alignment /\ Stages /\ Up /\ Down /\ Learned /\ Imitation
    BY DEF Faithful
<1>2. IInv'
  <2>1. Control'
    BY <1>1, ControlStep
  <2>2. TypeOK'
    BY <1>1, <2>1, TypeStep
  <2> QED
    BY <2>1, <2>2 DEF IInv
<1>3. Alignment'
    BY <1>1, AlignmentStep
<1>4. Stages'
    BY <1>1, StagesStep
<1>5. Up' /\ Down'
    BY <1>1, UpStep, DownStep
<1>6. Learned'
    BY <1>1, LearnedStep
<1>7. Imitation'
    BY <1>1, ImitationStep
<1> QED
    BY <1>2, <1>3, <1>4, <1>5, <1>6, <1>7 DEF Faithful

(* Faithful holds of every behaviour of Server. *)
LEMMA FaithfulInvariant == Spec => []Faithful
<1>1. Init => Faithful
    BY InitFaithful
<1>2. Faithful /\ [Next]_vars => Faithful'
    BY FaithfulStep
<1> QED
    BY <1>1, <1>2, PTL DEF Spec

(* Whatever the target's records and however they arrive, the encrypted    *)
(* records of our handshake (hs.handshake with the lengths of              *)
(* out.handshakeLen) have the lengths of the target's records in the same  *)
(* place.                                                                  *)
THEOREM Imitates == Spec => []Imitation
<1>1. Faithful => Imitation
    BY DEF Faithful
<1> QED
    BY <1>1, FaithfulInvariant, PTL

-----------------------------------------------------------------------------
(* The refinement *)

(* A delivered stretch is the beginning of a stream of RealityPromise. *)
LEMMA FirstOfStream ==
    ASSUME NEW n \in Nat
    PROVE  Window(0, n) = Promise!FirstUnits(n)
    BY DEF Window, Promise!FirstUnits

(* The mode depends on what the client has been sent. *)
LEMMA ModeFixed ==
    ASSUME UNCHANGED <<complete, flight, toClient>>
    PROVE  Mode' = Mode
    BY DEF Mode

(* Before our flight the client is relayed or not yet answered. *)
LEMMA ModeBefore ==
    ASSUME ~complete, flight = <<>>
    PROVE  /\ Mode \in {"open", "relay"}
           /\ toClient = <<>> => Mode = "open"
           /\ toClient # <<>> => Mode = "relay"
    BY DEF Mode

(* Nothing of Promise changes. *)
LEMMA Stutters ==
    ASSUME UNCHANGED <<hello, complete, flight, toClient, toTarget, result>>
    PROVE  UNCHANGED Promise!vars
<1>1. Mode' = Mode /\ Genuine' = Genuine
    BY ModeFixed, GenuineFixed
<1> QED
    BY <1>1, Zenon DEF Promise!vars

(* A write to the target forwards more of the client's stream. *)
LEMMA ForwardsUp ==
    ASSUME TypeOK, Up, Up', result = "none", ~complete, flight = <<>>,
           \/ toTarget' = toTarget
           \/ toTarget' = toTarget \o cBuf
           \/ toTarget' = toTarget \o lBuf,
           UNCHANGED <<hello, complete, flight, toClient, result>>
    PROVE  Promise!ForwardUp \/ UNCHANGED Promise!vars
<1>1. toTarget \in Seq(Nat) /\ cBuf \in Seq(Nat) /\ lBuf \in Seq(Nat)
    BY DEF TypeOK
<1>2. /\ toTarget' \in Seq(Nat) /\ Len(toTarget) \in Nat /\ Len(toTarget)' \in Nat
      /\ Len(toTarget)' >= Len(toTarget)
  <2>1. ASSUME NEW b \in Seq(Nat)
        PROVE  toTarget \o b \in Seq(Nat) /\ Len(toTarget \o b) \in Nat /\ Len(toTarget \o b) >= Len(toTarget)
    <3>1. toTarget \o b \in Seq(Nat) /\ Len(toTarget \o b) = Len(toTarget) + Len(b)
      BY <1>1, ConcatProperties
    <3>2. Len(toTarget) \in Nat /\ Len(b) \in Nat
      BY <1>1
    <3> QED
      BY <3>1, <3>2
  <2>2. Len(toTarget) \in Nat /\ Len(toTarget) >= Len(toTarget)
    BY <1>1
  <2>3. CASE toTarget' = toTarget
    BY <1>1, <2>2, <2>3
  <2>4. CASE toTarget' = toTarget \o cBuf
    BY <1>1, <2>1, <2>2, <2>4
  <2>5. CASE toTarget' = toTarget \o lBuf
    BY <1>1, <2>1, <2>2, <2>5
  <2> QED
    BY <2>3, <2>4, <2>5
<1>3. toTarget = Window(0, Len(toTarget)) /\ toTarget' = Window(0, Len(toTarget'))
    BY DEF Up
<1>4. CASE Len(toTarget') = Len(toTarget)
  <2>1. toTarget' = toTarget
    BY <1>3, <1>4
  <2> QED
    BY <2>1, Stutters
<1>5. CASE Len(toTarget') # Len(toTarget)
  <2>1. Len(toTarget') > Len(toTarget)
    BY <1>2, <1>5
  <2>2. toTarget' = Promise!FirstUnits(Len(toTarget'))
    BY <1>2, <1>3, FirstOfStream
  <2>3. Mode \in {"open", "relay"} /\ Mode' = Mode /\ Genuine' = Genuine
    BY ModeBefore, ModeFixed, GenuineFixed
  <2> QED
    BY <2>1, <2>2, <2>3 DEF Promise!ForwardUp
<1> QED
    BY <1>4, <1>5

(* A write to the client forwards more of the target's stream. *)
LEMMA ForwardsDown ==
    ASSUME TypeOK, Down, Down', result = "none", ~complete, flight = <<>>,
           \/ toClient' = toClient
           \/ toClient' = toClient \o sBuf
           \/ toClient' = toClient \o SavedUnits,
           UNCHANGED <<hello, complete, flight, toTarget, result>>
    PROVE  Promise!ForwardDown \/ UNCHANGED Promise!vars
<1>1. toClient \in Seq(Nat) /\ sBuf \in Seq(Nat) /\ SavedUnits \in Seq(Nat)
    BY ReadTypes DEF TypeOK
<1>2. /\ toClient' \in Seq(Nat) /\ Len(toClient) \in Nat /\ Len(toClient)' \in Nat
      /\ Len(toClient)' >= Len(toClient)
  <2>1. ASSUME NEW b \in Seq(Nat)
        PROVE  toClient \o b \in Seq(Nat) /\ Len(toClient \o b) \in Nat /\ Len(toClient \o b) >= Len(toClient)
    <3>1. toClient \o b \in Seq(Nat) /\ Len(toClient \o b) = Len(toClient) + Len(b)
      BY <1>1, ConcatProperties
    <3>2. Len(toClient) \in Nat /\ Len(b) \in Nat
      BY <1>1
    <3> QED
      BY <3>1, <3>2
  <2>2. Len(toClient) \in Nat /\ Len(toClient) >= Len(toClient)
    BY <1>1
  <2>3. CASE toClient' = toClient
    BY <1>1, <2>2, <2>3
  <2>4. CASE toClient' = toClient \o sBuf
    BY <1>1, <2>1, <2>2, <2>4
  <2>5. CASE toClient' = toClient \o SavedUnits
    BY <1>1, <2>1, <2>2, <2>5
  <2> QED
    BY <2>3, <2>4, <2>5
<1>3. toClient = Window(0, Len(toClient)) /\ toClient' = Window(0, Len(toClient'))
    BY DEF Down
<1>4. CASE Len(toClient') = Len(toClient)
  <2>1. toClient' = toClient
    BY <1>3, <1>4
  <2> QED
    BY <2>1, Stutters
<1>5. CASE Len(toClient') # Len(toClient)
  <2>1. Len(toClient') > Len(toClient)
    BY <1>2, <1>5
  <2>2. toClient' = Promise!FirstUnits(Len(toClient'))
    BY <1>2, <1>3, FirstOfStream
  <2>3. toClient' # <<>>
    BY <1>2, <2>1
  <2>4. Mode \in {"open", "relay"} /\ Mode' = "relay"
    BY <2>3, ModeBefore DEF Mode
  <2>5. Genuine' = Genuine
    BY GenuineFixed
  <2> QED
    BY <2>1, <2>2, <2>4, <2>5 DEF Promise!ForwardDown
<1> QED
    BY <1>4, <1>5

(* The caller's connection begins as the promise does. *)
LEMMA InitPromise ==
    ASSUME Init
    PROVE  Promise!Init
<1>1. Genuine \in BOOLEAN
    BY Zenon DEF Genuine
<1>2. Mode = "open"
    BY DEF Init, Mode
<1> QED
    BY <1>1, <1>2 DEF Init, Promise!Init

(* Every step of Server is a step of the promise, or none. *)
LEMMA PromiseStep ==
    ASSUME Faithful, Faithful', [Next]_vars
    PROVE  [Promise!Next]_(Promise!vars)
<1>1. /\ IInv /\ TypeOK /\ Control /\ Stages /\ Up /\ Down
      /\ Up' /\ Down'
    BY DEF Faithful, IInv
<1>2. UNCHANGED hello
    BY PeersFixed
<1>3. pcM # "returned" => result = "none"
    BY <1>1 DEF Stages
<1> USE DEF At, env, peers, written, flags, closed, parsing, varsM, varsC, varsS, varsL,
        varsP, vars
<1>4. CASE MirrorWrite \/ CopyC \/ CopyL
  <2>1. /\ UNCHANGED <<complete, flight, toClient, result>>
        /\ pcC \in {"relock", "copyRead", "copyWrite"} \/ pcL \in {"copyRead", "copyWrite"}
        /\ \/ toTarget' = toTarget
           \/ toTarget' = toTarget \o cBuf
           \/ toTarget' = toTarget \o lBuf
    BY <1>4 DEF MirrorWrite, CopyC, CopyL
  <2>2. pcP = "off" /\ pcM # "returned"
    BY <1>1, <2>1 DEF Control, Stages, LiveC, LiveL
  <2>3. ~complete /\ flight = <<>> /\ result = "none"
    BY <1>1, <1>3, <2>2 DEF Stages
  <2>4. Promise!ForwardUp \/ UNCHANGED Promise!vars
    BY <1>1, <1>2, <2>1, <2>3, ForwardsUp
  <2> QED
    BY <2>4 DEF Promise!Next
<1>5. CASE WriteSaved \/ CopyS
  <2>1. /\ UNCHANGED <<complete, flight, toTarget, result>>
        /\ pcS \in {"saved", "copyRead", "copyWrite"}
        /\ \/ toClient' = toClient
           \/ toClient' = toClient \o sBuf
           \/ toClient' = toClient \o SavedUnits
    BY <1>5 DEF WriteSaved, CopyS
  <2>2. pcP = "off" /\ pcM # "returned"
    BY <1>1, <2>1 DEF Control, LiveS
  <2>3. ~complete /\ flight = <<>> /\ result = "none"
    BY <1>1, <1>3, <2>2 DEF Stages
  <2>4. Promise!ForwardDown \/ UNCHANGED Promise!vars
    BY <1>1, <1>2, <2>1, <2>3, ForwardsDown
  <2> QED
    BY <2>4 DEF Promise!Next
<1>6. CASE HandshakeSent
  <2>1. /\ pcS = "handshake" /\ flight' # <<>>
        /\ UNCHANGED <<complete, toTarget, toClient, result>>
    BY <1>1, <1>6, FlightNotEmpty DEF HandshakeSent
  <2>2. pcM # "returned" /\ pcP = "off" /\ authed
    BY <1>1, <2>1 DEF Control, LiveS
  <2>3. ~complete /\ flight = <<>> /\ toClient = <<>> /\ result = "none" /\ Genuine
    BY <1>1, <1>3, <2>1, <2>2 DEF Stages
  <2>4. Mode = "open" /\ Mode' = "own"
    BY <2>1, <2>3 DEF Mode
  <2>5. Genuine' = Genuine
    BY <1>2, GenuineFixed
  <2>6. Promise!Answer
    BY <2>1, <2>3, <2>4, <2>5 DEF Promise!Answer
  <2> QED
    BY <2>6 DEF Promise!Next
<1>7. CASE FinishedRead
  <2>1. /\ pcS = "finished" /\ complete' = TRUE
        /\ UNCHANGED <<flight, toTarget, toClient, result>>
    BY <1>7 DEF FinishedRead, Confirm
  <2>2. ~complete /\ flight # <<>> /\ pcM # "returned"
    BY <1>1, <2>1 DEF Stages, Control, LiveS
  <2>3. Mode = "own" /\ Mode' = "confirmed"
    BY <2>1, <2>2 DEF Mode
  <2>4. Genuine' = Genuine
    BY <1>2, GenuineFixed
  <2>5. Promise!Confirm
    BY <1>3, <2>1, <2>2, <2>3, <2>4 DEF Promise!Confirm
  <2> QED
    BY <2>5 DEF Promise!Next
<1>8. CASE Return \/ DialFails
  <2>1. /\ pcM # "returned"
        /\ result' = IF complete THEN "conn" ELSE "err"
        /\ UNCHANGED <<complete, flight, toTarget, toClient>>
    <3>1. CASE Return
      BY <3>1 DEF Return
    <3>2. CASE DialFails
      <4>1. ~complete
        BY <1>1, <3>2 DEF DialFails, Control, Stages
      <4> QED
        BY <3>2, <4>1 DEF DialFails
    <3> QED
      BY <1>8, <3>1, <3>2
  <2>2. Mode' = Mode /\ Genuine' = Genuine /\ (Mode = "confirmed" <=> complete)
    BY <1>2, <2>1, ModeFixed, GenuineFixed DEF Mode
  <2>3. Promise!Finish
    BY <1>3, <2>1, <2>2 DEF Promise!Finish
  <2> QED
    BY <2>3 DEF Promise!Next
<1>9. CASE \/ DialSucceeds \/ LockC \/ MirrorRead \/ MirrorReadReturns
            \/ HelloError \/ JudgeHello \/ DoneC \/ ReadTarget
            \/ GiveUpOnData \/ LockS \/ ParseReject \/ ParseLast \/ ParseWait
            \/ ParseTake \/ HandshakePanics \/ HandshakeFails
            \/ FinishedFails \/ AfterLoop \/ DoneS \/ DrainTarget
            \/ ProbeTarget \/ ProbeCheck \/ ProbeClose \/ ClientSends
            \/ ClientCloses \/ TargetSends \/ TargetCloses
  <2>1. UNCHANGED <<complete, flight, toClient, toTarget, result>>
    BY <1>9
       DEF DialSucceeds, LockC, MirrorRead, MirrorReadReturns, HelloError,
           JudgeHello, DoneC, ReadTarget, GiveUpOnData, LockS, ParseReject,
           ParseLast, ParseWait, ParseTake, HandshakePanics, HandshakeFails,
           FinishedFails, AfterLoop, DoneS, DrainTarget, ProbeTarget,
           ProbeCheck, ProbeClose, ClientSends, ClientCloses, TargetSends,
           TargetCloses, AbandonClient, ours
  <2> QED
    BY <1>2, <2>1, Stutters
<1>10. CASE UNCHANGED vars
    BY <1>10, Stutters
<1> QED
    BY <1>4, <1>5, <1>6, <1>7, <1>8, <1>9, <1>10
       DEF Next, StepM, StepC, StepS, StepP, Environment, Terminated

(* Server, with its goroutines, mutex and buffers, implements              *)
(* RealityPromise for every ClientHello, every sequence of records of the  *)
(* target and every configuration: a client sees the target or us and      *)
(* never a mixture, both streams are forwarded in order and without a gap, *)
(* only a genuine client is answered, and nothing is written after the     *)
(* return.                                                                 *)
THEOREM Refines == Spec => KeepsPromise
<1>1. Init => Promise!Init
    BY InitPromise
<1>2. Faithful /\ Faithful' /\ [Next]_vars => [Promise!Next]_(Promise!vars)
    BY PromiseStep
<1> QED
    BY <1>1, <1>2, FaithfulInvariant, PTL DEF Spec, KeepsPromise, Promise!Spec
====
