--------------------------- MODULE RealityServer ---------------------------
(***************************************************************************)
(* The function Server of tls.go: one client connection, the connection    *)
(* dialled to the target site, and the goroutines that share them.         *)
(*                                                                         *)
(*   M  the caller's goroutine: dials, waits for the others, returns;      *)
(*   C  reads the ClientHello through MirrorConn, then either hands the    *)
(*      connection to S (authenticated) or copies client to target;        *)
(*   S  reads the target, learns the lengths of its handshake records,     *)
(*      runs the TLS handshake or copies target to client;                 *)
(*   L  copies client to target when S gave up on the target's hello;      *)
(*   P  reads on from the target after our own handshake was sent.         *)
(*                                                                         *)
(* A byte stream is a sequence of units, and a unit is named by its        *)
(* position in the stream, so a slice of a stream is an interval.  A read  *)
(* returns everything that has arrived: how much that is depends on the    *)
(* peer's Send steps, which may cut the stream anywhere.                   *)
(***************************************************************************)
EXTENDS Integers, Sequences

CONSTANTS
    Hellos,           \* the ClientHellos a client may send
    Scripts,          \* the record sequences the target may answer with
    HelloUnits,       \* units a ClientHello takes on the wire
    MaxExtra,         \* bound: units a client sends after its ClientHello
    MaxRelayed,       \* bound: units a target sends to a client not yet authenticated
    RecordHeaderLen,  \* recordHeaderLen
    Size,             \* size, the longest record of the target we imitate
    CoalescedMin,     \* 512: a longer third record carries the whole flight
    OwnLen,           \* length of our own record i, before padding (i in 2..6)
    OwnCoalesced,     \* length of our whole encrypted flight in one record
    SessionTickets,   \* whether our handshake sends a session ticket
    Nil,              \* an absent configuration value
    ServerNames, ShortIds, MinClientVer, MaxClientVer, MaxTimeDiff, \* config
    Now               \* the time at which a ClientHello is checked

ASSUME SizesAssumption ==
    /\ HelloUnits \in Nat \ {0}
    /\ MaxExtra \in Nat
    /\ MaxRelayed \in Nat
    /\ RecordHeaderLen \in Nat \ {0}
    /\ Size \in Nat
    /\ CoalescedMin \in Nat
    /\ OwnLen \in [2..6 -> Nat \ {0}]
    /\ OwnCoalesced \in Nat \ {0}
    /\ SessionTickets \in BOOLEAN

(* A record of the target's stream, as S looks at it: its type, the two     *)
(* version bytes, its first body byte, its length with the header, whether *)
(* a ServerHello is usable (good) and which key share it chose.            *)
Record == [typ : STRING, ver12 : BOOLEAN, body : STRING, len : Nat,
           good : BOOLEAN, group : STRING, at : Nat]

(* A record has a body, and starts (at) where the one before it ends, so   *)
(* that no two overlap.                                                    *)
ASSUME ScriptsAssumption ==
    \A s \in Scripts :
        /\ s \in Seq(Record) /\ s # <<>> /\ s[1].at = 0
        /\ \A k \in 1..Len(s) : s[k].len > RecordHeaderLen
        /\ \A k \in 2..Len(s) : s[k].at = s[k - 1].at + s[k - 1].len
        /\ \A j, k \in 1..Len(s) : j < k => s[j].at + s[j].len <= s[k].at

(* ClientVer is [3]byte, and a version of the configuration is x.y.z. *)
Version == [1..3 -> 0..255]

ASSUME ConfigAssumption ==
    /\ \A h \in Hellos : h.ver \in Version /\ h.time \in Int
    /\ MinClientVer = Nil \/ MinClientVer \in Version
    /\ MaxClientVer = Nil \/ MaxClientVer \in Version
    /\ MaxTimeDiff \in Int /\ Now \in Int

VARIABLES
    hello,      \* the ClientHello of this connection
    script,     \* the records of the target's stream
    cOut,       \* kinds of the units the client has sent
    cSide,      \* the client's end: "open", "shut" (no more to send) or "reset"
    cPos,       \* how many of them have been read from the connection
    toTarget,   \* client units written to the target, in order
    tSent,      \* units the target has sent
    tSide,      \* the target's end, likewise
    tPos,       \* how many of them have been read from the target
    toClient,   \* target units written to the client, in order
    flight,     \* lengths of our own encrypted records sent to the client
    connClosed, \* conn.Close was called
    writeShut,  \* underlying.CloseWrite was called
    targetClosed,
    mutex,      \* the goroutine that holds mutex, or "free"
    authed,     \* hs.c.conn == conn
    copying, stole,
    hsLen,      \* hs.c.out.handshakeLen
    recLen,     \* S's local handshakeLen
    cut,        \* s2cSaved holds the target's units cut+1 .. tPos
    complete,   \* hs.c.isHandshakeComplete
    wg,         \* the counter of waitGroup
    pcM, pcC, pcS, pcL, pcP,
    cBuf, lBuf, sBuf,   \* units read by an io.Copy or a mirrored read, unwritten
    readErr,    \* the mirrored read failed
    probeErr,   \* P's last read failed
    result,     \* what Server returned: "none", "conn" or "err"
    crashed     \* a goroutine panicked and took the process with it

peers == <<hello, cOut, cSide, script, tSent, tSide>>
env == <<peers, crashed>>
written == <<toTarget, toClient, flight, writeShut>>
flags == <<authed, copying, stole, complete>>
closed == <<connClosed, targetClosed>>
parsing == <<hsLen, recLen, cut>>
varsM == <<pcM, result>>
varsC == <<pcC, cBuf, readErr>>
varsS == <<pcS, sBuf, parsing>>
varsL == <<pcL, lBuf>>
varsP == <<pcP, probeErr>>
vars == <<peers, cPos, tPos, written, flags, closed, mutex, wg,
          varsM, varsC, varsS, varsL, varsP, crashed>>

(* A goroutine is at a label, and the process is alive. *)
At(pc, label) == ~crashed /\ pc = label

Window(a, b) == [i \in 1..(b - a) |-> a + i]

-----------------------------------------------------------------------------
(* The ClientHello and its authentication *)

(* Value: big-endian bytes as a number. *)
Value(vals) ==
    LET v[i \in 0..Len(vals)] == IF i = 0 THEN 0 ELSE 256 * v[i - 1] + vals[i]
    IN  v[Len(vals)]

Abs(x) == IF x < 0 THEN -x ELSE x

(* What an opened session id must satisfy for hs.c.conn to become conn. *)
Admitted(h) ==
    /\ MinClientVer = Nil \/ Value(h.ver) >= Value(MinClientVer)
    /\ MaxClientVer = Nil \/ Value(h.ver) <= Value(MaxClientVer)
    /\ MaxTimeDiff = 0 \/ Abs(Now - h.time) <= MaxTimeDiff
    /\ h.shortId \in ShortIds

(* Only the first X25519 share of 32 bytes is tried; h.sealed says that the *)
(* session id opens under the key derived from it.                          *)
Authentic(h) == h.x25519 /\ h.sealed /\ Admitted(h)

-----------------------------------------------------------------------------
(* The target's records as S finds them in s2cSaved *)

Saved == tPos - cut

StreamEnd == script[Len(script)].at + script[Len(script)].len

Garbage == [typ |-> "none", ver12 |-> FALSE, body |-> "none",
            len |-> RecordHeaderLen + 1, good |-> FALSE, group |-> "none", at |-> 0]

(* The record whose header s2cSaved starts with. *)
HeadRecord ==
    IF \E k \in 1..Len(script) : script[k].at = cut
    THEN script[CHOOSE k \in 1..Len(script) : script[k].at = cut]
    ELSE Garbage

(* The entry of types that S is looking for; 7 when all are found. *)
Cur == IF \E i \in 0..6 : hsLen[i] = 0
       THEN CHOOSE i \in 0..6 : hsLen[i] = 0 /\ \A j \in 0..(i - 1) : hsLen[j] # 0
       ELSE 7

HeaderVisible == recLen = 0 /\ Saved > RecordHeaderLen

HeaderOK(i) ==
    /\ HeadRecord.ver12
    /\ i = 0 => HeadRecord.typ = "handshake" /\ HeadRecord.body = "serverHello"
    /\ i = 1 => HeadRecord.typ = "ccs" /\ HeadRecord.body = "one"
    /\ i > 1 => HeadRecord.typ = "appdata"

(* handshakeLen after the header has been looked at. *)
SeenLen == IF HeaderVisible THEN HeadRecord.len ELSE recLen

-----------------------------------------------------------------------------
(* The two connections, as net.Conn presents them *)

ClientReadable == ~connClosed /\ cSide # "reset" /\ cPos < Len(cOut)
ClientReadFails ==
    connClosed \/ cSide = "reset" \/ (cSide = "shut" /\ cPos = Len(cOut))
ClientWritable == ~connClosed /\ cSide # "reset"

TargetReadable == ~targetClosed /\ tSide # "reset" /\ tPos < tSent
TargetReadFails ==
    targetClosed \/ tSide = "reset" \/ (tSide = "shut" /\ tPos = tSent)
TargetWritable == ~targetClosed /\ tSide # "reset"

MinOf(a, b) == IF a < b THEN a ELSE b

-----------------------------------------------------------------------------
(* M: the body of Server *)

DialFails ==
    /\ At(pcM, "dial")
    /\ connClosed' = TRUE
    /\ pcM' = "returned" /\ result' = "err"
    /\ UNCHANGED <<env, cPos, tPos, written, flags, targetClosed, mutex, wg, varsC,
                   varsS, varsL, varsP>>

(* Without the second goroutine. *)
SpawnedM1 == 1

(* waitGroup.Add(2) *)
Spawned == 2

DialSucceeds ==
    /\ At(pcM, "dial")
    /\ pcM' = "wait" /\ wg' = Spawned
    /\ pcC' = "start" /\ pcS' = "read"
    /\ UNCHANGED <<env, cPos, tPos, written, flags, closed, mutex, result, cBuf,
                   readErr, sBuf, parsing, varsL, varsP>>

(* waitGroup.Wait returns: the target is closed, and so is the client's    *)
(* connection unless the handshake is complete.                            *)
Return ==
    /\ At(pcM, "wait") /\ wg = 0
    /\ pcM' = "returned"
    /\ targetClosed' = TRUE
    /\ result' = IF complete THEN "conn" ELSE "err"
    /\ connClosed' = (connClosed \/ ~complete)
    /\ UNCHANGED <<env, cPos, tPos, written, flags, mutex, wg, varsC, varsS, varsL,
                   varsP>>

-----------------------------------------------------------------------------
(* C: the ClientHello through MirrorConn, then client to target *)

LockC ==
    /\ At(pcC, "start") /\ mutex = "free"
    /\ mutex' = "C" /\ pcC' = "held"
    /\ UNCHANGED <<env, cPos, tPos, written, flags, closed, wg, varsM, cBuf,
                   readErr, varsS, varsL, varsP>>

(* readClientHello needs more: MirrorConn.Read gives the mutex up ... *)
MirrorRead ==
    /\ At(pcC, "held") /\ ~readErr /\ cPos < HelloUnits
    /\ mutex' = "free" /\ pcC' = "reading"
    /\ UNCHANGED <<env, cPos, tPos, written, flags, closed, wg, varsM, cBuf,
                   readErr, varsS, varsL, varsP>>

(* ... while it waits for the client ... *)
MirrorReadReturns ==
    /\ At(pcC, "reading")
    /\ \/ /\ ClientReadable
          /\ cBuf' = Window(cPos, Len(cOut)) /\ cPos' = Len(cOut)
          /\ UNCHANGED readErr
       \/ /\ ClientReadFails
          /\ readErr' = TRUE
          /\ UNCHANGED <<cBuf, cPos>>
    /\ pcC' = "relock"
    /\ UNCHANGED <<env, tPos, written, flags, closed, mutex, wg, varsM, varsS,
                   varsL, varsP>>

(* ... and takes it again before what it read is written to the target. *)
MirrorWrite ==
    /\ At(pcC, "relock") /\ mutex = "free"
    /\ mutex' = "C" /\ pcC' = "held"
    /\ toTarget' = IF TargetWritable THEN toTarget \o cBuf ELSE toTarget
    /\ cBuf' = <<>>
    /\ targetClosed' = (targetClosed \/ readErr)
    /\ UNCHANGED <<env, cPos, tPos, toClient, flight, writeShut, flags, connClosed,
                   wg, varsM, readErr, varsS, varsL, varsP>>

(* readClientHello has returned an error and no message: the server name   *)
(* of a nil clientHello is looked up.                                      *)
HelloError ==
    /\ At(pcC, "held")
    /\ readErr \/ (cPos >= HelloUnits /\ ~hello.valid)
    /\ crashed' = TRUE
    /\ UNCHANGED <<peers, cPos, tPos, written, flags, closed, mutex, wg, varsM, varsC,
                   varsS, varsL, varsP>>

(* An authenticated client is copied too. *)
LeavesClientM1(a, st) == st

(* C leaves the client to S, and copies nothing. *)
LeavesClient(a, st) == a \/ st

(* The ClientHello is judged and the mutex released. *)
JudgeHello ==
    /\ At(pcC, "held") /\ ~readErr /\ cPos >= HelloUnits /\ hello.valid
    /\ stole' = (hello.serverName \notin ServerNames)
    /\ authed' = (~stole' /\ ~copying /\ hello.tls13 /\ Authentic(hello))
    /\ pcC' = IF LeavesClient(authed', stole') THEN "finish" ELSE "copyRead"
    /\ mutex' = "free"
    /\ UNCHANGED <<env, cPos, tPos, written, copying, complete, closed, wg, varsM,
                   cBuf, readErr, varsS, varsL, varsP>>

(* io.Copy(target, underlying) of C. *)
CopyC ==
    /\ \/ /\ At(pcC, "copyRead") /\ ClientReadable
          /\ cBuf' = Window(cPos, Len(cOut)) /\ cPos' = Len(cOut)
          /\ pcC' = "copyWrite"
          /\ UNCHANGED toTarget
       \/ /\ At(pcC, "copyRead") /\ ClientReadFails
          /\ pcC' = "finish"
          /\ UNCHANGED <<cBuf, cPos, toTarget>>
       \/ /\ At(pcC, "copyWrite") /\ TargetWritable
          /\ toTarget' = toTarget \o cBuf /\ cBuf' = <<>>
          /\ pcC' = "copyRead"
          /\ UNCHANGED cPos
       \/ /\ At(pcC, "copyWrite") /\ ~TargetWritable
          /\ cBuf' = <<>> /\ pcC' = "finish"
          /\ UNCHANGED <<cPos, toTarget>>
    /\ UNCHANGED <<env, tPos, toClient, flight, writeShut, flags, closed, mutex, wg,
                   varsM, readErr, varsS, varsL, varsP>>

DoneC ==
    /\ At(pcC, "finish")
    /\ pcC' = "done" /\ wg' = wg - 1
    /\ UNCHANGED <<env, cPos, tPos, written, flags, closed, mutex, varsM, cBuf,
                   readErr, varsS, varsL, varsP>>

-----------------------------------------------------------------------------
(* S: the target's stream *)

(* The early return without waitGroup.Done(). *)
AbandonClientM1 == connClosed' = TRUE /\ wg' = wg

(* The target is gone before S has decided: S closes the client and ends. *)
AbandonClient == connClosed' = TRUE /\ wg' = wg - 1

ReadTarget ==
    /\ At(pcS, "read")
    /\ \/ /\ TargetReadable
          /\ tPos' = MinOf(tSent, tPos + Size)
          /\ pcS' = "lock"
          /\ UNCHANGED <<connClosed, wg>>
       \/ /\ TargetReadFails
          /\ AbandonClient
          /\ pcS' = "done"
          /\ UNCHANGED tPos
    /\ UNCHANGED <<env, cPos, written, flags, targetClosed, mutex, varsM, varsC,
                   sBuf, parsing, varsL, varsP>>

(* The target spoke before the client was authenticated, or too much: the  *)
(* mutex is taken and given back at once.                                  *)
GiveUpOnData ==
    /\ At(pcS, "lock") /\ mutex = "free"
    /\ ~authed \/ Saved > Size
    /\ copying' = (copying \/ (~authed /\ ~stole))
    /\ pcS' = "after"
    /\ UNCHANGED <<env, cPos, tPos, written, authed, stole, complete, closed, mutex, wg,
                   varsM, varsC, sBuf, parsing, varsL, varsP>>

LockS ==
    /\ At(pcS, "lock") /\ mutex = "free"
    /\ authed /\ Saved <= Size
    /\ mutex' = "S" /\ pcS' = "parse"
    /\ UNCHANGED <<env, cPos, tPos, written, flags, closed, wg, varsM, varsC, sBuf,
                   parsing, varsL, varsP>>

(* The target sends nothing after its Finished yet. *)
NoTicketYet == Cur = 6 /\ Saved = 0

(* Records of any length are taken. *)
TooLongM1 == FALSE

TooLong == SeenLen > Size

(* The next record is not one that can be imitated. *)
Unfit ==
    \/ HeaderVisible /\ ~HeaderOK(Cur)
    \/ TooLong
    \/ Cur = 1 /\ SeenLen > 0 /\ SeenLen # RecordHeaderLen + 1
    \/ Cur = 0 /\ SeenLen > 0 /\ Saved >= SeenLen /\ ~HeadRecord.good

(* The record's length is enough: its body need not have arrived. *)
LengthSuffices == SeenLen > 0 /\ (Cur = 6 \/ (Cur = 2 /\ SeenLen > CoalescedMin))

ParseReject ==
    /\ At(pcS, "parse") /\ ~NoTicketYet /\ Unfit
    /\ recLen' = IF HeaderVisible /\ ~HeaderOK(Cur) THEN recLen ELSE SeenLen
    /\ mutex' = "free" /\ pcS' = "after"
    /\ UNCHANGED <<env, cPos, tPos, written, flags, closed, wg, varsM, varsC, sBuf,
                   hsLen, cut, varsL, varsP>>

ParseLast ==
    /\ At(pcS, "parse")
    /\ \/ NoTicketYet /\ UNCHANGED <<hsLen, recLen>>
       \/ /\ ~NoTicketYet /\ ~Unfit /\ LengthSuffices
          /\ hsLen' = [hsLen EXCEPT ![Cur] = SeenLen]
          /\ recLen' = SeenLen
    /\ pcS' = "handshake"
    /\ UNCHANGED <<env, cPos, tPos, written, flags, closed, mutex, wg, varsM, varsC,
                   sBuf, cut, varsL, varsP>>

ParseWait ==
    /\ At(pcS, "parse") /\ ~NoTicketYet /\ ~Unfit /\ ~LengthSuffices
    /\ SeenLen = 0 \/ Saved < SeenLen
    /\ recLen' = SeenLen
    /\ mutex' = "free" /\ pcS' = "read"
    /\ UNCHANGED <<env, cPos, tPos, written, flags, closed, wg, varsM, varsC, sBuf,
                   hsLen, cut, varsL, varsP>>

(* handshakeLen is not reset between records. *)
NextRecLenM1 == SeenLen

NextRecLen == 0

ParseTake ==
    /\ At(pcS, "parse") /\ ~NoTicketYet /\ ~Unfit /\ ~LengthSuffices
    /\ SeenLen > 0 /\ Saved >= SeenLen
    /\ hsLen' = [hsLen EXCEPT ![Cur] = SeenLen]
    /\ cut' = cut + SeenLen
    /\ recLen' = NextRecLen
    /\ UNCHANGED <<env, cPos, tPos, written, flags, closed, mutex, wg, varsM, varsC,
                   pcS, sBuf, varsL, varsP>>

-----------------------------------------------------------------------------
(* S: our own handshake, in records of the target's lengths *)

Coalesced == hsLen[3] = 0

(* The unpadded length of our encrypted record i; 0 if it is not sent.     *)
(* Record 6 is a session ticket, or a dummy sent because the target sent   *)
(* something there.                                                        *)
OwnRecord(i) ==
    CASE i = 6 -> IF SessionTickets \/ hsLen[6] # 0 THEN OwnLen[6] ELSE 0
      [] i = 2 -> IF Coalesced THEN OwnCoalesced ELSE OwnLen[2]
      [] OTHER -> IF Coalesced THEN 0 ELSE OwnLen[i]

OwnRecords == {i \in 2..6 : OwnRecord(i) > 0}

(* Records that encrypt cannot pad down to the target's length. *)
Misfits == {i \in OwnRecords : OwnRecord(i) > hsLen[i]}

(* Records keep their own length. *)
PaddedM1(i) == OwnRecord(i)

(* encrypt pads each record to the target's length. *)
Padded(i) == hsLen[i]

PaddedFlight ==
    (IF Coalesced THEN <<Padded(2)>> ELSE [i \in 1..4 |-> Padded(i + 1)])
        \o (IF 6 \in OwnRecords THEN <<Padded(6)>> ELSE <<>>)

(* encrypt consumes the length of each record up to the first misfit. *)
UsedLens == [i \in 0..6 |->
    IF i \in OwnRecords /\ \A j \in Misfits : i <= j THEN 0 ELSE hsLen[i]]

(* The target chose a key share the client did not offer: peerData is nil  *)
(* and slicing it panics.                                                  *)
ShareMissing == script[1].group = "mlkem768" /\ ~hello.mlkem768

HandshakePanics ==
    /\ At(pcS, "handshake") /\ ShareMissing
    /\ crashed' = TRUE
    /\ UNCHANGED <<peers, cPos, tPos, written, flags, closed, mutex, wg, varsM, varsC,
                   varsS, varsL, varsP>>

(* hs.handshake: all records are buffered, then written at once. *)
HandshakeSent ==
    /\ At(pcS, "handshake") /\ ~ShareMissing /\ Misfits = {} /\ ClientWritable
    /\ flight' = PaddedFlight
    /\ hsLen' = UsedLens
    /\ pcS' = "finished" /\ pcP' = "drain"
    /\ UNCHANGED <<env, cPos, tPos, toTarget, toClient, writeShut, flags, closed, mutex,
                   wg, varsM, varsC, sBuf, recLen, cut, varsL, probeErr>>

HandshakeFails ==
    /\ At(pcS, "handshake") /\ ~ShareMissing /\ (Misfits # {} \/ ~ClientWritable)
    /\ hsLen' = UsedLens
    /\ mutex' = "free" /\ pcS' = "after"
    /\ UNCHANGED <<env, cPos, tPos, written, flags, closed, wg, varsM, varsC, sBuf,
                   recLen, cut, varsL, varsP>>

(* The client's answer follows its ClientHello, in rawInput or on the wire. *)
AnswerRead == cPos > HelloUnits \/ (ClientReadable /\ Len(cOut) > HelloUnits)
AnswerValid == cOut[HelloUnits + 1] = "fin"

(* The handshake is not marked complete. *)
ConfirmM1 == UNCHANGED complete

(* hs.c.isHandshakeComplete.Store(true) *)
Confirm == complete' = TRUE

FinishedRead ==
    /\ At(pcS, "finished") /\ AnswerRead /\ AnswerValid
    /\ cPos' = IF ClientReadable THEN Len(cOut) ELSE cPos
    /\ Confirm
    /\ mutex' = "free" /\ pcS' = "after"
    /\ UNCHANGED <<env, tPos, written, authed, copying, stole, closed, wg, varsM, varsC,
                   sBuf, parsing, varsL, varsP>>

FinishedFails ==
    /\ At(pcS, "finished")
    /\ \/ AnswerRead /\ ~AnswerValid
       \/ ~AnswerRead /\ ClientReadFails
    /\ cPos' = IF ClientReadable THEN Len(cOut) ELSE cPos
    /\ mutex' = "free" /\ pcS' = "after"
    /\ UNCHANGED <<env, tPos, written, flags, closed, wg, varsM, varsC, sBuf, parsing,
                   varsL, varsP>>

-----------------------------------------------------------------------------
(* S: what is left to do once the mutex is released *)

(* The target's ServerHello is not looked at. *)
UnansweredM1 == TRUE

(* The target sent no usable ServerHello. *)
Unanswered == hsLen[0] = 0

(* An authenticated client is left with no one to copy it. *)
NeedsLM1 == FALSE

(* C has left the client to S, so L must copy it. *)
NeedsL == authed

(* L is not counted. *)
SpawnLM1 == wg' = wg /\ pcL' = "copyRead"

SpawnL == wg' = wg + 1 /\ pcL' = "copyRead"

(* With no ServerHello imitated, the two connections are joined.  stole is *)
(* read here without the mutex.                                            *)
AfterLoop ==
    /\ At(pcS, "after")
    /\ \/ /\ ~Unanswered
          /\ pcS' = "finish" /\ UNCHANGED <<wg, pcL>>
       \/ /\ Unanswered
          /\ IF NeedsL THEN SpawnL ELSE UNCHANGED <<wg, pcL>>
          /\ pcS' = IF stole THEN "finish" ELSE "saved"
    /\ UNCHANGED <<env, cPos, tPos, written, flags, closed, mutex, varsM, varsC, sBuf,
                   parsing, lBuf, varsP>>

(* What S has read so far is dropped. *)
SavedUnitsM1 == <<>>

(* s2cSaved *)
SavedUnits == Window(cut, tPos)

WriteSaved ==
    /\ At(pcS, "saved")
    /\ toClient' = IF ClientWritable THEN toClient \o SavedUnits ELSE toClient
    /\ pcS' = "copyRead"
    /\ UNCHANGED <<env, cPos, tPos, toTarget, flight, writeShut, flags, closed, mutex, wg,
                   varsM, varsC, sBuf, parsing, varsL, varsP>>

(* io.Copy(underlying, target), then underlying.CloseWrite(). *)
CopyS ==
    /\ \/ /\ At(pcS, "copyRead") /\ TargetReadable
          /\ sBuf' = Window(tPos, tSent) /\ tPos' = tSent
          /\ pcS' = "copyWrite"
          /\ UNCHANGED <<toClient, writeShut>>
       \/ /\ At(pcS, "copyWrite") /\ ClientWritable
          /\ toClient' = toClient \o sBuf /\ sBuf' = <<>>
          /\ pcS' = "copyRead"
          /\ UNCHANGED <<tPos, writeShut>>
       \/ /\ \/ At(pcS, "copyRead") /\ TargetReadFails
             \/ At(pcS, "copyWrite") /\ ~ClientWritable
          /\ writeShut' = TRUE /\ sBuf' = <<>>
          /\ pcS' = "finish"
          /\ UNCHANGED <<tPos, toClient>>
    /\ UNCHANGED <<env, cPos, toTarget, flight, flags, closed, mutex, wg, varsM, varsC,
                   parsing, varsL, varsP>>

DoneS ==
    /\ At(pcS, "finish")
    /\ pcS' = "done" /\ wg' = wg - 1
    /\ UNCHANGED <<env, cPos, tPos, written, flags, closed, mutex, varsM, varsC, sBuf,
                   parsing, varsL, varsP>>

-----------------------------------------------------------------------------
(* L: io.Copy(target, underlying) for a client whose target gave no usable *)
(* ServerHello                                                             *)

CopyL ==
    /\ \/ /\ At(pcL, "copyRead") /\ ClientReadable
          /\ lBuf' = Window(cPos, Len(cOut)) /\ cPos' = Len(cOut)
          /\ pcL' = "copyWrite"
          /\ UNCHANGED <<toTarget, wg>>
       \/ /\ At(pcL, "copyWrite") /\ TargetWritable
          /\ toTarget' = toTarget \o lBuf /\ lBuf' = <<>>
          /\ pcL' = "copyRead"
          /\ UNCHANGED <<cPos, wg>>
       \/ /\ \/ At(pcL, "copyRead") /\ ClientReadFails
             \/ At(pcL, "copyWrite") /\ ~TargetWritable
          /\ lBuf' = <<>> /\ wg' = wg - 1
          /\ pcL' = "done"
          /\ UNCHANGED <<cPos, toTarget>>
    /\ UNCHANGED <<env, tPos, toClient, flight, writeShut, flags, closed, mutex, varsM,
                   varsC, varsS, varsP>>

-----------------------------------------------------------------------------
(* P: the target's stream after our handshake *)

(* What io.ReadFull still has to read of the record whose length we used. *)
Undrained == recLen - Saved

DrainTarget ==
    /\ At(pcP, "drain")
    /\ \/ /\ Undrained > 0 /\ TargetReadable
          /\ tPos' = MinOf(tSent, tPos + Undrained)
          /\ UNCHANGED pcP
       \/ /\ Undrained <= 0 \/ TargetReadFails
          /\ pcP' = "read"
          /\ UNCHANGED tPos
    /\ UNCHANGED <<env, cPos, written, flags, closed, mutex, wg, varsM, varsC, varsS,
                   varsL, probeErr>>

ProbeTarget ==
    /\ At(pcP, "read")
    /\ \/ /\ TargetReadable
          /\ tPos' = MinOf(tSent, tPos + Size)
          /\ UNCHANGED probeErr
       \/ /\ TargetReadFails
          /\ probeErr' = TRUE
          /\ UNCHANGED tPos
    /\ pcP' = "check"
    /\ UNCHANGED <<env, cPos, written, flags, closed, mutex, wg, varsM, varsC, varsS,
                   varsL>>

(* isHandshakeComplete is loaded here, and acted on in the next step. *)
ProbeCheck ==
    /\ At(pcP, "check")
    /\ pcP' = IF ~complete /\ probeErr THEN "close" ELSE "done"
    /\ UNCHANGED <<env, cPos, tPos, written, flags, closed, mutex, wg, varsM, varsC,
                   varsS, varsL, probeErr>>

ProbeClose ==
    /\ At(pcP, "close")
    /\ connClosed' = TRUE
    /\ pcP' = "done"
    /\ UNCHANGED <<env, cPos, tPos, written, flags, targetClosed, mutex, wg, varsM, varsC,
                   varsS, varsL, probeErr>>

-----------------------------------------------------------------------------
(* The peers.  A client can send a valid Finished only after our flight.   *)
(* What they send before the dial is as good as sent after it, and after   *)
(* the return nobody relays.                                               *)

ours == <<cPos, tPos, written, flags, closed, mutex, wg, varsM, varsC, varsS,
          varsL, varsP, crashed>>

ClientSends ==
    /\ At(pcM, "wait") /\ cSide = "open" /\ Len(cOut) < HelloUnits + MaxExtra
    /\ \/ Len(cOut) < HelloUnits /\ cOut' = Append(cOut, "hello")
       \/ Len(cOut) >= HelloUnits /\ cOut' = Append(cOut, "data")
       \/ /\ Len(cOut) = HelloUnits /\ flight # <<>>
          /\ cOut' = Append(cOut, "fin")
    /\ UNCHANGED <<hello, cSide, script, tSent, tSide, ours>>

ClientCloses ==
    /\ At(pcM, "wait") /\ cSide = "open" /\ cSide' \in {"shut", "reset"}
    /\ UNCHANGED <<hello, cOut, script, tSent, tSide, ours>>

TargetSends ==
    /\ At(pcM, "wait") /\ tSide = "open" /\ tSent < StreamEnd
    /\ authed \/ tSent < MaxRelayed
    /\ tSent' = tSent + 1
    /\ UNCHANGED <<hello, cOut, cSide, script, tSide, ours>>

TargetCloses ==
    /\ At(pcM, "wait") /\ tSide = "open" /\ tSide' \in {"shut", "reset"}
    /\ UNCHANGED <<hello, cOut, cSide, script, tSent, ours>>

-----------------------------------------------------------------------------
Init ==
    /\ hello \in Hellos /\ script \in Scripts
    /\ cOut = <<>> /\ cSide = "open" /\ cPos = 0 /\ toTarget = <<>>
    /\ tSent = 0 /\ tSide = "open" /\ tPos = 0 /\ toClient = <<>>
    /\ flight = <<>> /\ writeShut = FALSE
    /\ connClosed = FALSE /\ targetClosed = FALSE
    /\ mutex = "free" /\ wg = 0
    /\ authed = FALSE /\ copying = FALSE /\ stole = FALSE /\ complete = FALSE
    /\ hsLen = [i \in 0..6 |-> 0] /\ recLen = 0 /\ cut = 0
    /\ pcM = "dial" /\ pcC = "off" /\ pcS = "off" /\ pcL = "off" /\ pcP = "off"
    /\ cBuf = <<>> /\ lBuf = <<>> /\ sBuf = <<>>
    /\ readErr = FALSE /\ probeErr = FALSE
    /\ result = "none" /\ crashed = FALSE

StepM == DialFails \/ DialSucceeds \/ Return
StepC == \/ LockC \/ MirrorRead \/ MirrorReadReturns \/ MirrorWrite \/ HelloError
         \/ JudgeHello \/ CopyC \/ DoneC
StepS == \/ ReadTarget \/ GiveUpOnData \/ LockS
         \/ ParseReject \/ ParseLast \/ ParseWait \/ ParseTake
         \/ HandshakePanics \/ HandshakeSent \/ HandshakeFails
         \/ FinishedRead \/ FinishedFails
         \/ AfterLoop \/ WriteSaved \/ CopyS \/ DoneS
StepP == DrainTarget \/ ProbeTarget \/ ProbeCheck \/ ProbeClose

Environment == ClientSends \/ ClientCloses \/ TargetSends \/ TargetCloses

Terminated == (crashed \/ pcM = "returned") /\ UNCHANGED vars

Next == StepM \/ StepC \/ StepS \/ CopyL \/ StepP \/ Environment \/ Terminated

(* Runnable goroutines are scheduled; the peers may stay silent forever. *)
Fairness ==
    /\ WF_vars(StepM) /\ WF_vars(StepC) /\ WF_vars(StepS) /\ WF_vars(CopyL)
    /\ WF_vars(StepP)

Spec == Init /\ [][Next]_vars

FairSpec == Spec /\ Fairness

-----------------------------------------------------------------------------
(* Properties *)

LiveC == pcC \notin {"off", "done"}
LiveS == pcS \notin {"off", "done"}
LiveL == pcL \notin {"off", "done"}

Bit(b) == IF b THEN 1 ELSE 0

(* Every variable has its type; wg, the wait group's counter, is never     *)
(* negative (Done would panic), and S's cut into the target's stream (the  *)
(* re-slicing of s2cSaved) never passes what has been read of it.          *)
TypeOK ==
    /\ hello \in Hellos /\ script \in Scripts
    /\ cPos \in Nat /\ tPos \in Nat /\ tSent \in Nat
    /\ cSide \in {"open", "shut", "reset"} /\ tSide \in {"open", "shut", "reset"}
    /\ cOut \in Seq({"hello", "data", "fin"})
    /\ toTarget \in Seq(Nat) /\ toClient \in Seq(Nat) /\ flight \in Seq(Nat)
    /\ cBuf \in Seq(Nat) /\ lBuf \in Seq(Nat) /\ sBuf \in Seq(Nat)
    /\ connClosed \in BOOLEAN /\ targetClosed \in BOOLEAN /\ writeShut \in BOOLEAN
    /\ authed \in BOOLEAN /\ copying \in BOOLEAN /\ stole \in BOOLEAN
    /\ complete \in BOOLEAN /\ readErr \in BOOLEAN /\ probeErr \in BOOLEAN
    /\ crashed \in BOOLEAN
    /\ mutex \in {"free", "C", "S"}
    /\ hsLen \in [0..6 -> Nat] /\ recLen \in Nat
    /\ cut \in Nat /\ cut <= tPos
    /\ wg \in 0..3
    /\ pcM \in {"dial", "wait", "returned"} /\ result \in {"none", "conn", "err"}
    /\ pcC \in {"off", "start", "held", "reading", "relock", "copyRead",
                "copyWrite", "finish", "done"}
    /\ pcS \in {"off", "read", "lock", "parse", "handshake", "finished", "after",
                "saved", "copyRead", "copyWrite", "finish", "done"}
    /\ pcL \in {"off", "copyRead", "copyWrite", "done"}
    /\ pcP \in {"off", "drain", "read", "check", "close", "done"}

(* waitGroup counts exactly the goroutines that may still write to a       *)
(* connection, L included although S adds it while M already waits: Server *)
(* returns neither early nor never for a miscount.                         *)
WaitGroupCounts == wg = Bit(LiveC) + Bit(LiveS) + Bit(LiveL)

(* The goroutines that may be inside a Read of the client's connection:    *)
(* the mirrored read, the two copies and readClientFinished; once Server   *)
(* has returned the connection, the caller.                                *)
ClientReaders ==
    {g \in {"C", "S", "L", "caller"} :
        \/ g = "C" /\ pcC \in {"reading", "copyRead"}
        \/ g = "S" /\ pcS = "finished"
        \/ g = "L" /\ pcL = "copyRead"
        \/ g = "caller" /\ result = "conn"}

TargetReaders ==
    {g \in {"S", "P"} :
        \/ g = "S" /\ pcS \in {"read", "copyRead"}
        \/ g = "P" /\ pcP \in {"drain", "read"}}

(* No two goroutines read the same connection: bytes of the client's       *)
(* Finished or of its application data are never split between a copy to   *)
(* the target and the handshake, nor the target's between S and the probe. *)
SoleReaders ==
    /\ \A g, h \in ClientReaders : g = h
    /\ \A g, h \in TargetReaders : g = h

(* The records S has taken off s2cSaved are whole records of the target:   *)
(* however the stream was cut into reads, and however often S released the *)
(* mutex in between, a header is read only where a record starts.          *)
CutAligned ==
    cut = StreamEnd \/ \E k \in 1..Len(script) : script[k].at = cut

(* encrypt appends empty[:padding], and empty holds size bytes: no length  *)
(* S records makes that slice panic.                                       *)
PaddingInBounds == \A i \in 0..6 : hsLen[i] <= Size

(* The encrypted records the client receives from us have the lengths of   *)
(* the target's own records in the same place, and its ServerHello and     *)
(* ChangeCipherSpec were accepted; that is what hides the server.          *)
Imitation ==
    flight # <<>> =>
        /\ Len(script) >= Len(flight) + 2
        /\ script[1].good /\ script[2].typ = "ccs"
        /\ \A k \in 1..Len(flight) :
              flight[k] = script[k + 2].len /\ script[k + 2].typ = "appdata"

(* Versions are compared component by component, and the clock may differ  *)
(* by MaxTimeDiff either way (0 disables the check).                       *)
Precedes(v, w) ==
    \/ v = w
    \/ \E i \in 1..Len(v) : v[i] < w[i] /\ \A j \in 1..(i - 1) : v[j] = w[j]

Genuine ==
    /\ hello.valid /\ hello.tls13 /\ hello.x25519 /\ hello.sealed
    /\ hello.serverName \in ServerNames /\ hello.shortId \in ShortIds
    /\ MinClientVer # Nil => Precedes(MinClientVer, hello.ver)
    /\ MaxClientVer # Nil => Precedes(hello.ver, MaxClientVer)
    /\ MaxTimeDiff > 0 => hello.time \in (Now - MaxTimeDiff)..(Now + MaxTimeDiff)

Mode ==
    CASE complete -> "confirmed"
      [] ~complete /\ flight # <<>> -> "own"
      [] ~complete /\ flight = <<>> /\ toClient # <<>> -> "relay"
      [] OTHER -> "open"

Promise == INSTANCE RealityPromise WITH
    genuine <- Genuine, mode <- Mode, up <- toTarget, down <- toClient,
    answer <- flight, outcome <- result

(* Server with its goroutines, mutex and buffers implements RealityPromise:*)
(* a client sees the target or us and never a mixture, each stream arrives *)
(* in order and complete up to some point, only a genuine client is        *)
(* answered, and nothing is written after Server returns.                  *)
KeepsPromise == Promise!Spec

CopierGone ==
    /\ pcC \in {"finish", "done"} /\ pcL \notin {"copyRead", "copyWrite"}
    /\ cSide = "open" /\ ~connClosed /\ TargetWritable

(* While S forwards the target to the client, C or L forwards the client   *)
(* to the target, as long as both ends take part: "Here is bidirectional   *)
(* direct forwarding".                                                     *)
RelayBothWays == pcS \in {"saved", "copyRead", "copyWrite"} => ~CopierGone

(* The relay is bidirectional for every client that named one of our       *)
(* server names, whichever of C and S reached the mutex first.             *)
RelayBothWaysForOurNames == stole \/ RelayBothWays

(* No goroutine panics: a panic in one ends the process and every          *)
(* connection in it, while the guard hs.clientHello != nil of the SNI      *)
(* trace shows that a failed readClientHello was meant to be forwarded.    *)
NoPanic == ~crashed

(* When both peers have gone, Server returns, whatever was under way: no   *)
(* goroutine waits for the mutex, the wait group or a read forever.        *)
Termination ==
    (cSide # "open" /\ tSide # "open") ~> (pcM = "returned" \/ crashed)

(* Everything a target sends before it closes reaches a relayed client     *)
(* that still reads, what S had saved before it gave up included.          *)
RelayDelivers ==
    (pcS \in {"saved", "copyRead", "copyWrite"} /\ tSide = "shut")
        ~> (toClient = Window(0, tSent) \/ ~ClientWritable \/ crashed)

(* A client that answers our flight with a valid Finished gets the         *)
(* connection accepted, unless the probe saw the target's connection fail  *)
(* before Server returned (and may close conn), or the client reset it.    *)
FinishedIsAccepted ==
    (pcS = "finished" /\ Len(cOut) > HelloUnits /\ cOut[HelloUnits + 1] = "fin")
        ~> (result = "conn" \/ (probeErr /\ result = "none") \/ cSide = "reset")
====
