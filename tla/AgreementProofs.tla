-------------------------- MODULE AgreementProofs --------------------------
(***************************************************************************)
(* Proofs about Handshake, continued: the two ends of a completed          *)
(* handshake agree, a session is what its ticket says, and Encrypted       *)
(* Client Hello keeps what it promises.  LinkInv relates what either end   *)
(* has decided to the messages between them and to what the other end has  *)
(* taken from them; NameInv adds the names, and which hello was answered.  *)
(***************************************************************************)
EXTENDS TicketProofs, SequenceTheorems

-----------------------------------------------------------------------------
(* The invariant *)

\* The places of a server before its ServerHello is out, and behind it.
Unsent12 ==
  {"process12", "checkForResumption12", "doResumeHandshake12", "pickCipherSuite12",
   "sendFlight12"}

Unsent == {"readClientHello"} \cup Unsent12 \cup Before13

Full12 == {"readCertificate12", "readKeyExchange12", "readCertificateVerify12"}

Sent12 == Full12 \cup {"readFinished12"}

Sent13 ==
  {"sendCertificate13", "sendFinished13", "readCertificate13", "readCertificateVerify13",
   "sendTickets13", "readFinished13"}

\* A server that failed between its ServerHello and the rest of its flight.
Halted == srv.pc = "failed" /\ srv.transcript = <<>>

\* What a Finished leaves in a transcript.
Mark(end) == [type |-> "finished", from |-> end]

IsSequence(t) == t \in Seq(Elements(t))

\* The version that a ServerHello says.
Version(sh) == IF sh.supportedVersion # 0 THEN sh.supportedVersion ELSE sh.vers

\* A ServerHello says what the server has decided.
Said(sh) ==
  /\ sh.suite = srv.suite
  /\ srv.vers = TLS13 => sh.serverShare = srv.curve /\ sh.psk = srv.didResume
  /\ srv.vers # TLS13 => /\ sh.alpn = srv.alpn /\ sh.sessionIdEcho = srv.didResume
                         /\ sh.ems = srv.sh.ems

\* A ServerHello or a HelloRetryRequest of this server.
Told(sh) ==
  /\ srv.pc # "readClientHello" /\ Version(sh) = srv.vers /\ sh.sessionIdEcho \in BOOLEAN
  /\ sh.hrr => srv.vers = TLS13
  /\ sh.echAccept # None => srv.ech # None
  /\ ~sh.hrr => srv.pc \notin Unsent /\ (Halted \/ Said(sh))

\* A ticket with the state of this connection.
Issued(ticket) ==
  /\ srv.pc \notin Unsent /\ ~Halted
  /\ srv.vers # TLS13 => srv.didResume \/ srv.pc = "complete"
  /\ ticket.state.version = srv.vers /\ ticket.state.suite = srv.suite
  /\ ticket.state.ems = srv.ems /\ ticket.state.alpn = srv.alpn
  /\ ticket.state.curve = srv.curve
  /\ ticket.state.secret = IF srv.vers # TLS13 /\ srv.didResume THEN srv.session.secret ELSE conns

\* A Finished of this server; in a full handshake of TLS 1.2 it is the last
\* message.
Sealing(msg) ==
  /\ srv.pc \notin Unsent /\ ~Halted
  /\ srv.vers # TLS13 /\ ~srv.didResume =>
       srv.pc = "complete" /\ srv.transcript = msg.over \o <<Mark("server")>>

ReplyTrue(msg) ==
  /\ msg.type = "serverHello" => Told(msg)
  /\ msg.type = "encryptedExtensions" => srv.pc \notin Unsent /\ msg.alpn = srv.alpn
  /\ msg.type = "certificate" => srv.pc \notin Unsent /\ msg.cert = srv.cert
  /\ msg.type = "serverKeyExchange" => srv.pc \notin Unsent /\ ~Halted /\ msg.curve = srv.curve
  /\ msg.type = "newSessionTicket" => Issued(msg.ticket)
  /\ msg.type = "finished" => Sealing(msg)

\* A ticket comes before the Finished of its flight.
InOrder(queue) ==
  \A i, j \in DOMAIN queue :
    i < j /\ queue[i].type = "finished" => queue[j].type # "newSessionTicket"

NoTicket(queue) == \A msg \in Elements(queue) : msg.type # "newSessionTicket"

NoFinished(queue) == \A msg \in Elements(queue) : msg.type # "finished"

Heard ==
  /\ \A msg \in Elements(toClient) : ReplyTrue(msg)
  /\ srv.vers # TLS13 => InOrder(toClient)

\* A hello of TLS 1.2 offers the ticket of the session.
Carries(hello) ==
  hello.sessionTicket # None => cli.session # None /\ hello.sessionTicket = cli.session.ticket

CarriesBoth(hello) ==
  Carries(hello) /\ (hello.ech \notin {NoECH, InnerECH} => Carries(hello.ech.inner))

\* A Finished of this client; but in a full handshake of TLS 1.2 it is its last
\* message.
Proves(msg) ==
  /\ cli.pc \in {"readTicket12", "readFinished12", "complete", "failed"}
  /\ cli.pc # "failed" /\ (cli.vers = TLS13 \/ cli.didResume) =>
       cli.pc = "complete" /\ cli.transcript = msg.over \o <<Mark("client")>>

CallTrue(msg) ==
  /\ msg.type = "clientHello" =>
       cli.pc # "start" /\ (srv.pc = "readClientHello" => CarriesBoth(msg))
  /\ msg.type = "finished" => Proves(msg)

Called == \A msg \in Elements(toServer) : CallTrue(msg)

\* The session of a client, or of its cache, is the one in its ticket.
Matches(s) ==
  /\ s.ticket.state.secret = s.secret /\ s.ticket.state.version = s.version
  /\ s.ticket.state.suite = s.suite /\ s.ticket.state.ems = s.ems
  /\ s.ticket.state.alpn = s.alpn /\ s.ticket.state.curve = s.curve

Matched == (cache # None => Matches(cache)) /\ (cli.session # None => Matches(cli.session))

\* The places of a client that has taken nothing yet from the server's answer,
\* and those around the ServerHello of TLS 1.3 and behind it.
Fresh == {"start", "readServerHello", "process12"}

Middle13 == {"check13", "retry13", "readSecondServerHello", "process13"}

Late13 ==
  {"readEncryptedExtensions", "readCertificate13", "readCertificateVerify13", "readFinished13",
   "sendCertificate13", "sendFinished13"}

Late12 == Places12 \ {"process12"}

\* The places of a client with a ServerHello.
Informed == Middle13 \cup Late13 \cup Places12 \cup {"complete"}

Behind13 == cli.pc \in Late13 \/ (cli.pc = "complete" /\ cli.vers = TLS13)

Behind12 == cli.pc \in Late12 \/ (cli.pc = "complete" /\ cli.vers # TLS13)

Follows13 ==
  /\ ~cli.sh.hrr /\ cli.vers = TLS13 /\ cli.ems = FALSE /\ cli.ticket = None
  /\ cli.suite = cli.sh.suite /\ cli.curve = cli.sh.serverShare
  /\ cli.didResume = cli.sh.psk /\ cli.usingPSK = cli.didResume
  /\ cli.pc # "readEncryptedExtensions" => cli.alpn = srv.alpn
  /\ cli.pc \notin {"readEncryptedExtensions", "readCertificate13"} /\ ~cli.didResume =>
       cli.cert = srv.cert

Follows12 ==
  /\ ~cli.sh.hrr /\ cli.vers # TLS13
  /\ cli.suite = cli.sh.suite /\ cli.alpn = cli.sh.alpn
  /\ cli.didResume = cli.sh.sessionIdEcho
  /\ cli.ticket # None => Issued(cli.ticket)
  /\ cli.didResume => /\ cli.session # None
                      /\ cli.curve = cli.session.curve /\ cli.ems = cli.session.ems
  /\ cli.pc \notin {"readTicket12", "readFinished12", "complete"} => ~cli.didResume
  /\ ~cli.didResume =>
       /\ Halted \/ cli.curve \in {None, srv.curve}
       /\ cli.pc \in {"readTicket12", "readFinished12", "complete"} =>
            cli.ems = cli.sh.ems /\ (Halted \/ cli.curve = srv.curve)
       /\ cli.pc # "readCertificate12" => cli.cert = srv.cert
       /\ cli.pc = "complete" => srv.pc = "complete" /\ cli.transcript = srv.transcript
  /\ cli.pc = "complete" => NoTicket(toClient)

\* A client that may still send a hello has hellos.
Greets ==
  cli.pc \in Greeting =>
    cli.hello.type = "clientHello" /\ (UsesECH => cli.inner.type = "clientHello")

\* What a client knows is what its server said.
Follows ==
  /\ Greets
  /\ IsSequence(cli.transcript) /\ IsSequence(cli.innerTranscript)
  /\ cli.pc \in Informed => cli.vers = srv.vers /\ Told(cli.sh)
  /\ cli.pc \in Fresh =>
       cli.curve = None /\ cli.ems = FALSE /\ cli.ticket = None /\ cli.didResume = FALSE
  /\ cli.pc \in Middle13 => cli.vers = TLS13 /\ cli.ems = FALSE /\ cli.ticket = None
  /\ cli.pc = "process13" => cli.suite = cli.sh.suite
  /\ cli.pc = "process12" => ~cli.sh.hrr /\ cli.vers # TLS13
  /\ Behind13 => Follows13
  /\ Behind12 => Follows12

\* What a server has decided, and when.
Stands ==
  /\ IsSequence(srv.transcript) /\ srv.didResume \in BOOLEAN
  /\ cli.pc = "start" => srv.pc \in {"readClientHello", "failed"} /\ ~srv.didResume
  /\ srv.pc \in Unsent12 => Carries(srv.hello)
  /\ srv.pc = "readClientHello" => srv.ems = FALSE /\ srv.vers # TLS13
  /\ srv.vers = TLS13 => srv.ems = FALSE
  /\ srv.pc \in Before13 \cup Sent13 => srv.vers = TLS13
  /\ srv.pc \in Unsent12 \cup Sent12 => srv.vers # TLS13
  /\ srv.pc \in Unsent12 \cup {"readClientHello", "process13"} => srv.transcript = <<>>
  /\ srv.pc \in Sent12 \cup Sent13 => srv.transcript # <<>>
  /\ srv.pc \in ShMade => /\ Version(srv.sh) = srv.vers /\ ~srv.sh.hrr
                          /\ srv.sh.alpn = srv.alpn /\ srv.sh.sessionIdEcho = FALSE
                          /\ srv.sh.echAccept = None
  /\ srv.pc \in Full12 => ~srv.didResume
  /\ srv.pc = "doResumeHandshake12" => srv.didResume = TRUE
  /\ srv.didResume /\ srv.vers # TLS13 =>
       /\ cli.session # None /\ srv.session = cli.session.ticket.state
       /\ srv.curve = srv.session.curve /\ srv.ems = srv.session.ems
  /\ srv.vers # TLS13 /\ ~srv.didResume =>
       /\ srv.pc \in Unsent => srv.curve = None
       /\ srv.curve = None \/ "ECDHE" \in Flags(srv.suite)
       /\ srv.pc \in {"readCertificateVerify12", "readFinished12", "complete"} =>
            srv.ems = srv.sh.ems
  /\ srv.pc = "readFinished13" =>
       srv.transcript = SubSeq(srv.transcript, 1, Len(srv.transcript) - 1) \o <<Mark("client")>>
  /\ srv.pc = "complete" /\ (srv.vers = TLS13 \/ srv.didResume) =>
       \/ cli.pc = "failed"
       \/ cli.pc = "complete" /\ cli.transcript = srv.transcript

LinkInv == Heard /\ Called /\ Matched /\ Follows /\ Stands

-----------------------------------------------------------------------------
(* Sequences *)

\* Transcripts and queues are sequences, however they are put together.
LEMMA Sequences1 ==
  /\ IsSequence(<<>>)
  /\ \A m : IsSequence(<<m>>)
  /\ \A q, r : IsSequence(q) /\ IsSequence(r) => IsSequence(q \o r)
  /\ \A q, m : IsSequence(q) => IsSequence(Append(q, m))
  /\ \A q : IsSequence(q) /\ q # <<>> => IsSequence(Tail(q))
<1>1. IsSequence(<<>>)
  BY QueueNone DEF IsSequence
<1>2. ASSUME NEW m PROVE IsSequence(<<m>>)
  BY QueueOne DEF IsSequence
<1>3. ASSUME NEW q, NEW r, IsSequence(q), IsSequence(r) PROVE IsSequence(q \o r)
  BY <1>3, QueueConcat DEF IsSequence
<1>4. ASSUME NEW q, NEW m, IsSequence(q) PROVE IsSequence(Append(q, m))
  BY <1>4, QueueAppend DEF IsSequence
<1>5. ASSUME NEW q, IsSequence(q), q # <<>> PROVE IsSequence(Tail(q))
  BY <1>5, QueueTail DEF IsSequence
<1> QED
  BY <1>1, <1>2, <1>3, <1>4, <1>5

\* Flights of two and of three messages.
LEMMA Sequences2 ==
  ASSUME NEW a, NEW b, NEW c
  PROVE  /\ IsSequence(<<a, b>>) /\ Elements(<<a, b>>) \subseteq {a, b}
         /\ IsSequence(<<a, b, c>>) /\ Elements(<<a, b, c>>) \subseteq {a, b, c}
<1> DEFINE S == {a, b, c}
           T == {a, b}
<1>1. a \in S /\ b \in S /\ c \in S /\ a \in T /\ b \in T
  OBVIOUS
<1> HIDE DEF S, T
<1>2. <<a, b>> \in Seq(T) /\ <<a, b, c>> \in Seq(S)
  BY <1>1
<1> QED
  BY <1>2, QueueOf DEF S, T, IsSequence

LEMMA AppendTwo ==
  ASSUME NEW a, NEW b
  PROVE  Append(<<a>>, b) = <<a, b>>
<1> DEFINE S == {a, b}
           q == Append(<<a>>, b)
           r == <<a, b>>
<1>1. a \in S /\ b \in S
  OBVIOUS
<1> HIDE DEF S
<1>2. <<a>> \in Seq(S) /\ Len(<<a>>) = 1 /\ <<a>>[1] = a
  BY <1>1
<1>3. q \in Seq(S) /\ Len(q) = 2 /\ q[1] = a /\ q[2] = b
  BY <1>1, <1>2
<1>4. r \in Seq(S) /\ Len(r) = 2 /\ r[1] = a /\ r[2] = b
  BY <1>1
<1> HIDE DEF q, r
<1>5. q = [i \in 1..2 |-> q[i]] /\ r = [i \in 1..2 |-> r[i]]
  BY <1>3, <1>4
<1>6. \A i \in 1..2 : q[i] = r[i]
  BY <1>3, <1>4
<1>7. q = r
  BY <1>5, <1>6
<1> QED
  BY <1>7 DEF q, r

\* What is in front of a queue stays there.
LEMMA NonEmpty ==
  ASSUME NEW q, NEW r, IsSequence(q), IsSequence(r), q # <<>>
  PROVE  q \o r # <<>>
<1> DEFINE S == Elements(q) \cup Elements(r)
<1>1. q \in Seq(S) /\ r \in Seq(S)
  BY DEF IsSequence
<1> HIDE DEF S
<1>2. Len(q) \in Nat \ {0} /\ Len(r) \in Nat
  BY <1>1
<1>3. Len(q \o r) = Len(q) + Len(r)
  BY <1>1
<1>4. Len(q \o r) # 0
  BY <1>2, <1>3
<1> QED
  BY <1>4

\* What transcriptMsg adds.
LEMMA TranscriptMsg ==
  /\ \A t : IsSequence(t) => transcriptMsg(t, <<>>) = t
  /\ \A t, m : transcriptMsg(t, <<m>>) = t \o <<Hashed(m)>>
  /\ \A t, msgs : IsSequence(t) /\ IsSequence(msgs) => IsSequence(transcriptMsg(t, msgs))
  /\ \A t, msgs : IsSequence(t) /\ IsSequence(msgs) /\ t # <<>> => transcriptMsg(t, msgs) # <<>>
<1>1. ASSUME NEW msgs, IsSequence(msgs)
      PROVE  IsSequence([i \in DOMAIN msgs |-> Hashed(msgs[i])])
  <2> DEFINE S == {Hashed(m) : m \in Elements(msgs)}
             n == Len(msgs)
             f == [i \in DOMAIN msgs |-> Hashed(msgs[i])]
  <2>1. n \in Nat /\ DOMAIN msgs = 1..n
    BY <1>1 DEF IsSequence
  <2>2. f \in [1..n -> S]
    BY <2>1 DEF Elements
  <2> HIDE DEF S, f
  <2>3. f \in Seq(S)
    BY <2>1, <2>2
  <2> QED
    BY <2>3, QueueOf DEF IsSequence, f
<1>2. ASSUME NEW t, IsSequence(t) PROVE transcriptMsg(t, <<>>) = t
  <2>1. [i \in DOMAIN <<>> |-> Hashed(<<>>[i])] = <<>>
    OBVIOUS
  <2>2. t \o <<>> = t
    BY <1>2 DEF IsSequence
  <2> QED
    BY <2>1, <2>2 DEF transcriptMsg
<1>3. ASSUME NEW t, NEW m PROVE transcriptMsg(t, <<m>>) = t \o <<Hashed(m)>>
  <2>1. [i \in DOMAIN <<m>> |-> Hashed(<<m>>[i])] = <<Hashed(m)>>
    <3>1. DOMAIN <<m>> = {1} /\ <<m>>[1] = m
      OBVIOUS
    <3> QED
      BY <3>1
  <2> QED
    BY <2>1 DEF transcriptMsg
<1>4. ASSUME NEW t, NEW msgs, IsSequence(t), IsSequence(msgs)
      PROVE  IsSequence(transcriptMsg(t, msgs)) /\ (t # <<>> => transcriptMsg(t, msgs) # <<>>)
  BY <1>1, <1>4, Sequences1, NonEmpty DEF transcriptMsg
<1> QED
  BY <1>2, <1>3, <1>4

\* What a Finished leaves in a transcript.
LEMMA FinishedMark ==
  ASSUME NEW secret, NEW end, NEW t
  PROVE  Hashed(Finished(secret, end, t)) = Mark(end)
BY DEF Hashed, Finished, Mark

\* The order of tickets and Finished messages.
LEMMA InOrderTail ==
  ASSUME NEW q, IsSequence(q), q # <<>>, InOrder(q)
  PROVE  InOrder(Tail(q)) /\ (Head(q).type = "finished" => NoTicket(Tail(q)))
<1> DEFINE S == Elements(q)
<1>1. q \in Seq(S)
  BY DEF IsSequence
<1>2. /\ Len(q) \in Nat \ {0} /\ DOMAIN q = 1..Len(q) /\ Head(q) = q[1]
      /\ DOMAIN Tail(q) = 1..(Len(q) - 1)
      /\ \A i \in 1..(Len(q) - 1) : Tail(q)[i] = q[i + 1]
  <2> HIDE DEF S
  <2> QED
    BY <1>1
<1> HIDE DEF S
<1>3. InOrder(Tail(q))
  <2> SUFFICES ASSUME NEW i \in 1..(Len(q) - 1), NEW j \in 1..(Len(q) - 1),
                      i < j, q[i + 1].type = "finished"
               PROVE  q[j + 1].type # "newSessionTicket"
    BY <1>2 DEF InOrder
  <2>1. i + 1 \in DOMAIN q /\ j + 1 \in DOMAIN q /\ i + 1 < j + 1
    BY <1>2
  <2> QED
    BY <2>1 DEF InOrder
<1>4. ASSUME Head(q).type = "finished" PROVE NoTicket(Tail(q))
  <2> SUFFICES ASSUME NEW j \in 1..(Len(q) - 1)
               PROVE  q[j + 1].type # "newSessionTicket"
    BY <1>2 DEF NoTicket, Elements
  <2>1. 1 \in DOMAIN q /\ j + 1 \in DOMAIN q /\ 1 < j + 1
    BY <1>2
  <2> QED
    BY <1>2, <1>4, <2>1 DEF InOrder
<1> QED
  BY <1>3, <1>4

LEMMA InOrderConcat ==
  ASSUME NEW q, NEW r, IsSequence(q), IsSequence(r),
         (InOrder(q) /\ NoTicket(r)) \/ (NoFinished(q) /\ InOrder(r))
  PROVE  InOrder(q \o r)
<1> DEFINE S == Elements(q) \cup Elements(r)
           m == Len(q)
           n == Len(r)
<1>1. q \in Seq(S) /\ r \in Seq(S)
  BY DEF IsSequence
<1> HIDE DEF S
<1>2. /\ m \in Nat /\ n \in Nat /\ DOMAIN q = 1..m /\ DOMAIN r = 1..n
      /\ DOMAIN (q \o r) = 1..(m + n)
      /\ \A i \in 1..(m + n) : (q \o r)[i] = IF i <= m THEN q[i] ELSE r[i - m]
  BY <1>1
<1> HIDE DEF m, n
<1> SUFFICES ASSUME NEW i \in 1..(m + n), NEW j \in 1..(m + n), i < j,
                    (q \o r)[i].type = "finished", (q \o r)[j].type = "newSessionTicket"
             PROVE  FALSE
  BY <1>2 DEF InOrder
<1>3. CASE InOrder(q) /\ NoTicket(r)
  <2>1. j <= m
    <3> SUFFICES ASSUME ~(j <= m) PROVE FALSE
      OBVIOUS
    <3>1. j - m \in DOMAIN r
      BY <1>2
    <3> QED
      BY <1>2, <1>3, <3>1 DEF NoTicket, Elements
  <2>2. i \in DOMAIN q /\ j \in DOMAIN q /\ i <= m
    BY <1>2, <2>1
  <2> QED
    BY <1>2, <1>3, <2>1, <2>2 DEF InOrder
<1>4. CASE NoFinished(q) /\ InOrder(r)
  <2>1. ~(i <= m)
    <3> SUFFICES ASSUME i <= m PROVE FALSE
      OBVIOUS
    <3>1. i \in DOMAIN q
      BY <1>2
    <3> QED
      BY <1>2, <1>4, <3>1 DEF NoFinished, Elements
  <2>2. i - m \in DOMAIN r /\ j - m \in DOMAIN r /\ i - m < j - m /\ ~(j <= m)
    BY <1>2, <2>1
  <2> QED
    BY <1>2, <1>4, <2>1, <2>2 DEF InOrder
<1> QED
  BY <1>3, <1>4

-----------------------------------------------------------------------------
(* The server's steps *)

\* A step of a server that has not sent its ServerHello yet.
Begins ==
  /\ srv.pc \in Unsent /\ srv'.pc # "readClientHello"
  /\ srv.pc # "readClientHello" => srv'.vers = srv.vers /\ srv'.ech = srv.ech

\* A step of a server that has: what it said stays true.
Persists ==
  /\ srv.pc \notin Unsent \cup {"complete", "failed", "idle"} /\ srv'.pc \notin Unsent
  /\ srv'.vers = srv.vers /\ srv'.suite = srv.suite /\ srv'.curve = srv.curve
  /\ srv'.alpn = srv.alpn /\ srv'.cert = srv.cert /\ srv'.sh = srv.sh
  /\ srv'.didResume = srv.didResume /\ srv'.session = srv.session /\ srv'.ech = srv.ech
  /\ srv'.pc = "failed" => srv'.transcript # <<>>
  /\ srv'.ems = srv.ems \/ (srv.vers # TLS13 /\ ~srv.didResume)

\* What the client has been told, and what is under way to it, stays true.
LEMMA ToldStill ==
  ASSUME LinkInv, Begins \/ Persists, conns' = conns
  PROVE  /\ \A sh : Told(sh) => Told(sh)'
         /\ \A ticket : Issued(ticket) => Issued(ticket)'
         /\ \A msg : ReplyTrue(msg) => ReplyTrue(msg)'
<1>0. "readClientHello" \in Unsent /\ "failed" \notin Unsent
  BY DEF Unsent, Unsent12, Before13
<1>1. CASE Begins
  <2>1. ASSUME NEW sh, Told(sh) PROVE Told(sh)'
    BY <1>0, <1>1, <2>1 DEF Begins, Told, Version
  <2> QED
    BY <1>1, <2>1 DEF Begins, Issued, ReplyTrue, Sealing
<1>2. CASE Persists
  <2>0. ~Halted /\ ~Halted'
    BY <1>0, <1>2 DEF Persists, Halted
  <2>1. ASSUME NEW sh, Told(sh) PROVE Told(sh)'
    BY <1>0, <1>2, <2>0, <2>1 DEF Persists, Told, Version, Said
  <2>2. ASSUME NEW ticket, Issued(ticket) PROVE Issued(ticket)'
    BY <1>0, <1>2, <2>0, <2>2 DEF Persists, Issued
  <2>3. ASSUME NEW msg, Sealing(msg) PROVE Sealing(msg)'
    BY <1>0, <1>2, <2>0, <2>3 DEF Persists, Sealing
  <2>4. ASSUME NEW msg, ReplyTrue(msg) PROVE ReplyTrue(msg)'
    BY <1>0, <1>2, <2>0, <2>1, <2>2, <2>3, <2>4 DEF Persists, ReplyTrue
  <2> QED
    BY <2>1, <2>2, <2>4
<1> QED
  BY <1>1, <1>2

\* Before the ServerHello there is no client that has taken it up, and no
\* Finished under way.
LEMMA NothingSent ==
  ASSUME LinkInv, srv.pc \in Unsent
  PROVE  /\ ~Behind13 /\ ~Behind12 /\ cli.pc # "process12"
         /\ NoFinished(toClient)
<1>1. Behind13 \/ Behind12 \/ cli.pc = "process12" => cli.pc \in Informed /\ ~cli.sh.hrr
  BY DEF LinkInv, Follows, Follows13, Follows12, Behind13, Behind12, Informed, Late12, Late13, Places12
<1>2. cli.pc \in Informed => Told(cli.sh)
  BY DEF LinkInv, Follows
<1>3. ~Behind13 /\ ~Behind12 /\ cli.pc # "process12"
  BY <1>1, <1>2 DEF Told
<1>4. NoFinished(toClient)
  BY DEF LinkInv, Heard, NoFinished, ReplyTrue, Sealing
<1> QED
  BY <1>3, <1>4

\* What a server sends, if it is true and in order, leaves the client's side
\* of the invariant as it was.
LEMMA ServerSendsLink ==
  ASSUME TicketInv, LinkInv, NEW flight, NEW new, ServerSends(flight, new), ServerTakes,
         Begins \/ Persists, IsSequence(flight),
         \A msg \in Elements(flight) : ReplyTrue(msg)',
         \/ srv'.vers = TLS13
         \/ NoTicket(flight)
         \/ InOrder(flight) /\ NoFinished(toClient),
         cli.pc = "complete" /\ cli.vers # TLS13 => NoTicket(flight)
  PROVE  Heard' /\ Called' /\ Matched' /\ Follows'
<1>1. UNCHANGED <<cli, cache, conns>> /\ toClient' = toClient \o flight
  BY DEF ServerSends, ServerKeeps
<1>2. IsSequence(toClient) /\ IsSequence(toServer)
  BY DEF TicketInv, Hellos, Replies, IsSequence
<1>3. Elements(toClient') \subseteq Elements(toClient) \cup Elements(flight)
  BY <1>1, <1>2, QueueConcat DEF IsSequence
<1>4. Heard'
  <2>1. \A msg \in Elements(toClient') : ReplyTrue(msg)'
    BY <1>1, <1>3, ToldStill DEF LinkInv, Heard
  <2>2. ASSUME srv'.vers # TLS13 PROVE InOrder(toClient')
    <3>1. srv.vers # TLS13
      BY <2>2 DEF Begins, Persists, LinkInv, Stands
    <3>2. InOrder(toClient)
      BY <3>1 DEF LinkInv, Heard
    <3>3. \/ InOrder(toClient) /\ NoTicket(flight)
          \/ NoFinished(toClient) /\ InOrder(flight)
      BY <2>2, <3>2
    <3>4. InOrder(toClient \o flight)
      BY <1>2, <3>3, InOrderConcat
    <3> QED
      BY <1>1, <3>4
  <2> QED
    BY <2>1, <2>2 DEF Heard
<1>5. Called'
  <2>1. Elements(toServer') \subseteq Elements(toServer)
    BY <1>2, QueueTail DEF ServerTakes, IsSequence
  <2>2. \A msg : CallTrue(msg) => CallTrue(msg)'
    BY <1>1 DEF CallTrue, CarriesBoth, Carries, Proves, Begins, Persists, Unsent
  <2> QED
    BY <2>1, <2>2 DEF LinkInv, Called
<1>6. Matched'
  BY <1>1 DEF LinkInv, Matched
<1>7. Follows'
  <2>1. cli.pc \in Informed => cli.vers = srv'.vers /\ Told(cli.sh)'
    BY <1>1, ToldStill DEF LinkInv, Follows, Begins, Persists, Told
  <2>2. CASE Begins
    BY <1>1, <2>1, <2>2, NothingSent
    DEF Begins, LinkInv, Follows, Behind13, Behind12, Greets, UsesECH
  <2>3. CASE Persists
    <3>0. ~Halted /\ ~Halted'
      BY <2>3 DEF Persists, Halted
    <3>1. Behind13 => Follows13'
      BY <1>1, <2>3 DEF Persists, LinkInv, Follows, Follows13
    <3>2. ASSUME Behind12 PROVE Follows12'
      <4>1. Follows12
        BY <3>2 DEF LinkInv, Follows
      <4>2. cli.ticket # None => Issued(cli.ticket)'
        BY <1>1, <4>1, ToldStill DEF Follows12
      <4>3. cli.pc = "complete" => NoTicket(toClient')
        BY <1>1, <1>3, <3>2, <4>1 DEF Follows12, NoTicket
      <4>4. ~cli.didResume => cli.pc # "complete"
        BY <2>3, <4>1 DEF Follows12, Persists
      <4> QED
        BY <1>1, <2>3, <3>0, <4>1, <4>2, <4>3, <4>4 DEF Follows12, Persists
    <3> QED
      BY <1>1, <2>1, <3>1, <3>2 DEF LinkInv, Follows, Behind13, Behind12, Greets, UsesECH
  <2> QED
    BY <2>2, <2>3
<1> QED
  BY <1>4, <1>5, <1>6, <1>7

\* A step without a message.
LEMMA ServerQuietLink ==
  ASSUME TicketInv, LinkInv, NEW new, ServerSends(<<>>, new), ServerTakes, Begins \/ Persists
  PROVE  Heard' /\ Called' /\ Matched' /\ Follows'
BY ServerSendsLink, QueueNone DEF IsSequence, NoTicket

\* An error of the server.
LEMMA FailServerLink ==
  ASSUME TicketInv, LinkInv, NEW flight, FailServerAfter(flight), ServerTakes,
         srv.pc \in Unsent \cup Sent12 \cup Sent13, IsSequence(flight), NoTicket(flight),
         \A msg \in Elements(flight) : ReplyTrue(msg)'
  PROVE  LinkInv'
<1> USE DEF Unsent, Unsent12, Before13, Sent12, Full12, Sent13
<1>1. /\ srv'.pc = "failed" /\ srv'.vers = srv.vers /\ srv'.suite = srv.suite
      /\ srv'.curve = srv.curve /\ srv'.alpn = srv.alpn /\ srv'.cert = srv.cert
      /\ srv'.sh = srv.sh /\ srv'.didResume = srv.didResume /\ srv'.session = srv.session
      /\ srv'.ech = srv.ech /\ srv'.transcript = srv.transcript /\ srv'.ems = srv.ems
      /\ cli' = cli
  BY DEF FailServerAfter, ServerSends, ServerKeeps, TicketInv, Answered, ServerFields
<1>2. Begins \/ Persists
  BY <1>1 DEF Begins, Persists, LinkInv, Stands
<1> DEFINE sent == flight \o <<Alert>>
<1>3. IsSequence(<<Alert>>) /\ Elements(<<Alert>>) = {Alert}
  BY QueueOne DEF IsSequence
<1>4. IsSequence(sent) /\ Elements(sent) \subseteq Elements(flight) \cup {Alert}
  BY <1>3, QueueConcat DEF IsSequence
<1>5. NoTicket(sent) /\ \A msg \in Elements(sent) : ReplyTrue(msg)'
  <2>1. ReplyTrue(Alert)' /\ Alert.type # "newSessionTicket"
    BY DEF ReplyTrue, Alert
  <2> QED
    BY <1>4, <2>1 DEF NoTicket
<1>6. ServerSends(sent, [srv EXCEPT !.pc = "failed"])
  BY DEF FailServerAfter
<1> HIDE DEF sent
<1>7. Heard' /\ Called' /\ Matched' /\ Follows'
  BY <1>2, <1>4, <1>5, <1>6, ServerSendsLink
<1>8. Stands'
  BY <1>1 DEF LinkInv, Stands, ShMade
<1> QED
  BY <1>7, <1>8 DEF LinkInv

\* An error without a message but the alert.
LEMMA FailQuietLink ==
  ASSUME TicketInv, LinkInv, FailServerAfter(<<>>), ServerTakes,
         srv.pc \in Unsent \cup Sent12 \cup Sent13
  PROVE  LinkInv'
BY FailServerLink, QueueNone DEF IsSequence, NoTicket

\* The hello that a server reads.
LEMMA readClientHelloLink ==
  ASSUME TicketInv, LinkInv, readClientHello
  PROVE  LinkInv'
<1> USE DEF Unsent, Unsent12, Before13, Sent12, Full12, Sent13
<1> DEFINE hello == processECHClientHello(FromClient)
<1>0. /\ srv.pc = "readClientHello" /\ ServerTakes /\ toServer # <<>>
      /\ DOMAIN srv = ServerFields
  BY DEF readClientHello, ServerReads, ServerHasMessage, ServerTakes, TicketInv, Answered
<1>1. \/ FailServerAfter(<<>>)
      \/ /\ FromClient.type = "clientHello"
         /\ \E o, v, k, e :
              ServerSends(<<>>, [srv EXCEPT !.hello = hello, !.outer = o, !.vers = v, !.keys = k,
                                   !.ech = e, !.pc = IF v = TLS13 THEN "process13" ELSE "process12"])
  BY Zenon DEF readClientHello, ServerChecks
<1>2. CASE FailServerAfter(<<>>)
  BY <1>0, <1>2, FailQuietLink
<1>3. ASSUME FromClient.type = "clientHello", NEW o, NEW v, NEW k, NEW e,
             ServerSends(<<>>, [srv EXCEPT !.hello = hello, !.outer = o, !.vers = v, !.keys = k,
                                  !.ech = e, !.pc = IF v = TLS13 THEN "process13" ELSE "process12"])
      PROVE  LinkInv'
  <2>1. CallTrue(FromClient)
    <3>1. FromClient \in Elements(toServer)
      BY <1>0, QueueTail DEF TicketInv, Hellos, FromClient
    <3> QED
      BY <3>1 DEF LinkInv, Called
  <2>2. cli.pc # "start" /\ Carries(hello)
    BY <1>0, <1>3, <2>1 DEF CallTrue, CarriesBoth, processECHClientHello
  <2> HIDE DEF hello
  <2>3. /\ srv'.pc = IF v = TLS13 THEN "process13" ELSE "process12"
        /\ srv'.vers = v /\ srv'.hello = hello /\ srv'.ems = srv.ems
        /\ srv'.didResume = srv.didResume /\ srv'.transcript = srv.transcript
        /\ srv'.curve = srv.curve /\ cli' = cli
    BY <1>0, <1>3 DEF ServerSends, ServerKeeps, ServerFields
  <2>4. Begins
    BY <1>0, <2>3 DEF Begins
  <2>5. ~srv.didResume
    BY <1>0 DEF TicketInv, Judged, Undecided
  <2>6. Stands'
    BY <1>0, <2>2, <2>3, <2>5 DEF LinkInv, Stands, ShMade, Carries
  <2> QED
    BY <1>0, <1>3, <2>4, <2>6, ServerQuietLink DEF LinkInv
<1> QED
  BY <1>1, <1>2, <1>3

\* processClientHello of TLS 1.2 makes the ServerHello.
LEMMA processClientHello12Link ==
  ASSUME TicketInv, LinkInv, processClientHello12
  PROVE  LinkInv'
<1> USE DEF Unsent, Unsent12, Before13, Sent12, Full12, Sent13
<1>0. srv.pc = "process12" /\ ServerTakes /\ DOMAIN srv = ServerFields
  BY DEF processClientHello12, ServerTakes, TicketInv, Answered
<1>1. CASE FailServerAfter(<<>>)
  BY <1>0, <1>1, FailQuietLink
<1>2. ASSUME NEW c, NEW a, NEW n, NEW w, NEW e,
             ServerSends(<<>>, [srv EXCEPT !.cert = c, !.alpn = a, !.serverName = n,
                                           !.sh = LegacyServerHello(srv.vers, w, e, a),
                                           !.pc = "checkForResumption12"])
      PROVE  LinkInv'
  <2> DEFINE sh == LegacyServerHello(srv.vers, w, e, a)
  <2>1. /\ sh.vers = srv.vers /\ sh.supportedVersion = 0 /\ sh.hrr = FALSE /\ sh.alpn = a
        /\ sh.sessionIdEcho = FALSE /\ sh.echAccept = None
    BY DEF LegacyServerHello
  <2> HIDE DEF sh
  <2>2. /\ srv'.pc = "checkForResumption12" /\ srv'.vers = srv.vers /\ srv'.hello = srv.hello
        /\ srv'.ems = srv.ems /\ srv'.didResume = srv.didResume /\ srv'.sh = sh /\ srv'.alpn = a
        /\ srv'.transcript = srv.transcript /\ srv'.curve = srv.curve /\ srv'.suite = srv.suite
        /\ srv'.session = srv.session /\ srv'.ech = srv.ech /\ cli' = cli
    BY <1>0, <1>2 DEF ServerSends, ServerKeeps, ServerFields, sh
  <2>3. Begins
    BY <1>0, <2>2 DEF Begins
  <2>4. Stands'
    BY <1>0, <2>1, <2>2 DEF LinkInv, Stands, ShMade, Carries, Version
  <2> QED
    BY <1>0, <1>2, <2>3, <2>4, ServerQuietLink DEF LinkInv
<1> QED
  BY <1>1, <1>2, Zenon DEF processClientHello12, ServerChecks

\* checkForResumption of TLS 1.2: the session is the one in the ticket that
\* the client offered.
LEMMA checkForResumption12Link ==
  ASSUME TicketInv, LinkInv, checkForResumption12
  PROVE  LinkInv'
<1> USE DEF Unsent, Unsent12, Before13, Sent12, Full12, Sent13
<1> DEFINE s == IF srv.conf.ticketsDisabled THEN None ELSE decryptTicket(srv.hello.sessionTicket)
           full == [srv EXCEPT !.pc = "pickCipherSuite12"]
           resumed == [srv EXCEPT !.pc = "doResumeHandshake12", !.session = s, !.didResume = TRUE,
                         !.suite = s.suite, !.peer = s.peer, !.verified = s.verified,
                         !.ems = s.ems, !.curve = s.curve]
<1>0. srv.pc = "checkForResumption12" /\ ServerTakes /\ DOMAIN srv = ServerFields
  BY DEF TicketInv, Answered, checkForResumption12, ServerTakes
<1>1. \/ FailServerAfter(<<>>)
      \/ ServerSends(<<>>, full)
      \/ s # None /\ ServerSends(<<>>, resumed)
  BY Zenon DEF checkForResumption12, ServerChecks, Resumable12
<1>2. s # None => cli.session # None /\ s = cli.session.ticket.state
  BY <1>0 DEF decryptTicket, LinkInv, Stands, Carries
<1> HIDE DEF s
<1>3. CASE FailServerAfter(<<>>)
  BY <1>0, <1>3, FailQuietLink
<1>4. CASE ServerSends(<<>>, full)
  <2>2. /\ srv'.pc = "pickCipherSuite12" /\ srv'.vers = srv.vers /\ srv'.hello = srv.hello
        /\ srv'.ems = srv.ems /\ srv'.didResume = srv.didResume /\ srv'.sh = srv.sh
        /\ srv'.alpn = srv.alpn /\ srv'.suite = srv.suite
        /\ srv'.transcript = srv.transcript /\ srv'.curve = srv.curve
        /\ srv'.session = srv.session /\ srv'.ech = srv.ech /\ cli' = cli
    BY <1>0, <1>4 DEF ServerSends, ServerKeeps, ServerFields
  <2>3. Begins
    BY <1>0, <2>2 DEF Begins
  <2>4. Stands'
    BY <1>0, <2>2 DEF LinkInv, Stands, ShMade, Carries
  <2> QED
    BY <1>0, <1>4, <2>3, <2>4, ServerQuietLink DEF LinkInv
<1>5. CASE s # None /\ ServerSends(<<>>, resumed)
  <2>2. /\ srv'.pc = "doResumeHandshake12" /\ srv'.vers = srv.vers /\ srv'.hello = srv.hello
        /\ srv'.ems = s.ems /\ srv'.didResume = TRUE /\ srv'.sh = srv.sh /\ srv'.alpn = srv.alpn
        /\ srv'.transcript = srv.transcript /\ srv'.curve = s.curve
        /\ srv'.session = s /\ srv'.ech = srv.ech /\ cli' = cli
    BY <1>0, <1>5 DEF ServerSends, ServerKeeps, ServerFields
  <2>3. Begins
    BY <1>0, <2>2 DEF Begins
  <2>4. cli.pc # "start"
    BY <1>0 DEF LinkInv, Stands
  <2>5. Stands'
    BY <1>0, <1>2, <1>5, <2>2, <2>4, ZenonT(60) DEF LinkInv, Stands, ShMade, Carries
  <2> QED
    BY <1>0, <1>5, <2>3, <2>5, ServerQuietLink DEF LinkInv
<1> QED
  BY <1>1, <1>3, <1>4, <1>5

\* The suite of a full handshake of TLS 1.2.
LEMMA pickCipherSuite12Link ==
  ASSUME TicketInv, LinkInv, pickCipherSuite12
  PROVE  LinkInv'
<1> USE DEF Unsent, Unsent12, Before13, Sent12, Full12, Sent13
<1>0. srv.pc = "pickCipherSuite12" /\ ServerTakes /\ DOMAIN srv = ServerFields
  BY DEF TicketInv, Answered, pickCipherSuite12, ServerTakes
<1>1. CASE FailServerAfter(<<>>)
  BY <1>0, <1>1, FailQuietLink
<1>2. ASSUME NEW u, ServerSends(<<>>, [srv EXCEPT !.suite = u, !.pc = "sendFlight12"])
      PROVE  LinkInv'
  <2>2. /\ srv'.pc = "sendFlight12" /\ srv'.vers = srv.vers /\ srv'.hello = srv.hello
        /\ srv'.ems = srv.ems /\ srv'.didResume = srv.didResume /\ srv'.sh = srv.sh
        /\ srv'.alpn = srv.alpn /\ srv'.transcript = srv.transcript /\ srv'.curve = srv.curve
        /\ srv'.session = srv.session /\ srv'.ech = srv.ech /\ cli' = cli
    BY <1>0, <1>2 DEF ServerSends, ServerKeeps, ServerFields
  <2>3. Begins
    BY <1>0, <2>2 DEF Begins
  <2>4. Stands'
    BY <1>0, <2>2 DEF LinkInv, Stands, ShMade, Carries
  <2> QED
    BY <1>0, <1>2, <2>3, <2>4, ServerQuietLink DEF LinkInv
<1> QED
  BY <1>1, <1>2, Zenon DEF pickCipherSuite12, ServerChecks

\* The abbreviated handshake of TLS 1.2.
LEMMA doResumeHandshake12Link ==
  ASSUME TicketInv, LinkInv, doResumeHandshake12
  PROVE  LinkInv'
<1> USE DEF Unsent, Unsent12, Before13, Sent12, Full12, Sent13
<1> DEFINE sh == [srv.sh EXCEPT !.suite = srv.suite, !.sessionIdEcho = TRUE, !.ticketSupported = TRUE]
           ticket == NewSessionTicket(srv.session.secret)
           hellos == <<srv.hello, sh>>
           finished == Finished(srv.session.secret, "server", Append(hellos, ticket))
           seen == transcriptMsg(hellos, <<ticket, finished>>)
           flight == <<sh, ticket, finished>>
<1>0. srv.pc = "doResumeHandshake12" /\ ServerTakes /\ DOMAIN srv = ServerFields
  BY DEF TicketInv, Answered, doResumeHandshake12, ServerTakes
<1>1. \E u : ServerSends(flight, [srv EXCEPT !.sh = sh, !.secret = u, !.pc = "readFinished12",
                                             !.transcript = seen])
  BY Zenon DEF doResumeHandshake12
<1>2. IsSequence(seen) /\ seen # <<>>
  <2>1. IsSequence(hellos) /\ hellos # <<>> /\ IsSequence(<<ticket, finished>>)
    BY Sequences2
  <2> HIDE DEF hellos, ticket, finished
  <2> QED
    BY <2>1, TranscriptMsg
<1>3. /\ sh.type = "serverHello" /\ sh.suite = srv.suite /\ sh.sessionIdEcho = TRUE
      /\ sh.hrr = srv.sh.hrr /\ sh.vers = srv.sh.vers /\ sh.alpn = srv.sh.alpn
      /\ sh.supportedVersion = srv.sh.supportedVersion /\ sh.echAccept = srv.sh.echAccept
  BY <1>0 DEF TicketInv, Answered, ShMade, ServerHelloFields
<1>4. /\ ticket.type = "newSessionTicket" /\ finished.type = "finished"
      /\ ticket.ticket.state.version = srv.vers /\ ticket.ticket.state.suite = srv.suite
      /\ ticket.ticket.state.ems = srv.ems /\ ticket.ticket.state.alpn = srv.alpn
      /\ ticket.ticket.state.curve = srv.curve
      /\ ticket.ticket.state.secret = srv.session.secret
  BY DEF NewSessionTicket, Finished
<1>5. InOrder(flight) /\ IsSequence(flight) /\ Elements(flight) \subseteq {sh, ticket, finished}
  <2> HIDE DEF sh, ticket, finished
  <2>1. IsSequence(flight) /\ Elements(flight) \subseteq {sh, ticket, finished}
    BY Sequences2
  <2>2. DOMAIN flight = 1..3 /\ flight[1] = sh /\ flight[2] = ticket /\ flight[3] = finished
    OBVIOUS
  <2>3. InOrder(flight)
    BY <1>3, <1>4, <2>2 DEF InOrder
  <2> QED
    BY <2>1, <2>3
<1> HIDE DEF flight, seen, hellos, ticket, finished, sh
<1> PICK u : ServerSends(flight, [srv EXCEPT !.sh = sh, !.secret = u, !.pc = "readFinished12",
                                             !.transcript = seen])
  BY <1>1
<1>6. /\ srv'.pc = "readFinished12" /\ srv'.vers = srv.vers /\ srv'.hello = srv.hello
      /\ srv'.ems = srv.ems /\ srv'.didResume = srv.didResume /\ srv'.sh = sh
      /\ srv'.alpn = srv.alpn /\ srv'.transcript = seen /\ srv'.curve = srv.curve
      /\ srv'.session = srv.session /\ srv'.ech = srv.ech /\ srv'.suite = srv.suite
      /\ cli' = cli
  BY <1>0 DEF ServerSends, ServerKeeps, ServerFields
<1>7. srv.didResume = TRUE /\ srv.vers # TLS13
  BY <1>0 DEF LinkInv, Stands
<1>8. ASSUME NEW m \in {sh, ticket, finished} PROVE ReplyTrue(m)'
  <2>1. CASE m = sh
    BY <1>0, <1>3, <1>6, <1>7, <2>1, ZenonT(60)
    DEF LinkInv, Stands, ShMade, ReplyTrue, Told, Said, Version
  <2>2. CASE m = ticket
    BY <1>4, <1>6, <1>7, <2>2 DEF ReplyTrue, Issued, Halted
  <2>3. CASE m = finished
    BY <1>4, <1>6, <1>7, <2>3 DEF ReplyTrue, Sealing, Halted
  <2> QED
    BY <2>1, <2>2, <2>3
<1>9. Heard' /\ Called' /\ Matched' /\ Follows'
  <2>1. Begins
    BY <1>0, <1>6 DEF Begins
  <2>2. NoFinished(toClient) /\ ~(cli.pc = "complete" /\ cli.vers # TLS13)
    BY <1>0, NothingSent DEF Behind12
  <2> QED
    BY <1>0, <1>5, <1>8, <2>1, <2>2, ServerSendsLink
<1>10. Stands'
  BY <1>0, <1>2, <1>6, <1>7 DEF LinkInv, Stands, ShMade
<1> QED
  BY <1>9, <1>10 DEF LinkInv

\* The first flight of a full handshake of TLS 1.2.
LEMMA sendFlight12Link ==
  ASSUME TicketInv, LinkInv, sendFlight12
  PROVE  LinkInv'
<1> USE DEF Unsent, Unsent12, Before13, Sent12, Full12, Sent13
<1> DEFINE sh == [srv.sh EXCEPT !.suite = srv.suite, !.ocspStapling = srv.cert.staple,
                    !.ticketSupported = srv.hello.ticketSupported /\ ~srv.conf.ticketsDisabled]
           cert == Certificate(srv.cert)
           stapled == [type |-> "certificateStatus"]
           status == IF srv.cert.staple THEN <<stapled>> ELSE <<>>
           start == <<sh, cert>> \o status
           ecdhe == "ECDHE" \in Flags(srv.suite)
           key == [type |-> "serverKeyExchange", curve |-> keyExchangeCurve,
                   alg |-> keyExchangeAlg, signer |-> srv.cert]
           exchange == IF ~ecdhe THEN <<>> ELSE <<key>>
           asks == srv.conf.clientAuth >= RequestClientCert
           ask == CertificateRequest(srv.vers, srv.conf)
           request == IF asks THEN <<ask>> ELSE <<>>
           done == [type |-> "serverHelloDone"]
           rest == request \o <<done>>
           flight == start \o exchange \o rest
           seen == <<srv.hello>> \o flight
           curve == IF ecdhe THEN keyExchangeCurve ELSE srv.curve
           place == IF asks THEN "readCertificate12" ELSE "readKeyExchange12"
<1>0. srv.pc = "sendFlight12" /\ ServerTakes /\ DOMAIN srv = ServerFields
  BY DEF TicketInv, Answered, sendFlight12, ServerTakes
<1>1. \/ FailServerAfter(start)
      \/ ServerSends(flight, [srv EXCEPT !.sh = sh, !.transcript = seen, !.curve = curve,
                                         !.pc = place])
  BY Zenon DEF sendFlight12
<1>2. /\ sh.type = "serverHello" /\ sh.suite = srv.suite /\ sh.sessionIdEcho = srv.sh.sessionIdEcho
      /\ sh.hrr = srv.sh.hrr /\ sh.vers = srv.sh.vers /\ sh.alpn = srv.sh.alpn
      /\ sh.supportedVersion = srv.sh.supportedVersion /\ sh.echAccept = srv.sh.echAccept
  BY <1>0 DEF TicketInv, Answered, ShMade, ServerHelloFields
<1>3. /\ cert.type = "certificate" /\ cert.cert = srv.cert /\ stapled.type = "certificateStatus"
      /\ key.type = "serverKeyExchange" /\ key.curve = keyExchangeCurve
      /\ ask.type = "certificateRequest" /\ done.type = "serverHelloDone"
  BY DEF Certificate, CertificateRequest
<1>4. srv.didResume = FALSE /\ srv.vers # TLS13 /\ srv.transcript = <<>>
  BY <1>0 DEF LinkInv, Stands, TicketInv, Judged, Undecided
<1>5. /\ Version(sh) = srv.vers /\ ~sh.hrr /\ sh.alpn = srv.alpn /\ sh.sessionIdEcho = FALSE
      /\ sh.echAccept = None
  BY <1>0, <1>2 DEF LinkInv, Stands, ShMade, Version
<1>50. place \in {"readCertificate12", "readKeyExchange12"}
  OBVIOUS
<1> HIDE DEF sh, cert, stapled, key, ask, done, ecdhe, asks, place
<1>6. /\ IsSequence(status) /\ Elements(status) \subseteq {stapled}
      /\ IsSequence(exchange) /\ \A m \in Elements(exchange) : ecdhe /\ m = key
      /\ IsSequence(request) /\ Elements(request) \subseteq {ask}
      /\ IsSequence(<<done>>) /\ Elements(<<done>>) \subseteq {done}
      /\ IsSequence(<<sh, cert>>) /\ Elements(<<sh, cert>>) \subseteq {sh, cert}
  BY QueueOne, QueueNone, Sequences2 DEF IsSequence
<1> HIDE DEF status, exchange, request
<1>7. IsSequence(start) /\ Elements(start) \subseteq {sh, cert, stapled}
  BY <1>6, QueueConcat DEF IsSequence
<1>8. IsSequence(rest) /\ Elements(rest) \subseteq {ask, done}
  BY <1>6, QueueConcat DEF IsSequence
<1> HIDE DEF start, rest
<1>9. /\ IsSequence(flight)
      /\ \A m \in Elements(flight) : m \in {sh, cert, stapled, ask, done} \/ (ecdhe /\ m = key)
  <2>1. /\ IsSequence(start \o exchange)
        /\ \A m \in Elements(start \o exchange) : m \in {sh, cert, stapled} \/ (ecdhe /\ m = key)
    BY <1>6, <1>7, QueueConcat DEF IsSequence
  <2> QED
    BY <1>8, <2>1, QueueConcat DEF IsSequence
<1> HIDE DEF flight
<1>10. IsSequence(seen) /\ seen # <<>>
  BY <1>9, Sequences1, NonEmpty
<1> HIDE DEF seen
<1>11. NoTicket(start) /\ NoTicket(flight)
  BY <1>2, <1>3, <1>7, <1>9 DEF NoTicket
<1>12. CASE FailServerAfter(start)
  <2>1. /\ srv'.pc = "failed" /\ srv'.vers = srv.vers /\ srv'.cert = srv.cert
        /\ srv'.transcript = srv.transcript
    BY <1>0, <1>12 DEF FailServerAfter, ServerSends, ServerKeeps, ServerFields
  <2>2. ASSUME NEW m \in {sh, cert, stapled} PROVE ReplyTrue(m)'
    BY <1>2, <1>3, <1>4, <1>5, <2>1 DEF ReplyTrue, Told, Halted, Version
  <2> QED
    BY <1>0, <1>7, <1>11, <1>12, <2>2, FailServerLink
<1>13. CASE ServerSends(flight, [srv EXCEPT !.sh = sh, !.transcript = seen, !.curve = curve,
                                            !.pc = place])
  <2>1. /\ srv'.pc = place /\ srv'.vers = srv.vers /\ srv'.hello = srv.hello
        /\ srv'.ems = srv.ems /\ srv'.didResume = srv.didResume /\ srv'.sh = sh
        /\ srv'.alpn = srv.alpn /\ srv'.transcript = seen /\ srv'.curve = curve
        /\ srv'.session = srv.session /\ srv'.ech = srv.ech /\ srv'.suite = srv.suite
        /\ srv'.cert = srv.cert /\ cli' = cli
    BY <1>0, <1>13 DEF ServerSends, ServerKeeps, ServerFields
  <2>2. ASSUME NEW m \in {sh, cert, stapled, ask, done} PROVE ReplyTrue(m)'
    BY <1>2, <1>3, <1>4, <1>5, <1>50, <2>1, ZenonT(60) DEF ReplyTrue, Told, Halted, Said, Version
  <2>3. ASSUME ecdhe, NEW m, m = key PROVE ReplyTrue(m)'
    BY <1>3, <1>50, <2>1, <2>3 DEF ReplyTrue, Halted
  <2>4. \A msg \in Elements(flight) : ReplyTrue(msg)'
    BY <1>9, <2>2, <2>3
  <2>5. Begins
    BY <1>0, <1>50, <2>1 DEF Begins
  <2>6. Heard' /\ Called' /\ Matched' /\ Follows'
    BY <1>0, <1>9, <1>11, <1>13, <2>4, <2>5, ServerSendsLink
  <2>7. Stands'
    <3>1. curve = None \/ "ECDHE" \in Flags(srv.suite)
      BY <1>0, <1>4 DEF LinkInv, Stands, ecdhe
    <3> HIDE DEF curve
    <3> QED
      BY <1>0, <1>4, <1>10, <1>50, <2>1, <3>1 DEF LinkInv, Stands, ShMade
  <2> QED
    BY <2>6, <2>7 DEF LinkInv
<1> QED
  BY <1>1, <1>12, <1>13

\* A server that has read a message of the client's second flight.
ReadsOn ==
  /\ Persists
  /\ IsSequence(srv'.transcript) /\ srv'.transcript # <<>> /\ UNCHANGED cli
  /\ \/ /\ srv.pc \in Full12
        /\ srv'.pc \in {"readKeyExchange12", "readCertificateVerify12", "readFinished12"}
        /\ srv'.pc # "readKeyExchange12" => srv'.ems = srv.sh.ems
     \/ /\ srv.pc \in {"readCertificate13", "readCertificateVerify13"}
        /\ srv'.pc \in {"readCertificateVerify13", "sendTickets13"}

LEMMA ReadsOnLink ==
  ASSUME TicketInv, LinkInv, NEW new, ServerSends(<<>>, new), ServerTakes, ReadsOn
  PROVE  LinkInv'
<1>1. Heard' /\ Called' /\ Matched' /\ Follows'
  BY ServerQuietLink DEF ReadsOn
<1>2. Stands'
  BY DEF ReadsOn, Persists, LinkInv, Stands, ShMade, Unsent, Unsent12, Before13, Sent12, Full12,
         Sent13
<1> QED
  BY <1>1, <1>2 DEF LinkInv

\* The messages of the client's second flight, but for its Finished.
LEMMA ServerReadsLink ==
  ASSUME TicketInv, LinkInv,
         \/ ServerReadCertificate12 \/ ReadClientKeyExchange12 \/ ServerReadCertificateVerify12
         \/ ServerReadCertificate13 \/ ServerReadCertificateVerify13
  PROVE  LinkInv'
<1> USE DEF Unsent, Unsent12, Before13, Sent12, Full12, Sent13
<1>0. DOMAIN srv = ServerFields
  BY DEF TicketInv, Answered
<1>00. ServerTakes /\ srv.pc \in Full12 \cup {"readCertificate13", "readCertificateVerify13"}
  BY DEF ServerTakes, ServerReadCertificate12, ReadClientKeyExchange12,
         ServerReadCertificateVerify12, ServerReadCertificate13, ServerReadCertificateVerify13,
         ServerReads, ServerHasMessage
<1> DEFINE seen == transcriptMsg(srv.transcript, <<FromClient>>)
           hashed == Append(srv.transcript, FromClient)
<1>01. /\ IsSequence(seen) /\ seen # <<>>
       /\ IsSequence(hashed) /\ hashed # <<>>
  <2>1. IsSequence(srv.transcript) /\ srv.transcript # <<>>
    BY <1>00 DEF LinkInv, Stands
  <2>2. hashed = srv.transcript \o <<FromClient>>
    BY <2>1 DEF IsSequence
  <2> QED
    BY <2>1, <2>2, TranscriptMsg, Sequences1, NonEmpty
<1> HIDE DEF seen, hashed
<1> SUFFICES FailServerAfter(<<>>) \/ (ReadsOn /\ \E new : ServerSends(<<>>, new))
  BY <1>00, FailQuietLink, ReadsOnLink
<1>1. CASE ServerReadCertificate12
  <2>1. /\ srv.pc = "readCertificate12"
        /\ \/ FailServerAfter(<<>>)
           \/ \E c, v : ServerSends(<<>>,
                          [[srv EXCEPT !.peer = c, !.verified = v, !.transcript = seen]
                             EXCEPT !.pc = "readKeyExchange12"])
    BY <1>1, Zenon DEF ServerReadCertificate12, ServerReads, ServerChecks, WithClientCert, seen
  <2>2. ASSUME NEW c, NEW v,
               ServerSends(<<>>, [[srv EXCEPT !.peer = c, !.verified = v, !.transcript = seen]
                                    EXCEPT !.pc = "readKeyExchange12"])
        PROVE  ReadsOn
    BY <1>0, <1>01, <2>1, <2>2 DEF ReadsOn, Persists, ServerSends, ServerKeeps, ServerFields
  <2> QED
    BY <2>1, <2>2
<1>2. CASE ReadClientKeyExchange12
  <2>1. /\ srv.pc = "readKeyExchange12"
        /\ \/ FailServerAfter(<<>>)
           \/ \E u, l :
                /\ l \in {"readFinished12", "readCertificateVerify12"}
                /\ ServerSends(<<>>, [srv EXCEPT !.transcript = hashed, !.ems = srv.sh.ems,
                                                 !.secret = u, !.pc = l])
    BY <1>2, Zenon DEF ReadClientKeyExchange12, ServerReads, ServerChecks, hashed
  <2>2. ASSUME NEW u, NEW l \in {"readFinished12", "readCertificateVerify12"},
               ServerSends(<<>>, [srv EXCEPT !.transcript = hashed, !.ems = srv.sh.ems,
                                             !.secret = u, !.pc = l])
        PROVE  ReadsOn
    BY <1>0, <1>01, <2>1, <2>2
    DEF ReadsOn, Persists, ServerSends, ServerKeeps, ServerFields, LinkInv, Stands
  <2> QED
    BY <2>1, <2>2
<1>3. CASE ServerReadCertificateVerify12
  <2>1. /\ srv.pc = "readCertificateVerify12"
        /\ \/ FailServerAfter(<<>>)
           \/ ServerSends(<<>>, [srv EXCEPT !.transcript = seen, !.pc = "readFinished12"])
    BY <1>3, Zenon DEF ServerReadCertificateVerify12, ServerReads, ServerChecks, seen
  <2>2. ASSUME ServerSends(<<>>, [srv EXCEPT !.transcript = seen, !.pc = "readFinished12"])
        PROVE  ReadsOn
    BY <1>0, <1>01, <2>1, <2>2
    DEF ReadsOn, Persists, ServerSends, ServerKeeps, ServerFields, LinkInv, Stands
  <2> QED
    BY <2>1, <2>2
<1>4. CASE ServerReadCertificate13
  <2>1. /\ srv.pc = "readCertificate13"
        /\ \/ FailServerAfter(<<>>)
           \/ \E c, v, l :
                /\ l \in {"sendTickets13", "readCertificateVerify13"}
                /\ ServerSends(<<>>,
                     [[srv EXCEPT !.peer = c, !.verified = v, !.transcript = seen] EXCEPT !.pc = l])
    BY <1>4, Zenon DEF ServerReadCertificate13, ServerReads, ServerChecks, WithClientCert, seen
  <2>2. ASSUME NEW c, NEW v, NEW l \in {"sendTickets13", "readCertificateVerify13"},
               ServerSends(<<>>,
                 [[srv EXCEPT !.peer = c, !.verified = v, !.transcript = seen] EXCEPT !.pc = l])
        PROVE  ReadsOn
    BY <1>0, <1>01, <2>1, <2>2 DEF ReadsOn, Persists, ServerSends, ServerKeeps, ServerFields
  <2> QED
    BY <2>1, <2>2
<1>5. CASE ServerReadCertificateVerify13
  <2>1. /\ srv.pc = "readCertificateVerify13"
        /\ \/ FailServerAfter(<<>>)
           \/ ServerSends(<<>>, [srv EXCEPT !.transcript = seen, !.pc = "sendTickets13"])
    BY <1>5, Zenon DEF ServerReadCertificateVerify13, ServerReads, ServerChecks, seen
  <2>2. ASSUME ServerSends(<<>>, [srv EXCEPT !.transcript = seen, !.pc = "sendTickets13"])
        PROVE  ReadsOn
    BY <1>0, <1>01, <2>1, <2>2 DEF ReadsOn, Persists, ServerSends, ServerKeeps, ServerFields
  <2> QED
    BY <2>1, <2>2
<1> QED
  BY <1>1, <1>2, <1>3, <1>4, <1>5

\* A Finished of the client that a server waits for is that of a client which
\* has seen what the server has seen.
LEMMA ClientProved ==
  ASSUME TicketInv, LinkInv, toServer # <<>>,
         FromClient.type = "finished", ~Halted, srv.pc \notin Unsent,
         srv.vers = TLS13 \/ srv.didResume
  PROVE  \/ cli.pc = "failed"
         \/ cli.pc = "complete" /\ cli.transcript = FromClient.over \o <<Mark("client")>>
<1>1. FromClient \in Elements(toServer)
  BY QueueTail DEF TicketInv, Hellos, FromClient
<1>2. Proves(FromClient)
  BY <1>1 DEF LinkInv, Called, CallTrue
<1> SUFFICES ASSUME cli.pc # "failed"
             PROVE  cli.vers = TLS13 \/ cli.didResume
  BY <1>2 DEF Proves
<1>3. cli.vers = srv.vers /\ Told(cli.sh)
  BY <1>2 DEF Proves, LinkInv, Follows, Informed, Places12
<1>4. CASE srv.vers # TLS13
  <2>1. Follows12
    BY <1>2, <1>3, <1>4 DEF Proves, LinkInv, Follows, Behind12, Late12, Places12
  <2> QED
    BY <1>3, <1>4, <2>1 DEF Follows12, Told, Said
<1> QED
  BY <1>3, <1>4

\* A ticket of a server behind its ServerHello is of this connection.
LEMMA TicketIssued ==
  ASSUME NEW secret, NEW m, m = NewSessionTicket(secret), conns' = conns,
         srv'.vers = srv.vers, srv'.suite = srv.suite, srv'.ems = srv.ems, srv'.alpn = srv.alpn,
         srv'.curve = srv.curve, srv'.didResume = srv.didResume,
         srv'.pc \notin Unsent, srv'.pc # "failed", srv.vers # TLS13 => srv'.pc = "complete",
         secret = conns, srv.vers = TLS13 \/ ~srv.didResume
  PROVE  ReplyTrue(m)' /\ m.type = "newSessionTicket" /\ Hashed(m) = m
<1>1. /\ m.type = "newSessionTicket"
      /\ m.ticket.state.version = srv.vers /\ m.ticket.state.suite = srv.suite
      /\ m.ticket.state.ems = srv.ems /\ m.ticket.state.alpn = srv.alpn
      /\ m.ticket.state.curve = srv.curve /\ m.ticket.state.secret = secret
  BY DEF NewSessionTicket
<1> QED
  BY <1>1 DEF ReplyTrue, Issued, Halted, Hashed

\* A ticket and a Finished behind a transcript.
LEMMA LastFlight ==
  ASSUME NEW t, NEW ticket, NEW finished, IsSequence(t), Hashed(ticket) = ticket,
         Hashed(finished) = Mark("server")
  PROVE  /\ transcriptMsg(t, Append(<<>>, finished)) = (t \o <<>>) \o <<Mark("server")>>
         /\ transcriptMsg(t, Append(<<ticket>>, finished)) = (t \o <<ticket>>) \o <<Mark("server")>>
<1>1. t \o <<>> = t
  BY DEF IsSequence
<1>2. Append(<<>>, finished) = <<finished>> /\ Append(<<ticket>>, finished) = <<ticket, finished>>
  BY AppendTwo
<1>3. transcriptMsg(t, <<finished>>) = t \o <<Mark("server")>>
  BY TranscriptMsg
<1>4. [i \in DOMAIN <<ticket, finished>> |-> Hashed(<<ticket, finished>>[i])]
        = <<ticket, Mark("server")>>
  <2>1. /\ DOMAIN <<ticket, finished>> = {1, 2}
        /\ <<ticket, finished>>[1] = ticket /\ <<ticket, finished>>[2] = finished
    OBVIOUS
  <2> QED
    BY <2>1
<1>5. t \o <<ticket, Mark("server")>> = (t \o <<ticket>>) \o <<Mark("server")>>
  <2> DEFINE a == Mark("server")
             S == Elements(t) \cup {ticket, a}
  <2>1. t \in Seq(S) /\ ticket \in S /\ a \in S
    BY DEF IsSequence
  <2> HIDE DEF S, a
  <2> QED
    BY <2>1 DEF a
<1> QED
  BY <1>1, <1>2, <1>3, <1>4, <1>5 DEF transcriptMsg

\* The client's Finished in TLS 1.2.
LEMMA ServerReadFinished12Link ==
  ASSUME TicketInv, LinkInv, ServerReadFinished12
  PROVE  LinkInv'
<1> USE DEF Unsent, Unsent12, Before13, Sent12, Full12, Sent13
<1> DEFINE seen == transcriptMsg(srv.transcript, <<FromClient>>)
           tick == NewSessionTicket(conns)
           ticket == IF srv.sh.ticketSupported THEN <<tick>> ELSE <<>>
           finished == Finished(srv.secret, "server", seen \o ticket)
           flight == IF srv.didResume THEN <<>> ELSE Append(ticket, finished)
           last == transcriptMsg(seen, flight)
<1>0. /\ srv.pc = "readFinished12" /\ ServerTakes /\ toServer # <<>>
      /\ DOMAIN srv = ServerFields
  BY DEF TicketInv, Answered, ServerReadFinished12, ServerReads, ServerHasMessage, ServerTakes
<1>1. \/ FailServerAfter(<<>>)
      \/ /\ FromClient = Finished(srv.secret, "client", srv.transcript)
         /\ ServerSends(flight, [srv EXCEPT !.transcript = last, !.pc = "complete"])
  BY Zenon DEF ServerReadFinished12
<1>2. CASE FailServerAfter(<<>>)
  BY <1>0, <1>2, FailQuietLink
<1>3. CASE /\ FromClient = Finished(srv.secret, "client", srv.transcript)
           /\ ServerSends(flight, [srv EXCEPT !.transcript = last, !.pc = "complete"])
  <2>1. FromClient.type = "finished" /\ FromClient.over = srv.transcript
    BY <1>3 DEF Finished
  <2>2. seen = srv.transcript \o <<Mark("client")>>
    BY <1>3, TranscriptMsg, FinishedMark, SMTT(40)
  <2>3. /\ IsSequence(srv.transcript) /\ IsSequence(seen) /\ srv.vers # TLS13
        /\ srv.didResume \in BOOLEAN
    BY <1>0, <2>2, Sequences1 DEF LinkInv, Stands
  <2>4. Hashed(finished) = Mark("server") /\ finished.type = "finished" /\ finished.over = seen \o ticket
    BY FinishedMark DEF Finished
  <2>5. Hashed(tick) = tick /\ tick.type = "newSessionTicket"
    BY DEF Hashed, NewSessionTicket
  <2> HIDE DEF seen, tick, finished
  <2>6. /\ srv.didResume => flight = <<>> /\ last = seen
        /\ ~srv.didResume => last = finished.over \o <<Mark("server")>>
    <3>1. CASE srv.didResume
      BY <2>3, <3>1, TranscriptMsg
    <3>2. CASE ~srv.didResume /\ ~srv.sh.ticketSupported
      <4>1. last = transcriptMsg(seen, Append(<<>>, finished)) /\ finished.over = seen \o <<>>
        BY <2>4, <3>2
      <4> QED
        BY <2>3, <2>4, <2>5, <3>2, <4>1, LastFlight
    <3>3. CASE ~srv.didResume /\ srv.sh.ticketSupported
      <4>1. last = transcriptMsg(seen, Append(<<tick>>, finished)) /\ finished.over = seen \o <<tick>>
        BY <2>4, <3>3
      <4>2. transcriptMsg(seen, Append(<<tick>>, finished)) = (seen \o <<tick>>) \o <<Mark("server")>>
        BY <2>3, <2>4, <2>5, LastFlight
      <4>3. last = finished.over \o <<Mark("server")>>
        BY <4>1, <4>2, Zenon
      <4> QED
        BY <3>3, <4>3
    <3> QED
      BY <3>1, <3>2, <3>3
  <2>7. /\ IsSequence(flight) /\ IsSequence(last) /\ InOrder(flight)
        /\ \A m \in Elements(flight) : ~srv.didResume /\ m \in {tick, finished}
    <3>1. CASE srv.didResume
      BY <2>3, <2>6, <3>1, QueueNone DEF IsSequence, InOrder
    <3>2. CASE ~srv.didResume /\ ~srv.sh.ticketSupported
      <4>1. flight = <<finished>>
        BY <3>2
      <4>2. InOrder(flight)
        BY <4>1 DEF InOrder
      <4> QED
        BY <2>3, <3>2, <4>1, <4>2, QueueOne, TranscriptMsg, ZenonT(60) DEF IsSequence
    <3>3. CASE ~srv.didResume /\ srv.sh.ticketSupported
      <4>1. flight = <<tick, finished>>
        BY <3>3, AppendTwo
      <4>2. InOrder(flight)
        <5>1. DOMAIN flight = 1..2 /\ flight[1] = tick /\ flight[2] = finished
          BY <4>1
        <5> QED
          BY <2>5, <5>1 DEF InOrder
      <4>3. IsSequence(<<tick, finished>>) /\ Elements(<<tick, finished>>) \subseteq {tick, finished}
        BY Sequences2
      <4>4. IsSequence(transcriptMsg(seen, <<tick, finished>>))
        BY <2>3, <4>3, TranscriptMsg
      <4>5. last = transcriptMsg(seen, <<tick, finished>>)
        BY <4>1, Zenon
      <4> HIDE DEF last, flight
      <4> QED
        BY <3>3, <4>1, <4>2, <4>3, <4>4, <4>5
    <3> QED
      BY <3>1, <3>2, <3>3
  <2> HIDE DEF ticket, flight, last
  <2>8. /\ srv'.pc = "complete" /\ srv'.vers = srv.vers /\ srv'.hello = srv.hello
        /\ srv'.ems = srv.ems /\ srv'.didResume = srv.didResume /\ srv'.sh = srv.sh
        /\ srv'.alpn = srv.alpn /\ srv'.transcript = last /\ srv'.curve = srv.curve
        /\ srv'.session = srv.session /\ srv'.ech = srv.ech /\ srv'.suite = srv.suite
        /\ srv'.cert = srv.cert /\ cli' = cli /\ conns' = conns
    BY <1>0, <1>3 DEF ServerSends, ServerKeeps, ServerFields
  <2>9. Persists
    BY <1>0, <2>8 DEF Persists
  <2>10. ~srv.didResume => NoFinished(toClient) /\ ~(cli.pc = "complete" /\ cli.vers # TLS13)
    <3>1. ~Halted
      BY <1>0 DEF Halted
    <3>2. ~srv.didResume => NoFinished(toClient)
      BY <1>0, <2>3 DEF LinkInv, Heard, NoFinished, ReplyTrue, Sealing
    <3>3. ASSUME cli.pc = "complete", cli.vers # TLS13 PROVE srv.didResume
      <4>1. Follows12 /\ Told(cli.sh)
        BY <3>3 DEF LinkInv, Follows, Behind12, Informed
      <4> QED
        BY <1>0, <2>3, <3>1, <3>3, <4>1 DEF Follows12, Told, Said
    <3> QED
      BY <3>2, <3>3
  <2>11. ASSUME NEW m \in Elements(flight) PROVE ReplyTrue(m)'
    <3>1. CASE m = tick
      BY <2>3, <2>7, <2>8, <3>1, TicketIssued DEF tick
    <3>2. CASE m = finished
      BY <2>4, <2>6, <2>7, <2>8, <3>2 DEF ReplyTrue, Sealing, Halted
    <3> QED
      BY <2>7, <3>1, <3>2
  <2>12. Heard' /\ Called' /\ Matched' /\ Follows'
    <3>1. srv.didResume => NoTicket(flight)
      BY <2>7 DEF NoTicket
    <3> QED
      BY <1>0, <1>3, <2>7, <2>9, <2>10, <2>11, <3>1, ServerSendsLink
  <2>13. Stands'
    <3>1. ~Halted
      BY <1>0 DEF Halted
    <3>2. srv.didResume => cli.pc = "failed" \/ (cli.pc = "complete" /\ cli.transcript = last)
      BY <1>0, <2>1, <2>2, <2>6, <3>1, ClientProved
    <3> QED
      BY <1>0, <2>3, <2>7, <2>8, <3>2 DEF LinkInv, Stands, ShMade
  <2> QED
    BY <2>12, <2>13 DEF LinkInv
<1> QED
  BY <1>1, <1>2, <1>3

\* A step of TLS 1.3 before the ServerHello: whatever is chosen, nothing is said.
LEMMA Before13Link ==
  ASSUME TicketInv, LinkInv, srv.pc \in Before13, srv'.pc \in Before13, srv'.vers = srv.vers,
         srv'.ems = srv.ems, srv'.didResume \in BOOLEAN, srv'.ech = srv.ech,
         IsSequence(srv'.transcript), srv'.pc = "process13" => srv'.transcript = <<>>, cli' = cli
  PROVE  Begins /\ Stands'
<1>1. cli.pc # "start" /\ srv.vers = TLS13
  BY DEF LinkInv, Stands, Before13
<1>2. Begins
  BY DEF Begins, Unsent, Before13
<1>4. Stands'
  BY <1>1
  DEF LinkInv, Stands, ShMade, Unsent, Unsent12, Before13, Sent12, Full12, Sent13
<1> QED
  BY <1>2, <1>4

\* The steps before the ServerHello of TLS 1.3 that send nothing.
LEMMA Plain13Link ==
  ASSUME TicketInv, LinkInv,
         NegotiateProtocol13 \/ checkForResumption13 \/ pickCertificate13
  PROVE  LinkInv'
<1> USE DEF Unsent, Before13
<1>0. DOMAIN srv = ServerFields /\ ServerTakes
  BY DEF TicketInv, Answered, ServerTakes, NegotiateProtocol13, checkForResumption13,
         pickCertificate13
<1>1. CASE NegotiateProtocol13
  <2>1. /\ srv.pc = "negotiate13"
        /\ \/ FailServerAfter(<<>>)
           \/ \E a, n : ServerSends(<<>>, [srv EXCEPT !.alpn = a, !.serverName = n,
                                                      !.pc = "checkForResumption13"])
    BY <1>1, Zenon DEF NegotiateProtocol13, ServerChecks
  <2>2. ASSUME NEW a, NEW n,
               ServerSends(<<>>, [srv EXCEPT !.alpn = a, !.serverName = n,
                                             !.pc = "checkForResumption13"])
        PROVE  Begins /\ Stands'
    BY <1>0, <2>1, <2>2, Before13Link
    DEF ServerSends, ServerKeeps, ServerFields, LinkInv, Stands
  <2> QED
    BY <1>0, <2>1, <2>2, FailQuietLink, ServerQuietLink DEF LinkInv
<1>2. CASE checkForResumption13
  <2> DEFINE full == [srv EXCEPT !.pc = "pickCertificate13"]
  <2>1. /\ srv.pc = "checkForResumption13"
        /\ \/ FailServerAfter(<<>>)
           \/ ServerSends(<<>>, full)
           \/ \E s, p, v : ServerSends(<<>>, [full EXCEPT !.session = s, !.didResume = TRUE,
                                                          !.peer = p, !.verified = v])
    BY <1>2, Zenon DEF checkForResumption13, ServerChecks
  <2>2. ASSUME ServerSends(<<>>, full)
        PROVE  Begins /\ Stands'
    BY <1>0, <2>1, <2>2, Before13Link
    DEF ServerSends, ServerKeeps, ServerFields, LinkInv, Stands
  <2>3. ASSUME NEW s, NEW p, NEW v,
               ServerSends(<<>>, [full EXCEPT !.session = s, !.didResume = TRUE,
                                              !.peer = p, !.verified = v])
        PROVE  Begins /\ Stands'
    BY <1>0, <2>1, <2>3, Before13Link
    DEF ServerSends, ServerKeeps, ServerFields, LinkInv, Stands
  <2> HIDE DEF full
  <2> QED
    BY <1>0, <2>1, <2>2, <2>3, FailQuietLink, ServerQuietLink DEF LinkInv
<1>3. CASE pickCertificate13
  <2> DEFINE next == [srv EXCEPT !.pc = "sendParameters13"]
  <2>1. /\ srv.pc = "pickCertificate13"
        /\ \/ FailServerAfter(<<>>)
           \/ ServerSends(<<>>, next)
           \/ \E c, a : ServerSends(<<>>, [next EXCEPT !.cert = c, !.sigAlg = a])
    BY <1>3, Zenon DEF pickCertificate13, ServerChecks
  <2>2. ASSUME ServerSends(<<>>, next)
        PROVE  Begins /\ Stands'
    BY <1>0, <2>1, <2>2, Before13Link
    DEF ServerSends, ServerKeeps, ServerFields, LinkInv, Stands
  <2>3. ASSUME NEW c, NEW a, ServerSends(<<>>, [next EXCEPT !.cert = c, !.sigAlg = a])
        PROVE  Begins /\ Stands'
    BY <1>0, <2>1, <2>3, Before13Link
    DEF ServerSends, ServerKeeps, ServerFields, LinkInv, Stands
  <2> HIDE DEF next
  <2> QED
    BY <1>0, <2>1, <2>2, <2>3, FailQuietLink, ServerQuietLink DEF LinkInv
<1> QED
  BY <1>1, <1>2, <1>3

\* processClientHello of TLS 1.3, with or without a HelloRetryRequest.
LEMMA processClientHello13Link ==
  ASSUME TicketInv, LinkInv, processClientHello13
  PROVE  LinkInv'
<1> USE DEF Unsent, Before13
<1>0. srv.pc = "process13" /\ DOMAIN srv = ServerFields /\ ServerTakes
  BY DEF TicketInv, Answered, ServerTakes, processClientHello13
<1>1. \/ FailServerAfter(<<>>)
      \/ \E u, g : ServerSends(<<>>, [[srv EXCEPT !.suite = u, !.curve = g]
                                        EXCEPT !.pc = "negotiate13"])
      \/ \E u, g, a, hrr :
           /\ hrr = [ServerHello13 EXCEPT !.suite = u, !.hrr = TRUE, !.selectedGroup = g,
                                          !.echAccept = a]
           /\ srv.ech = None => a = None
           /\ ServerSends(<<hrr>>, [[srv EXCEPT !.suite = u, !.curve = g]
                                      EXCEPT !.transcript = <<srv.hello, hrr>>,
                                             !.pc = "readSecondHello13"])
  BY Zenon DEF processClientHello13
<1>2. CASE FailServerAfter(<<>>)
  BY <1>0, <1>2, FailQuietLink
<1>3. ASSUME NEW u, NEW g,
             ServerSends(<<>>, [[srv EXCEPT !.suite = u, !.curve = g] EXCEPT !.pc = "negotiate13"])
      PROVE  LinkInv'
  <2>1. Begins /\ Stands'
    BY <1>0, <1>3, Before13Link DEF ServerSends, ServerKeeps, ServerFields, LinkInv, Stands
  <2> QED
    BY <1>0, <1>3, <2>1, ServerQuietLink DEF LinkInv
<1>4. ASSUME NEW u, NEW g, NEW a, NEW hrr,
             hrr = [ServerHello13 EXCEPT !.suite = u, !.hrr = TRUE, !.selectedGroup = g,
                                         !.echAccept = a],
             srv.ech = None => a = None,
             ServerSends(<<hrr>>, [[srv EXCEPT !.suite = u, !.curve = g]
                                     EXCEPT !.transcript = <<srv.hello, hrr>>,
                                            !.pc = "readSecondHello13"])
      PROVE  LinkInv'
  <2>1. /\ hrr.type = "serverHello" /\ hrr.supportedVersion = 13 /\ hrr.hrr = TRUE
        /\ hrr.echAccept = a /\ hrr.sessionIdEcho = TRUE
    BY <1>4 DEF ServerHello13, LegacyServerHello, TLS13
  <2>2. IsSequence(<<srv.hello, hrr>>)
    BY Sequences2
  <2>3. /\ srv'.pc = "readSecondHello13" /\ srv'.vers = srv.vers /\ srv'.ems = srv.ems
        /\ srv'.didResume = srv.didResume /\ srv'.ech = srv.ech /\ srv'.hello = srv.hello
        /\ srv'.transcript = <<srv.hello, hrr>> /\ cli' = cli
    BY <1>0, <1>4 DEF ServerSends, ServerKeeps, ServerFields
  <2>4. Begins /\ Stands'
    BY <1>0, <2>2, <2>3, Before13Link DEF LinkInv, Stands
  <2>5. ReplyTrue(hrr)' /\ hrr.type # "newSessionTicket"
    <3>1. srv.vers = 13 /\ (srv.ech = None => a = None)
      BY <1>0, <1>4 DEF LinkInv, Stands, TLS13
    <3>2. Version(hrr) = 13
      BY <2>1 DEF Version
    <3>3. hrr.echAccept # None => srv'.ech # None
      BY <2>1, <2>3, <3>1
    <3>4. srv'.pc # "readClientHello" /\ srv'.vers = 13
      BY <2>3, <3>1
    <3>5. hrr.sessionIdEcho \in BOOLEAN /\ hrr.hrr = TRUE
      BY <2>1
    <3>6. Told(hrr)'
      BY <3>2, <3>3, <3>4, <3>5 DEF Told, Version, TLS13
    <3> QED
      BY <2>1, <3>6 DEF ReplyTrue
  <2>6. IsSequence(<<hrr>>) /\ Elements(<<hrr>>) = {hrr}
    BY QueueOne DEF IsSequence
  <2>7. NoTicket(<<hrr>>) /\ \A msg \in Elements(<<hrr>>) : ReplyTrue(msg)'
    BY <2>5, <2>6 DEF NoTicket
  <2>8. Heard' /\ Called' /\ Matched' /\ Follows'
    BY <1>0, <1>4, <2>4, <2>6, <2>7, ServerSendsLink
  <2> QED
    BY <2>4, <2>8 DEF LinkInv
<1> QED
  BY <1>1, <1>2, <1>3, <1>4

\* The second hello.
LEMMA ReadSecondClientHello13Link ==
  ASSUME TicketInv, LinkInv, ReadSecondClientHello13
  PROVE  LinkInv'
<1> USE DEF Unsent, Before13
<1>0. /\ srv.pc = "readSecondHello13" /\ ServerTakes
      /\ DOMAIN srv = ServerFields
  BY DEF ReadSecondClientHello13, ServerReads, ServerHasMessage, ServerTakes, TicketInv, Answered
<1>1. \/ FailServerAfter(<<>>)
      \/ \E h : ServerSends(<<>>, [srv EXCEPT !.hello = h, !.didHRR = TRUE, !.pc = "negotiate13"])
  BY Zenon DEF ReadSecondClientHello13, ServerChecks
<1>2. ASSUME NEW h,
             ServerSends(<<>>, [srv EXCEPT !.hello = h, !.didHRR = TRUE, !.pc = "negotiate13"])
      PROVE  LinkInv'
  <2>1. Begins /\ Stands'
    BY <1>0, <1>2, Before13Link DEF ServerSends, ServerKeeps, ServerFields, LinkInv, Stands
  <2> QED
    BY <1>0, <1>2, <2>1, ServerQuietLink DEF LinkInv
<1> QED
  BY <1>0, <1>1, <1>2, FailQuietLink

\* The ServerHello and the EncryptedExtensions of TLS 1.3.
LEMMA sendServerParametersLink ==
  ASSUME TicketInv, LinkInv, sendServerParameters
  PROVE  LinkInv'
<1> USE DEF Unsent, Unsent12, Before13, Sent12, Full12, Sent13
<1> DEFINE hellos == Append(srv.transcript, srv.hello)
           sh == [ServerHello13 EXCEPT !.serverShare = srv.curve, !.psk = srv.didResume,
                                       !.echAccept = IF srv.ech # None THEN hellos ELSE None]
           ee == [type |-> "encryptedExtensions", alpn |-> srv.alpn,
                  retryConfigs |-> IF srv.hello.ech # NoECH /\ srv.ech = None
                                   THEN buildRetryConfigList(srv.conf) ELSE None]
           flight == <<sh, ee>>
           seen == hellos \o flight
<1>0. srv.pc = "sendParameters13" /\ ServerTakes /\ DOMAIN srv = ServerFields
  BY DEF TicketInv, Answered, sendServerParameters, ServerTakes
<1>1. \E u : ServerSends(flight, [srv EXCEPT !.sh = sh, !.transcript = seen, !.secret = u,
                                             !.pc = "sendCertificate13"])
  BY Zenon DEF sendServerParameters
<1>2. /\ sh.type = "serverHello" /\ sh.supportedVersion = 13 /\ sh.hrr = FALSE
      /\ sh.suite = srv.suite /\ sh.serverShare = srv.curve /\ sh.psk = srv.didResume
      /\ sh.sessionIdEcho = TRUE /\ (srv.ech = None => sh.echAccept = None)
  BY DEF ServerHello13, LegacyServerHello, TLS13
<1>3. ee.type = "encryptedExtensions" /\ ee.alpn = srv.alpn
  OBVIOUS
<1> HIDE DEF sh, ee
<1>4. IsSequence(flight) /\ Elements(flight) \subseteq {sh, ee}
  BY Sequences2
<1> HIDE DEF flight
<1>5. IsSequence(seen) /\ seen # <<>>
  <2>1. IsSequence(srv.transcript)
    BY DEF LinkInv, Stands
  <2>2. hellos = srv.transcript \o <<srv.hello>> /\ IsSequence(hellos)
    BY <2>1, Sequences1 DEF IsSequence
  <2>3. hellos # <<>>
    BY <2>1 DEF IsSequence
  <2> HIDE DEF hellos
  <2> QED
    BY <1>4, <2>2, <2>3, Sequences1, NonEmpty
<1> HIDE DEF seen
<1> PICK u : ServerSends(flight, [srv EXCEPT !.sh = sh, !.transcript = seen, !.secret = u,
                                             !.pc = "sendCertificate13"])
  BY <1>1
<1>6. /\ srv'.pc = "sendCertificate13" /\ srv'.vers = srv.vers /\ srv'.ems = srv.ems
      /\ srv'.didResume = srv.didResume /\ srv'.sh = sh /\ srv'.alpn = srv.alpn
      /\ srv'.transcript = seen /\ srv'.curve = srv.curve /\ srv'.ech = srv.ech
      /\ srv'.suite = srv.suite /\ cli' = cli
  BY <1>0 DEF ServerSends, ServerKeeps, ServerFields
<1>7. srv.vers = 13 /\ srv.vers = TLS13 /\ cli.pc # "start" /\ srv.didResume \in BOOLEAN
  BY <1>0 DEF LinkInv, Stands, TLS13
<1>8. ASSUME NEW m \in {sh, ee} PROVE ReplyTrue(m)'
  <2>1. CASE m = sh
    <3>0. m.sessionIdEcho = TRUE /\ m.supportedVersion = 13
      BY <1>2, <2>1
    <3>1. Version(m) = 13 /\ m.sessionIdEcho \in BOOLEAN
      <4>1. Version(m) = 13
        BY <3>0 DEF Version
      <4> QED
        BY <3>0, <4>1, Zenon
    <3>2. Said(m)' /\ srv'.pc \notin Unsent
      BY <1>2, <1>6, <1>7, <2>1 DEF Said
    <3>3. m.echAccept # None => srv'.ech # None
      BY <1>2, <1>6, <2>1
    <3>4. Told(m)'
      BY <1>2, <1>6, <1>7, <2>1, <3>1, <3>2, <3>3 DEF Told, Version
    <3> QED
      BY <1>2, <2>1, <3>4 DEF ReplyTrue
  <2>2. CASE m = ee
    BY <1>3, <1>6, <2>2 DEF ReplyTrue
  <2> QED
    BY <2>1, <2>2
<1>9. Heard' /\ Called' /\ Matched' /\ Follows'
  <2>1. Begins
    BY <1>0, <1>6 DEF Begins
  <2>2. NoTicket(flight) /\ \A m \in Elements(flight) : ReplyTrue(m)'
    BY <1>2, <1>3, <1>4, <1>8 DEF NoTicket
  <2> QED
    BY <1>0, <1>4, <2>1, <2>2, ServerSendsLink
<1>10. Stands'
  BY <1>0, <1>5, <1>6, <1>7 DEF LinkInv, Stands, ShMade
<1> QED
  BY <1>9, <1>10 DEF LinkInv

\* A step of TLS 1.3 behind the ServerHello.
LEMMA After13Link ==
  ASSUME TicketInv, LinkInv, NEW flight, NEW new, ServerSends(flight, new), ServerTakes,
         srv.pc \in Sent13, srv'.pc \in Sent13, IsSequence(flight),
         srv'.vers = srv.vers /\ srv'.suite = srv.suite /\ srv'.curve = srv.curve
         /\ srv'.alpn = srv.alpn /\ srv'.cert = srv.cert /\ srv'.sh = srv.sh
         /\ srv'.didResume = srv.didResume /\ srv'.session = srv.session /\ srv'.ech = srv.ech
         /\ srv'.ems = srv.ems,
         IsSequence(srv'.transcript), srv'.transcript # <<>>,
         srv'.pc = "readFinished13" =>
           srv'.transcript = SubSeq(srv'.transcript, 1, Len(srv'.transcript) - 1)
                               \o <<Mark("client")>>,
         \A msg \in Elements(flight) : ReplyTrue(msg)'
  PROVE  LinkInv'
<1> USE DEF Unsent, Unsent12, Before13, Sent12, Full12, Sent13
<1>1. srv.vers = TLS13 /\ cli.pc # "start" /\ cli' = cli
  BY DEF LinkInv, Stands, ServerSends, ServerKeeps
<1>2. Persists
  BY DEF Persists
<1>3. ~(cli.pc = "complete" /\ cli.vers # TLS13)
  BY <1>1 DEF LinkInv, Follows, Informed
<1>4. Heard' /\ Called' /\ Matched' /\ Follows'
  BY <1>1, <1>2, <1>3, ServerSendsLink
<1>5. Stands'
  BY <1>1 DEF LinkInv, Stands, ShMade
<1> QED
  BY <1>4, <1>5 DEF LinkInv

\* The server's Certificate and CertificateVerify, and its request.
LEMMA sendServerCertificateLink ==
  ASSUME TicketInv, LinkInv, sendServerCertificate
  PROVE  LinkInv'
<1> DEFINE ask == CertificateRequest(TLS13, srv.conf)
           cert == Certificate(srv.cert)
           request == IF requestClientCert THEN <<ask>> ELSE <<>>
           flight == Append(request, cert)
           verify == CertificateVerify(Signature(srv.cert, srv.sigAlg, srv.transcript \o flight))
           sent == IF srv.didResume THEN <<>> ELSE Append(flight, verify)
           seen == transcriptMsg(srv.transcript, sent)
<1>0. srv.pc = "sendCertificate13" /\ ServerTakes /\ DOMAIN srv = ServerFields
  BY DEF TicketInv, Answered, sendServerCertificate, ServerTakes
<1>1. ServerSends(sent, [srv EXCEPT !.transcript = seen, !.pc = "sendFinished13"])
  BY Zenon DEF sendServerCertificate
<1>2. /\ ask.type = "certificateRequest" /\ cert.type = "certificate" /\ cert.cert = srv.cert
      /\ verify.type = "certificateVerify"
  BY DEF CertificateRequest, Certificate, CertificateVerify
<1> HIDE DEF ask, cert, verify
<1>3. IsSequence(request) /\ Elements(request) \subseteq {ask}
  BY QueueOne, QueueNone DEF IsSequence
<1> HIDE DEF request
<1>4. IsSequence(flight) /\ Elements(flight) \subseteq {ask, cert}
  BY <1>3, QueueAppend DEF IsSequence
<1> HIDE DEF flight
<1>5. IsSequence(sent) /\ Elements(sent) \subseteq {ask, cert, verify}
  BY <1>4, QueueAppend, QueueNone DEF IsSequence
<1> HIDE DEF sent
<1>6. IsSequence(seen) /\ seen # <<>>
  BY <1>0, <1>5, TranscriptMsg DEF LinkInv, Stands, Sent13
<1> HIDE DEF seen
<1>7. /\ srv'.pc = "sendFinished13" /\ srv'.vers = srv.vers /\ srv'.ems = srv.ems
      /\ srv'.didResume = srv.didResume /\ srv'.sh = srv.sh /\ srv'.alpn = srv.alpn
      /\ srv'.transcript = seen /\ srv'.curve = srv.curve /\ srv'.ech = srv.ech
      /\ srv'.suite = srv.suite /\ srv'.cert = srv.cert /\ srv'.session = srv.session
  BY <1>0, <1>1 DEF ServerSends, ServerKeeps, ServerFields
<1>8. ASSUME NEW m \in {ask, cert, verify} PROVE ReplyTrue(m)'
  BY <1>2, <1>7 DEF ReplyTrue, Unsent, Unsent12, Before13
<1> QED
  BY <1>0, <1>1, <1>5, <1>6, <1>7, <1>8, After13Link DEF Sent13

\* The last element of a transcript.
LEMMA LastOf ==
  ASSUME NEW t, NEW m, IsSequence(t)
  PROVE  SubSeq(t \o <<m>>, 1, Len(t \o <<m>>) - 1) = t
<1> DEFINE S == Elements(t) \cup {m}
           u == t \o <<m>>
<1>1. t \in Seq(S) /\ m \in S
  BY DEF IsSequence
<1> HIDE DEF S
<1>2. /\ Len(t) \in Nat /\ u \in Seq(S) /\ Len(u) = Len(t) + 1
      /\ \A i \in 1..Len(t) : u[i] = t[i]
  BY <1>1
<1> HIDE DEF u
<1>3. SubSeq(u, 1, Len(t)) = [i \in 1..Len(t) |-> u[i]]
  BY <1>2
<1>4. t = [i \in 1..Len(t) |-> t[i]]
  BY <1>1
<1>5. [i \in 1..Len(t) |-> u[i]] = [i \in 1..Len(t) |-> t[i]]
  BY <1>2
<1>6. Len(u) - 1 = Len(t)
  BY <1>2
<1> QED
  BY <1>3, <1>4, <1>5, <1>6 DEF u

\* The tickets of TLS 1.3.
LEMMA SessionTicketsIssued ==
  ASSUME conns' = conns,
         srv'.vers = srv.vers, srv'.suite = srv.suite, srv'.ems = srv.ems, srv'.alpn = srv.alpn,
         srv'.curve = srv.curve, srv'.didResume = srv.didResume,
         srv'.pc \notin Unsent, srv'.pc # "failed", srv.vers = TLS13
  PROVE  IsSequence(SessionTickets) /\ \A m \in Elements(SessionTickets) : ReplyTrue(m)'
<1> DEFINE ticket == NewSessionTicket(conns)
<1>1. ASSUME NEW m, m = ticket PROVE ReplyTrue(m)'
  BY <1>1, TicketIssued
<1>2. SessionTickets = <<>> \/ SessionTickets = <<ticket>>
  BY DEF SessionTickets
<1> HIDE DEF ticket
<1>3. CASE SessionTickets = <<>>
  <2>1. IsSequence(SessionTickets) /\ Elements(SessionTickets) = {}
    BY <1>3, QueueNone DEF IsSequence
  <2> QED
    BY <2>1
<1>4. CASE SessionTickets = <<ticket>>
  <2>1. IsSequence(SessionTickets) /\ Elements(SessionTickets) = {ticket}
    BY <1>4, QueueOne DEF IsSequence
  <2> QED
    BY <1>1, <2>1
<1> QED
  BY <1>2, <1>3, <1>4

\* The Finished of TLS 1.3.
LEMMA sendServerFinishedLink ==
  ASSUME TicketInv, LinkInv, sendServerFinished
  PROVE  LinkInv'
<1> DEFINE finished == Finished(srv.secret, "server", srv.transcript)
           seen == transcriptMsg(srv.transcript, <<finished>>)
           last == transcriptMsg(seen, <<Finished(srv.secret, "client", seen)>>)
           flight == <<finished>> \o SessionTickets
<1>0. srv.pc = "sendFinished13" /\ ServerTakes /\ DOMAIN srv = ServerFields
  BY DEF TicketInv, Answered, sendServerFinished, ServerTakes
<1>1. \/ ServerSends(<<finished>>, [srv EXCEPT !.transcript = seen, !.pc = "readCertificate13"])
      \/ ServerSends(flight, [srv EXCEPT !.transcript = last, !.pc = "readFinished13"])
  BY Zenon DEF sendServerFinished
<1>2. finished.type = "finished"
  BY DEF Finished
<1>3. IsSequence(srv.transcript) /\ srv.transcript # <<>> /\ srv.vers = TLS13
  BY <1>0 DEF LinkInv, Stands, Sent13
<1> HIDE DEF finished
<1>4. IsSequence(<<finished>>) /\ Elements(<<finished>>) = {finished}
  BY QueueOne DEF IsSequence
<1>5. IsSequence(seen) /\ seen # <<>>
  BY <1>3, <1>4, TranscriptMsg
<1>6. last = seen \o <<Mark("client")>>
  BY TranscriptMsg, FinishedMark
<1> HIDE DEF seen, last
<1>7. IsSequence(last) /\ last # <<>> /\ SubSeq(last, 1, Len(last) - 1) = seen
  BY <1>5, <1>6, LastOf, Sequences1, NonEmpty
<1>8. CASE ServerSends(<<finished>>, [srv EXCEPT !.transcript = seen, !.pc = "readCertificate13"])
  <2>1. /\ srv'.pc = "readCertificate13" /\ srv'.vers = srv.vers /\ srv'.ems = srv.ems
        /\ srv'.didResume = srv.didResume /\ srv'.sh = srv.sh /\ srv'.alpn = srv.alpn
        /\ srv'.transcript = seen /\ srv'.curve = srv.curve /\ srv'.ech = srv.ech
        /\ srv'.suite = srv.suite /\ srv'.cert = srv.cert /\ srv'.session = srv.session
    BY <1>0, <1>8 DEF ServerSends, ServerKeeps, ServerFields
  <2>2. ASSUME NEW m, m = finished PROVE ReplyTrue(m)'
    BY <1>2, <1>3, <2>1, <2>2 DEF ReplyTrue, Sealing, Halted, Unsent, Unsent12, Before13
  <2> QED
    BY <1>0, <1>4, <1>5, <1>8, <2>1, <2>2, After13Link DEF Sent13
<1>9. CASE ServerSends(flight, [srv EXCEPT !.transcript = last, !.pc = "readFinished13"])
  <2>1. /\ srv'.pc = "readFinished13" /\ srv'.vers = srv.vers /\ srv'.ems = srv.ems
        /\ srv'.didResume = srv.didResume /\ srv'.sh = srv.sh /\ srv'.alpn = srv.alpn
        /\ srv'.transcript = last /\ srv'.curve = srv.curve /\ srv'.ech = srv.ech
        /\ srv'.suite = srv.suite /\ srv'.cert = srv.cert /\ srv'.session = srv.session
        /\ conns' = conns
    BY <1>0, <1>9 DEF ServerSends, ServerKeeps, ServerFields
  <2>2. ASSUME NEW m, m = finished PROVE ReplyTrue(m)'
    BY <1>2, <1>3, <2>1, <2>2 DEF ReplyTrue, Sealing, Halted, Unsent, Unsent12, Before13
  <2>3. IsSequence(SessionTickets) /\ \A m \in Elements(SessionTickets) : ReplyTrue(m)'
    BY <1>3, <2>1, SessionTicketsIssued DEF Unsent, Unsent12, Before13
  <2>4. /\ IsSequence(flight)
        /\ Elements(flight) \subseteq {finished} \cup Elements(SessionTickets)
    BY <1>4, <2>3, QueueConcat DEF IsSequence
  <2> HIDE DEF flight
  <2>5. \A m \in Elements(flight) : ReplyTrue(m)'
    BY <2>2, <2>3, <2>4
  <2>6. last = SubSeq(last, 1, Len(last) - 1) \o <<Mark("client")>>
    BY <1>6, <1>7
  <2> QED
    BY <1>0, <1>7, <1>9, <2>1, <2>4, <2>5, <2>6, After13Link DEF Sent13
<1> QED
  BY <1>1, <1>8, <1>9

\* The tickets behind a client certificate.
LEMMA sendSessionTicketsLink ==
  ASSUME TicketInv, LinkInv, sendSessionTickets
  PROVE  LinkInv'
<1> DEFINE last == transcriptMsg(srv.transcript, <<clientFinished>>)
<1>0. srv.pc = "sendTickets13" /\ ServerTakes /\ DOMAIN srv = ServerFields
  BY DEF TicketInv, Answered, sendSessionTickets, ServerTakes
<1>1. ServerSends(SessionTickets, [srv EXCEPT !.transcript = last, !.pc = "readFinished13"])
  BY Zenon DEF sendSessionTickets
<1>2. IsSequence(srv.transcript) /\ srv.transcript # <<>> /\ srv.vers = TLS13
  BY <1>0 DEF LinkInv, Stands, Sent13
<1>3. last = srv.transcript \o <<Mark("client")>>
  BY TranscriptMsg, FinishedMark DEF clientFinished
<1> HIDE DEF last
<1>4. IsSequence(last) /\ last # <<>> /\ SubSeq(last, 1, Len(last) - 1) = srv.transcript
  BY <1>2, <1>3, LastOf, Sequences1, NonEmpty
<1>5. /\ srv'.pc = "readFinished13" /\ srv'.vers = srv.vers /\ srv'.ems = srv.ems
      /\ srv'.didResume = srv.didResume /\ srv'.sh = srv.sh /\ srv'.alpn = srv.alpn
      /\ srv'.transcript = last /\ srv'.curve = srv.curve /\ srv'.ech = srv.ech
      /\ srv'.suite = srv.suite /\ srv'.cert = srv.cert /\ srv'.session = srv.session
      /\ conns' = conns
  BY <1>0, <1>1 DEF ServerSends, ServerKeeps, ServerFields
<1>6. IsSequence(SessionTickets) /\ \A m \in Elements(SessionTickets) : ReplyTrue(m)'
  BY <1>2, <1>5, SessionTicketsIssued DEF Unsent, Unsent12, Before13
<1>7. last = SubSeq(last, 1, Len(last) - 1) \o <<Mark("client")>>
  BY <1>3, <1>4
<1> QED
  BY <1>0, <1>1, <1>4, <1>5, <1>6, <1>7, After13Link DEF Sent13

\* The client's Finished in TLS 1.3.
LEMMA readClientFinishedLink ==
  ASSUME TicketInv, LinkInv, readClientFinished
  PROVE  LinkInv'
<1> USE DEF Unsent, Unsent12, Before13, Sent12, Full12, Sent13
<1> DEFINE seen == SubSeq(srv.transcript, 1, Len(srv.transcript) - 1)
<1>0. /\ srv.pc = "readFinished13" /\ ServerTakes /\ toServer # <<>>
      /\ DOMAIN srv = ServerFields
  BY DEF TicketInv, Answered, readClientFinished, ServerReads, ServerHasMessage, ServerTakes
<1>1. \/ FailServerAfter(<<>>)
      \/ /\ FromClient = Finished(srv.secret, "client", seen)
         /\ ServerSends(<<>>, [srv EXCEPT !.pc = "complete"])
  BY Zenon DEF readClientFinished, ServerChecks
<1>2. CASE FailServerAfter(<<>>)
  BY <1>0, <1>2, FailQuietLink
<1>3. CASE /\ FromClient = Finished(srv.secret, "client", seen)
           /\ ServerSends(<<>>, [srv EXCEPT !.pc = "complete"])
  <2>1. FromClient.type = "finished" /\ FromClient.over = seen
    BY <1>3 DEF Finished
  <2>2. srv.transcript = seen \o <<Mark("client")>> /\ srv.vers = TLS13 /\ ~Halted
    BY <1>0 DEF LinkInv, Stands, Halted
  <2>3. cli.pc = "failed" \/ (cli.pc = "complete" /\ cli.transcript = srv.transcript)
    BY <1>0, <2>1, <2>2, ClientProved
  <2>4. /\ srv'.pc = "complete" /\ srv'.vers = srv.vers /\ srv'.ems = srv.ems
        /\ srv'.didResume = srv.didResume /\ srv'.sh = srv.sh /\ srv'.alpn = srv.alpn
        /\ srv'.transcript = srv.transcript /\ srv'.curve = srv.curve /\ srv'.ech = srv.ech
        /\ srv'.suite = srv.suite /\ srv'.cert = srv.cert /\ srv'.session = srv.session
        /\ cli' = cli
    BY <1>0, <1>3 DEF ServerSends, ServerKeeps, ServerFields
  <2>5. Persists
    BY <1>0, <2>4 DEF Persists
  <2>6. Stands'
    BY <1>0, <2>2, <2>3, <2>4 DEF LinkInv, Stands, ShMade
  <2> QED
    BY <1>0, <1>3, <2>5, <2>6, ServerQuietLink DEF LinkInv
<1> QED
  BY <1>1, <1>2, <1>3

\* Every step of the server.
LEMMA ServerNextLink ==
  ASSUME TicketInv, LinkInv, ServerNext
  PROVE  LinkInv'
<1>1. CASE ServerReadsAlert
  <2>1. ServerTakes /\ FailServerAfter(<<>>) /\ srv.pc \in Unsent \cup Sent12 \cup Sent13
    BY <1>1 DEF ServerReadsAlert, ServerReading, ServerTakes, Unsent, Before13, Sent12, Full12,
                Sent13
  <2> QED
    BY <2>1, FailQuietLink
<1>2. CASE ServerStep12
  BY <1>2, processClientHello12Link, checkForResumption12Link, doResumeHandshake12Link,
     pickCipherSuite12Link, sendFlight12Link, ServerReadsLink, ServerReadFinished12Link
  DEF ServerStep12
<1>3. CASE ServerStep13
  BY <1>3, processClientHello13Link, ReadSecondClientHello13Link, Plain13Link,
     sendServerParametersLink, sendServerCertificateLink, sendServerFinishedLink,
     ServerReadsLink, sendSessionTicketsLink, readClientFinishedLink
  DEF ServerStep13
<1> QED
  BY <1>1, <1>2, <1>3, readClientHelloLink DEF ServerNext

-----------------------------------------------------------------------------
(* The client's steps *)

\* What the server has said stays true while it stands still.
LEMMA SaidStill ==
  ASSUME srv' = srv, conns' = conns
  PROVE  /\ Halted' = Halted
         /\ \A sh : Told(sh) => Told(sh)'
         /\ \A ticket : Issued(ticket) => Issued(ticket)'
         /\ \A msg : ReplyTrue(msg) => ReplyTrue(msg)'
<1>1. Halted' = Halted
  BY DEF Halted
<1>2. ASSUME NEW sh, Told(sh) PROVE Told(sh)'
  BY <1>1, <1>2 DEF Told, Said, Version
<1>3. ASSUME NEW ticket, Issued(ticket) PROVE Issued(ticket)'
  BY <1>1, <1>3 DEF Issued
<1>4. ASSUME NEW msg, ReplyTrue(msg) PROVE ReplyTrue(msg)'
  BY <1>1, <1>2, <1>3, <1>4 DEF ReplyTrue, Sealing
<1> QED
  BY <1>1, <1>2, <1>3, <1>4

\* What is left on its way to a client that has read.
LEMMA HeardStill ==
  ASSUME TicketInv, LinkInv, srv' = srv, conns' = conns, ClientTakes
  PROVE  Heard'
<1>1. IsSequence(toClient)
  BY DEF TicketInv, Replies, IsSequence
<1>2. Elements(toClient') \subseteq Elements(toClient)
  BY <1>1, QueueTail DEF ClientTakes, IsSequence
<1>3. InOrder(toClient) => InOrder(toClient')
  BY <1>1, InOrderTail DEF ClientTakes
<1> QED
  BY <1>2, <1>3, SaidStill DEF LinkInv, Heard

\* What a client reads is true.
LEMMA ReadTrue ==
  ASSUME TicketInv, LinkInv, toClient # <<>>
  PROVE  ReplyTrue(FromServer)
BY QueueTail DEF TicketInv, Replies, LinkInv, Heard, FromServer

\* A step of a client that has not ended, with the messages it sends.
LEMMA ClientStepLink ==
  ASSUME TicketInv, LinkInv, srv' = srv, conns' = conns, ClientTakes,
         cli.pc \notin {"failed", "complete", "idle"}, cli'.pc # "start",
         cli'.session = cli.session,
         cli.pc \in {"readTicket12", "readFinished12"} =>
           \/ cli'.pc = "failed"
           \/ /\ cli'.pc \in {"readFinished12", "complete"}
              /\ cli'.vers = cli.vers /\ cli'.didResume = cli.didResume,
         NEW flight, IsSequence(flight), toServer' = toServer \o flight,
         \A msg \in Elements(flight) : CallTrue(msg)',
         cache' # None => cache' = cache \/ Matches(cache'),
         Follows'
  PROVE  LinkInv'
<1>1. Heard'
  BY HeardStill
<1>2. Matched'
  BY DEF LinkInv, Matched
<1>3. Stands'
  BY DEF LinkInv, Stands, Carries
<1>4. Called'
  <2>1. IsSequence(toServer)
    BY DEF TicketInv, Hellos, IsSequence
  <2>2. Elements(toServer') \subseteq Elements(toServer) \cup Elements(flight)
    BY <2>1, QueueConcat DEF IsSequence
  <2>3. ASSUME NEW msg, CallTrue(msg) PROVE CallTrue(msg)'
    <3>1. (msg.type = "clientHello" => cli'.pc # "start" /\ (srv'.pc = "readClientHello" => CarriesBoth(msg)'))
      BY <2>3 DEF CallTrue, CarriesBoth, Carries
    <3>2. ASSUME msg.type = "finished" PROVE Proves(msg)'
      <4>1. cli.pc \in {"readTicket12", "readFinished12"} /\ Proves(msg)
        BY <2>3, <3>2 DEF CallTrue, Proves
      <4>2. Follows12 /\ cli.vers # TLS13
        BY <4>1 DEF LinkInv, Follows, Behind12, Late12, Places12, Follows12
      <4> QED
        BY <4>1, <4>2 DEF Proves
    <3> QED
      BY <3>1, <3>2 DEF CallTrue
  <2> QED
    BY <2>2, <2>3 DEF LinkInv, Called
<1> QED
  BY <1>1, <1>2, <1>3, <1>4 DEF LinkInv

\* A step without a message.
LEMMA ClientQuietLink ==
  ASSUME TicketInv, LinkInv, srv' = srv, conns' = conns, ClientTakes,
         cli.pc \notin {"failed", "complete", "idle"}, cli'.pc # "start",
         cli'.session = cli.session,
         cli.pc \in {"readTicket12", "readFinished12"} =>
           \/ cli'.pc = "failed"
           \/ /\ cli'.pc \in {"readFinished12", "complete"}
              /\ cli'.vers = cli.vers /\ cli'.didResume = cli.didResume,
         UNCHANGED <<toServer, cache>>,
         Follows'
  PROVE  LinkInv'
<1>1. toServer' = toServer \o <<>>
  BY DEF TicketInv, Hellos
<1>2. IsSequence(<<>>) /\ Elements(<<>>) = {}
  BY QueueNone DEF IsSequence
<1> QED
  BY <1>1, <1>2, ClientStepLink

\* An error of the client.
LEMMA FailClientLink ==
  ASSUME ClientInv, TicketInv, LinkInv, srv' = srv, NEW e, FailClient(e), ClientTakes,
         cli.pc \notin {"failed", "complete", "idle"}
  PROVE  LinkInv'
<1>1. /\ cli'.pc = "failed" /\ cli'.session = cli.session /\ cli'.transcript = cli.transcript
      /\ cli'.innerTranscript = cli.innerTranscript
      /\ conns' = conns /\ cache' \in {cache, None} /\ toServer' = Append(toServer, Alert)
  BY DEF FailClient, ClientInv, Configured, ClientFields
<1>2. Follows'
  BY <1>1 DEF LinkInv, Follows, Informed, Fresh, Middle13, Late13, Places12, Behind13, Behind12,
              Late12, Greets, Greeting
<1>3. toServer' = toServer \o <<Alert>>
  BY <1>1 DEF TicketInv, Hellos
<1>4. IsSequence(<<Alert>>) /\ Elements(<<Alert>>) = {Alert}
  BY QueueOne DEF IsSequence
<1>5. CallTrue(Alert)'
  BY DEF CallTrue, Alert
<1> QED
  BY <1>1, <1>2, <1>3, <1>4, <1>5, ClientStepLink

\* A step behind the ServerHello of TLS 1.3.
LEMMA On13 ==
  ASSUME LinkInv, srv' = srv, conns' = conns, cli.pc \in Late13,
         cli'.pc \in (Late13 \ {"readEncryptedExtensions"}) \cup {"complete"},
         IsSequence(cli'.transcript), cli'.innerTranscript = cli.innerTranscript,
         cli'.vers = cli.vers, cli'.sh = cli.sh, cli'.suite = cli.suite, cli'.curve = cli.curve,
         cli'.didResume = cli.didResume, cli'.usingPSK = cli.usingPSK, cli'.ems = cli.ems,
         cli'.ticket = cli.ticket, cli'.alpn = srv.alpn,
         cli'.pc # "readCertificate13" /\ ~cli.didResume => cli'.cert = srv.cert
  PROVE  Follows'
<1> USE DEF Late13, Late12, Places12, Middle13
<1>1. Follows13 /\ cli.vers = srv.vers /\ Told(cli.sh) /\ cli.vers = TLS13
  BY DEF LinkInv, Follows, Informed, Behind13, Follows13
<1>2. Told(cli.sh)'
  BY <1>1, SaidStill DEF Told, Said, Halted, Version
<1>3. Follows13'
  BY <1>1 DEF Follows13
<1> QED
  BY <1>1, <1>2, <1>3 DEF LinkInv, Follows, Fresh, Behind12, Greets, Greeting

\* A step behind the ServerHello of TLS 1.0 to 1.2, before the last one.
LEMMA On12 ==
  ASSUME LinkInv, srv' = srv, conns' = conns, cli.pc \in Late12, cli'.pc \in Late12,
         IsSequence(cli'.transcript), cli'.innerTranscript = cli.innerTranscript,
         cli'.vers = cli.vers, cli'.sh = cli.sh, cli'.suite = cli.suite, cli'.alpn = cli.alpn,
         cli'.session = cli.session, cli'.didResume = cli.didResume,
         cli'.ticket = cli.ticket \/ Issued(cli'.ticket),
         cli.didResume => cli'.curve = cli.curve /\ cli'.ems = cli.ems,
         cli'.pc \notin {"readTicket12", "readFinished12"} => ~cli.didResume,
         ~cli.didResume =>
           /\ Halted \/ cli'.curve \in {None, srv.curve}
           /\ cli'.pc \in {"readTicket12", "readFinished12"} =>
                cli'.ems = cli.sh.ems /\ (Halted \/ cli'.curve = srv.curve)
           /\ cli'.pc # "readCertificate12" => cli'.cert = srv.cert
  PROVE  Follows'
<1> USE DEF Late13, Late12, Places12, Middle13
<1>1. Follows12 /\ cli.vers = srv.vers /\ Told(cli.sh) /\ cli.vers # TLS13
  BY DEF LinkInv, Follows, Informed, Behind12, Follows12
<1>2. Told(cli.sh)' /\ Halted' = Halted
  BY <1>1, SaidStill DEF Told, Said, Halted, Version
<1>3. cli'.ticket # None => Issued(cli'.ticket)
  BY <1>1 DEF Follows12
<1>4. cli'.ticket # None => Issued(cli.ticket)'
  BY <1>3, SaidStill DEF Issued, Halted
<1>5. Follows12'
  BY <1>1, <1>2, <1>4 DEF Follows12
<1> QED
  BY <1>1, <1>2, <1>5 DEF LinkInv, Follows, Fresh, Behind13, Greets, Greeting

\* The ServerHello that a client reads.
LEMMA ClientReadServerHelloLink ==
  ASSUME ClientInv, TicketInv, LinkInv, srv' = srv, ClientReadServerHello
  PROVE  LinkInv'
<1> DEFINE vers == pickTLSVersion(FromServer)
           place == IF vers = TLS13 THEN "check13" ELSE "process12"
<1>0. DOMAIN cli = ClientFields /\ cli.pc = "readServerHello" /\ ClientTakes /\ toClient # <<>>
  BY DEF ClientInv, Configured, ClientReadServerHello, ClientReads, ClientHasMessage, ClientTakes
<1>1. \/ FailClient("refused")
      \/ /\ FromServer.type = "serverHello" /\ vers # None
         /\ ClientGoes([cli EXCEPT !.sh = FromServer, !.vers = vers, !.pc = place])
  BY Zenon DEF ClientReadServerHello, ClientChecks
<1>2. CASE FailClient("refused")
  BY <1>0, <1>2, FailClientLink
<1>3. CASE /\ FromServer.type = "serverHello" /\ vers # None
           /\ ClientGoes([cli EXCEPT !.sh = FromServer, !.vers = vers, !.pc = place])
  <2>1. Told(FromServer)
    BY <1>0, <1>3, ReadTrue DEF ReplyTrue
  <2>2. vers = srv.vers
    <3>1. vers = Version(FromServer)
      BY <1>3, OneVersion DEF pickTLSVersion, Version
    <3> QED
      BY <2>1, <3>1 DEF Told
  <2> HIDE DEF vers
  <2>3. /\ cli'.vers = vers /\ cli'.sh = FromServer /\ cli'.pc = place
        /\ cli'.curve = cli.curve /\ cli'.ems = cli.ems /\ cli'.ticket = cli.ticket
        /\ cli'.didResume = cli.didResume /\ cli'.transcript = cli.transcript
        /\ cli'.innerTranscript = cli.innerTranscript /\ cli'.session = cli.session
        /\ cli'.conf = cli.conf /\ cli'.hello = cli.hello /\ cli'.inner = cli.inner
        /\ UNCHANGED <<toServer, cache, conns>>
    BY <1>0, <1>3 DEF ClientGoes, ClientFields
  <2>4. Told(cli.sh)'
    BY <2>1, <2>3 DEF Told, Said, Halted, Version
  <2>5. ~cli'.sh.hrr \/ vers = TLS13
    BY <2>1, <2>2, <2>3 DEF Told
  <2>6. Follows'
    BY <1>0, <2>2, <2>3, <2>4, <2>5
    DEF LinkInv, Follows, Fresh, Informed, Middle13, Late13, Late12, Places12, Behind13, Behind12,
        Greets, Greeting, UsesECH
  <2> QED
    BY <1>0, <2>3, <2>6, ClientQuietLink
<1> QED
  BY <1>1, <1>2, <1>3

\* The steps around the ServerHello of TLS 1.3 that send nothing.
LEMMA Middle13Link ==
  ASSUME ClientInv, TicketInv, LinkInv, srv' = srv,
         checkServerHelloOrHRR \/ ReadSecondServerHello \/ processServerHello13
  PROVE  LinkInv'
<1> USE DEF ClientFields
<1>0. /\ DOMAIN cli = ClientFields /\ ClientTakes
      /\ cli.pc \in {"check13", "readSecondServerHello", "process13"}
  BY DEF ClientInv, Configured, checkServerHelloOrHRR, ReadSecondServerHello,
         processServerHello13, ClientReads, ClientHasMessage, ClientTakes
<1>1. CASE FailClient("refused")
  BY <1>0, <1>1, FailClientLink
<1>2. /\ cli.vers = srv.vers /\ Told(cli.sh) /\ cli.vers = TLS13 /\ cli.ems = FALSE
      /\ cli.ticket = None /\ IsSequence(cli.transcript) /\ IsSequence(cli.innerTranscript)
      /\ Greets
  BY <1>0 DEF LinkInv, Follows, Informed, Middle13
<1>3. ASSUME checkServerHelloOrHRR, ~FailClient("refused")
      PROVE  LinkInv'
  <2> DEFINE t == IF cli.didHRR THEN cli.transcript ELSE <<cli.hello>>
             i == IF cli.didHRR \/ ~UsesECH THEN cli.innerTranscript ELSE <<cli.inner>>
             l == IF cli.sh.hrr /\ ~cli.didHRR THEN "retry13" ELSE "process13"
  <2>1. ClientGoes([cli EXCEPT !.suite = cli.sh.suite, !.transcript = t, !.innerTranscript = i,
                               !.pc = l])
    BY <1>3, Zenon DEF checkServerHelloOrHRR, ClientChecks
  <2>2. IsSequence(t) /\ IsSequence(i)
    BY <1>2, Sequences1
  <2>3. l \in {"retry13", "process13"}
    OBVIOUS
  <2> HIDE DEF t, i, l
  <2>4. /\ cli'.vers = cli.vers /\ cli'.sh = cli.sh /\ cli'.pc = l /\ cli'.suite = cli.sh.suite
        /\ cli'.ems = cli.ems /\ cli'.ticket = cli.ticket /\ cli'.transcript = t
        /\ cli'.innerTranscript = i /\ cli'.session = cli.session
        /\ cli'.conf = cli.conf /\ cli'.hello = cli.hello /\ cli'.inner = cli.inner
        /\ UNCHANGED <<toServer, cache, conns>>
    BY <1>0, <2>1 DEF ClientGoes
  <2>5. Told(cli.sh)'
    BY <1>2, <2>4 DEF Told, Said, Halted, Version
  <2>0. cli.pc = "check13"
    BY <1>3 DEF checkServerHelloOrHRR
  <2>6. Follows'
    BY <1>2, <2>0, <2>2, <2>3, <2>4, <2>5
    DEF Follows, Fresh, Informed, Middle13, Late13, Late12, Places12, Behind13, Behind12,
        Greets, Greeting, UsesECH
  <2> QED
    BY <1>0, <2>3, <2>4, <2>6, ClientQuietLink
<1>4. ASSUME ReadSecondServerHello, ~FailClient("refused")
      PROVE  LinkInv'
  <2>1. /\ FromServer.type = "serverHello" /\ toClient # <<>>
        /\ ClientGoes([cli EXCEPT !.sh = FromServer, !.pc = "check13"])
    BY <1>4, Zenon DEF ReadSecondServerHello, ClientChecks, ClientReads, ClientHasMessage
  <2>2. Told(FromServer)
    BY <2>1, ReadTrue DEF ReplyTrue
  <2>3. /\ cli'.vers = cli.vers /\ cli'.sh = FromServer /\ cli'.pc = "check13"
        /\ cli'.ems = cli.ems /\ cli'.ticket = cli.ticket /\ cli'.transcript = cli.transcript
        /\ cli'.innerTranscript = cli.innerTranscript /\ cli'.session = cli.session
        /\ cli'.conf = cli.conf /\ cli'.hello = cli.hello /\ cli'.inner = cli.inner
        /\ UNCHANGED <<toServer, cache, conns>>
    BY <1>0, <2>1 DEF ClientGoes
  <2>4. Told(cli.sh)'
    BY <2>2, <2>3 DEF Told, Said, Halted, Version
  <2>0. cli.pc = "readSecondServerHello"
    BY <1>4 DEF ReadSecondServerHello, ClientReads
  <2>5. Follows'
    BY <1>2, <2>0, <2>3, <2>4
    DEF Follows, Fresh, Informed, Middle13, Late13, Late12, Places12, Behind13, Behind12,
        Greets, Greeting, UsesECH
  <2> QED
    BY <1>0, <2>3, <2>5, ClientQuietLink
<1>5. ASSUME processServerHello13, ~FailClient("refused")
      PROVE  LinkInv'
  <2>0. cli.pc = "process13" /\ ~cli.sh.hrr
    BY <1>5, Zenon DEF processServerHello13, ClientChecks
  <2> DEFINE sh == cli.sh
             accepted == UsesECH /\ ConfirmsECH(sh)
             h == IF accepted THEN cli.inner ELSE cli.hello
             t == Append(IF accepted THEN cli.innerTranscript ELSE cli.transcript, sh)
             n == IF accepted THEN ServerName ELSE cli.serverName
             a == cli.echAccepted \/ accepted
             r == UsesECH /\ ~accepted
             psk == IF sh.psk THEN cli.session.secret ELSE None
             x == Secret13(psk, sh.serverShare)
             c == IF sh.psk THEN cli.session.cert ELSE cli.cert
             v == IF sh.psk THEN cli.session.verified ELSE cli.verified
  <2>1. ClientGoes([cli EXCEPT !.pc = "readEncryptedExtensions", !.hello = h,
                !.transcript = t, !.serverName = n, !.echAccepted = a, !.echRejected = r,
                !.curve = sh.serverShare, !.secret = x,
                !.usingPSK = sh.psk, !.didResume = sh.psk, !.cert = c, !.verified = v])
    BY <1>5, Zenon DEF processServerHello13, ClientChecks
  <2>2. IsSequence(t)
    BY <1>2, Sequences1
  <2> HIDE DEF h, t, n, a, r, x, c, v
  <2>3. /\ cli'.vers = cli.vers /\ cli'.sh = cli.sh /\ cli'.pc = "readEncryptedExtensions"
        /\ cli'.ems = cli.ems /\ cli'.ticket = cli.ticket /\ cli'.transcript = t
        /\ cli'.innerTranscript = cli.innerTranscript /\ cli'.session = cli.session
        /\ cli'.suite = cli.suite /\ cli'.curve = cli.sh.serverShare
        /\ cli'.didResume = cli.sh.psk /\ cli'.usingPSK = cli.sh.psk
        /\ UNCHANGED <<toServer, cache, conns>>
    BY <1>0, <2>1 DEF ClientGoes
  <2>4. cli.suite = cli.sh.suite
    BY <2>0 DEF LinkInv, Follows
  <2>5. Told(cli.sh)'
    BY <1>2, <2>3 DEF Told, Said, Halted, Version
  <2>6. Follows13'
    BY <1>2, <2>0, <2>3, <2>4 DEF Follows13
  <2>7. Follows'
    BY <1>2, <2>2, <2>3, <2>5, <2>6
    DEF Follows, Fresh, Informed, Middle13, Late13, Late12, Places12, Behind13, Behind12,
        Greets, Greeting, UsesECH
  <2> QED
    BY <1>0, <2>3, <2>7, ClientQuietLink
<1> QED
  BY <1>1, <1>3, <1>4, <1>5

\* A second hello is one.
LEMMA RetriedType ==
  ASSUME NEW hello, NEW prefix, DOMAIN hello = HelloFields
  PROVE  RetryPSK(hello, prefix).type = hello.type
<1> DEFINE bare == [hello EXCEPT !.binder = None]
<1>1. DOMAIN bare = HelloFields /\ bare.type = hello.type
  BY DEF HelloFields
<1>2. \/ RetryPSK(hello, prefix) = hello
      \/ \E b : RetryPSK(hello, prefix) = [hello EXCEPT !.binder = b]
      \/ RetryPSK(hello, prefix) = [bare EXCEPT !.psk = None]
  BY DEF RetryPSK
<1> HIDE DEF bare
<1> QED
  BY <1>1, <1>2 DEF HelloFields

\* The second hello: the server that asked for it has left its first place.
LEMMA processHelloRetryRequestLink ==
  ASSUME ClientInv, TicketInv, LinkInv, srv' = srv, processHelloRetryRequest
  PROVE  LinkInv'
<1> DEFINE accepted == UsesECH /\ ConfirmsECH(cli.sh)
           hello == IF accepted THEN cli.inner ELSE cli.hello
           prefix == Append(IF UsesECH THEN cli.innerTranscript ELSE cli.transcript, cli.sh)
           retry == [hello EXCEPT !.keyShares = {cli.sh.selectedGroup}]
           second == RetryPSK(retry, prefix)
           shared == [cli.hello EXCEPT !.keyShares = second.keyShares]
           outer == OuterHello(cli.conf, second, shared)
           sent == IF accepted THEN outer ELSE second
           inner == IF accepted THEN second ELSE cli.inner
           n == IF accepted THEN ServerName ELSE cli.serverName
           t == cli.transcript \o <<cli.sh, sent>>
           rest == IF ~UsesECH THEN <<>> ELSE Append(cli.innerTranscript, cli.sh)
           i == IF accepted THEN Append(rest, second) ELSE rest
<1>0. DOMAIN cli = ClientFields /\ cli.pc = "retry13" /\ ClientTakes
  BY DEF ClientInv, Configured, processHelloRetryRequest, ClientTakes
<1>1. \/ FailClient("refused")
      \/ /\ cli' = [cli EXCEPT !.pc = "readSecondServerHello", !.didHRR = TRUE, !.hello = sent,
                               !.inner = inner, !.echAccepted = accepted,
                               !.serverName = n, !.transcript = t, !.innerTranscript = i]
         /\ toServer' = Append(toServer, sent)
         /\ UNCHANGED <<cache, conns>>
  BY DEF processHelloRetryRequest
<1>2. CASE FailClient("refused")
  BY <1>0, <1>2, FailClientLink
<1>3. CASE
         /\ cli' = [cli EXCEPT !.pc = "readSecondServerHello", !.didHRR = TRUE, !.hello = sent,
                               !.inner = inner, !.echAccepted = accepted,
                               !.serverName = n, !.transcript = t, !.innerTranscript = i]
         /\ toServer' = Append(toServer, sent)
         /\ UNCHANGED <<cache, conns>>
  <2>1. /\ cli.vers = srv.vers /\ Told(cli.sh) /\ cli.vers = TLS13 /\ cli.ems = FALSE
        /\ cli.ticket = None /\ IsSequence(cli.transcript) /\ IsSequence(cli.innerTranscript)
        /\ Greets
    BY <1>0 DEF LinkInv, Follows, Informed, Middle13
  <2>9. sent.type = "clientHello" /\ (UsesECH => inner.type = "clientHello")
    <3>1. /\ cli.hello.type = "clientHello" /\ DOMAIN cli.hello = HelloFields
          /\ UsesECH => cli.inner.type = "clientHello" /\ DOMAIN cli.inner = HelloFields
      BY <1>0, <2>1 DEF ClientInv, Greeted, Started, ClientDone, Binds, Greets, Greeting
    <3>2. hello.type = "clientHello" /\ DOMAIN hello = HelloFields
      BY <3>1
    <3>3. accepted => UsesECH
      OBVIOUS
    <3> HIDE DEF hello, accepted
    <3>4. retry.type = "clientHello" /\ DOMAIN retry = HelloFields
      BY <3>2 DEF HelloFields
    <3> HIDE DEF retry, prefix
    <3>5. second.type = "clientHello"
      BY <3>4, RetriedType
    <3> HIDE DEF second
    <3>6. shared.type = "clientHello" /\ DOMAIN shared = HelloFields
      BY <3>1 DEF HelloFields
    <3> HIDE DEF shared
    <3>7. outer.type = "clientHello"
      BY <3>6 DEF OuterHello, HelloFields
    <3> HIDE DEF outer
    <3> QED
      BY <1>3, <3>1, <3>5, <3>7
  <2> HIDE DEF second, outer, sent, inner, n, accepted
  <2>2. IsSequence(t) /\ IsSequence(i)
    BY <2>1, Sequences1, Sequences2
  <2> HIDE DEF t, i
  <2>3. /\ cli'.vers = cli.vers /\ cli'.sh = cli.sh /\ cli'.pc = "readSecondServerHello"
        /\ cli'.ems = cli.ems /\ cli'.ticket = cli.ticket /\ cli'.transcript = t
        /\ cli'.innerTranscript = i /\ cli'.session = cli.session
        /\ cli'.conf = cli.conf /\ cli'.hello = sent /\ cli'.inner = inner
    BY <1>0, <1>3 DEF ClientFields
  <2>4. Told(cli.sh)'
    BY <1>3, <2>1, <2>3 DEF Told, Said, Halted, Version
  <2>5. Follows'
    BY <2>1, <2>2, <2>3, <2>4, <2>9
    DEF Follows, Fresh, Informed, Middle13, Late13, Late12, Places12, Behind13, Behind12,
        Greets, Greeting, UsesECH
  <2>6. toServer' = toServer \o <<sent>>
    BY <1>3 DEF TicketInv, Hellos
  <2>7. IsSequence(<<sent>>) /\ Elements(<<sent>>) = {sent}
    BY QueueOne DEF IsSequence
  <2>8. ASSUME NEW m \in {sent} PROVE CallTrue(m)'
    <3>1. m.type = "clientHello"
      BY <2>9
    <3>2. srv'.pc # "readClientHello" /\ cli'.pc # "start"
      BY <2>1, <2>3 DEF Told
    <3> QED
      BY <3>1, <3>2 DEF CallTrue
  <2> QED
    BY <1>0, <1>3, <2>3, <2>5, <2>6, <2>7, <2>8, ClientStepLink
<1> QED
  BY <1>1, <1>2, <1>3

\* What is known at the places behind the ServerHello of TLS 1.3.
LEMMA At13 ==
  ASSUME LinkInv, cli.pc \in Late13 \ {"readEncryptedExtensions"}
  PROVE  /\ cli.alpn = srv.alpn
         /\ cli.pc # "readCertificate13" /\ ~cli.didResume => cli.cert = srv.cert
BY DEF LinkInv, Follows, Behind13, Follows13

\* The steps of TLS 1.3 that read the rest of the server's flight.
LEMMA Late13Link ==
  ASSUME ClientInv, TicketInv, LinkInv, srv' = srv,
         \/ readServerParameters \/ ReadCertificateRequest13
         \/ ReadServerCertificate13 \/ ReadCertificateVerify13 \/ readServerFinished
  PROVE  LinkInv'
<1> USE DEF ClientFields, Late13
<1>0. /\ DOMAIN cli = ClientFields /\ ClientTakes /\ toClient # <<>>
      /\ cli.pc \in {"readEncryptedExtensions", "readCertificate13", "readCertificateVerify13",
                     "readFinished13"}
  BY DEF ClientInv, Configured, readServerParameters, ReadCertificateRequest13,
         ReadServerCertificate13, ReadCertificateVerify13, readServerFinished, ClientReads,
         ClientHasMessage, ClientTakes
<1>1. CASE FailClient("refused")
  BY <1>0, <1>1, FailClientLink
<1> DEFINE t == transcriptMsg(cli.transcript, <<FromServer>>)
<1>2. IsSequence(t) /\ ReplyTrue(FromServer)
  BY <1>0, ReadTrue, TranscriptMsg, Sequences1 DEF LinkInv, Follows
<1> HIDE DEF t
<1>3. ASSUME readServerParameters, ~FailClient("refused")
      PROVE  LinkInv'
  <2> DEFINE r == IF cli.echRejected THEN FromServer.retryConfigs ELSE cli.retryConfigs
             l == IF cli.usingPSK THEN "readFinished13" ELSE "readCertificate13"
  <2>1. /\ cli.pc = "readEncryptedExtensions" /\ FromServer.type = "encryptedExtensions"
        /\ ClientGoes([cli EXCEPT !.alpn = FromServer.alpn, !.retryConfigs = r, !.transcript = t,
                                  !.pc = l])
    BY <1>3, Zenon DEF readServerParameters, ClientChecks, ClientReads, t
  <2>2. l = "readFinished13" \/ l = "readCertificate13"
    OBVIOUS
  <2>3. l # "readCertificate13" => cli.didResume
    BY <2>1 DEF LinkInv, Follows, Behind13, Follows13
  <2> HIDE DEF r, l
  <2>4. /\ cli'.pc = l /\ cli'.alpn = FromServer.alpn /\ cli'.transcript = t
        /\ cli'.innerTranscript = cli.innerTranscript
        /\ cli'.vers = cli.vers /\ cli'.sh = cli.sh /\ cli'.suite = cli.suite
        /\ cli'.curve = cli.curve /\ cli'.didResume = cli.didResume
        /\ cli'.usingPSK = cli.usingPSK /\ cli'.ems = cli.ems /\ cli'.ticket = cli.ticket
        /\ cli'.session = cli.session /\ UNCHANGED <<toServer, cache, conns>>
    BY <1>0, <2>1 DEF ClientGoes
  <2>5. cli'.alpn = srv.alpn
    BY <1>2, <2>1, <2>4 DEF ReplyTrue
  <2>6. Follows'
    BY <1>0, <1>2, <2>2, <2>3, <2>4, <2>5, On13
  <2> QED
    BY <1>0, <2>2, <2>4, <2>6, ClientQuietLink
<1>4. ASSUME ReadCertificateRequest13
      PROVE  LinkInv'
  <2>1. /\ cli.pc = "readCertificate13"
        /\ ClientGoes([cli EXCEPT !.certReq = FromServer, !.transcript = t])
    BY <1>4, Zenon DEF ReadCertificateRequest13, ClientReads, t
  <2>2. /\ cli'.pc = cli.pc /\ cli'.alpn = cli.alpn /\ cli'.transcript = t
        /\ cli'.innerTranscript = cli.innerTranscript
        /\ cli'.vers = cli.vers /\ cli'.sh = cli.sh /\ cli'.suite = cli.suite
        /\ cli'.curve = cli.curve /\ cli'.didResume = cli.didResume
        /\ cli'.usingPSK = cli.usingPSK /\ cli'.ems = cli.ems /\ cli'.ticket = cli.ticket
        /\ cli'.session = cli.session /\ UNCHANGED <<toServer, cache, conns>>
    BY <1>0, <2>1 DEF ClientGoes
  <2>3. Follows'
    BY <1>0, <1>2, <2>1, <2>2, On13, At13
  <2> QED
    BY <1>0, <2>1, <2>2, <2>3, ClientQuietLink
<1>5. ASSUME ReadServerCertificate13, ~FailClient("refused")
      PROVE  LinkInv'
  <2>1. /\ cli.pc = "readCertificate13" /\ FromServer.type = "certificate"
        /\ ClientGoes([cli EXCEPT !.cert = FromServer.cert, !.verified = VerifiesChain,
                                  !.transcript = t, !.pc = "readCertificateVerify13"])
    BY <1>5, Zenon DEF ReadServerCertificate13, ClientChecks, ClientReads, t
  <2>2. /\ cli'.pc = "readCertificateVerify13" /\ cli'.alpn = cli.alpn /\ cli'.transcript = t
        /\ cli'.cert = FromServer.cert /\ cli'.innerTranscript = cli.innerTranscript
        /\ cli'.vers = cli.vers /\ cli'.sh = cli.sh /\ cli'.suite = cli.suite
        /\ cli'.curve = cli.curve /\ cli'.didResume = cli.didResume
        /\ cli'.usingPSK = cli.usingPSK /\ cli'.ems = cli.ems /\ cli'.ticket = cli.ticket
        /\ cli'.session = cli.session /\ UNCHANGED <<toServer, cache, conns>>
    BY <1>0, <2>1 DEF ClientGoes
  <2>3. cli'.cert = srv.cert
    BY <1>2, <2>1, <2>2 DEF ReplyTrue
  <2>4. Follows'
    BY <1>0, <1>2, <2>1, <2>2, <2>3, On13, At13
  <2> QED
    BY <1>0, <2>1, <2>2, <2>4, ClientQuietLink
<1>6. ASSUME ReadCertificateVerify13 \/ readServerFinished, ~FailClient("refused")
      PROVE  LinkInv'
  <2>1. /\ cli.pc \in {"readCertificateVerify13", "readFinished13"}
        /\ \E l \in {"readFinished13", "sendCertificate13"} :
             ClientGoes([cli EXCEPT !.transcript = t, !.pc = l])
    BY <1>6, Zenon DEF ReadCertificateVerify13, readServerFinished, ClientChecks, ClientReads, t
  <2> PICK l \in {"readFinished13", "sendCertificate13"} :
             ClientGoes([cli EXCEPT !.transcript = t, !.pc = l])
    BY <2>1
  <2>2. /\ cli'.pc = l /\ cli'.alpn = cli.alpn /\ cli'.transcript = t
        /\ cli'.cert = cli.cert /\ cli'.innerTranscript = cli.innerTranscript
        /\ cli'.vers = cli.vers /\ cli'.sh = cli.sh /\ cli'.suite = cli.suite
        /\ cli'.curve = cli.curve /\ cli'.didResume = cli.didResume
        /\ cli'.usingPSK = cli.usingPSK /\ cli'.ems = cli.ems /\ cli'.ticket = cli.ticket
        /\ cli'.session = cli.session /\ UNCHANGED <<toServer, cache, conns>>
    BY <1>0 DEF ClientGoes
  <2>3. Follows'
    BY <1>0, <1>2, <2>1, <2>2, On13, At13
  <2> QED
    BY <1>0, <2>1, <2>2, <2>3, ClientQuietLink
<1> QED
  BY <1>1, <1>3, <1>4, <1>5, <1>6

\* The client's certificate of TLS 1.3.
LEMMA sendClientCertificateLink ==
  ASSUME ClientInv, TicketInv, LinkInv, srv' = srv, sendClientCertificate
  PROVE  LinkInv'
<1> DEFINE req == cli.certReq
           cert == IF cli.echRejected THEN None
                   ELSE getClientCertificate(cli.conf, TLS13, req.algs, req.cas)
           before == Append(cli.transcript, Certificate(cert))
           verify == CertificateVerify(
                       Signature(cert, selectSignatureScheme(TLS13, cert, req.algs), before))
           rest == IF cert = None THEN <<>> ELSE <<verify>>
           flight == <<Certificate(cert)>> \o rest
           seen == transcriptMsg(cli.transcript, flight)
<1>0. DOMAIN cli = ClientFields /\ ClientTakes /\ cli.pc = "sendCertificate13"
  BY DEF ClientInv, Configured, sendClientCertificate, ClientTakes
<1>1. \/ ClientGoes([cli EXCEPT !.pc = "sendFinished13"])
      \/ /\ cli' = [cli EXCEPT !.transcript = seen, !.pc = "sendFinished13"]
         /\ toServer' = toServer \o flight
         /\ UNCHANGED <<cache, conns>>
  BY Zenon DEF sendClientCertificate
<1>2. IsSequence(cli.transcript)
  BY DEF LinkInv, Follows
<1>3. IsSequence(flight) /\ \A m \in Elements(flight) : CallTrue(m)'
  <2>1. \E c, v : c = Certificate(cert) /\ v = verify
    OBVIOUS
  <2> PICK c, v : c = Certificate(cert) /\ v = verify
    BY <2>1
  <2>2. CallTrue(c)' /\ CallTrue(v)'
    BY DEF CallTrue, Certificate, CertificateVerify
  <2>3. /\ IsSequence(rest) /\ Elements(rest) \subseteq {v}
        /\ IsSequence(<<c>>) /\ Elements(<<c>>) = {c}
    <3> HIDE DEF cert, verify
    <3> QED
      BY QueueOne, QueueNone DEF IsSequence
  <2>4. flight = <<c>> \o rest
    OBVIOUS
  <2> HIDE DEF flight, rest
  <2>5. IsSequence(flight) /\ Elements(flight) \subseteq {c, v}
    BY <2>3, <2>4, QueueConcat DEF IsSequence
  <2> QED
    BY <2>2, <2>5
<1> HIDE DEF flight
<1>4. IsSequence(seen)
  BY <1>2, <1>3, TranscriptMsg
<1> HIDE DEF seen
<1>5. /\ cli'.pc = "sendFinished13" /\ cli'.alpn = cli.alpn
      /\ cli'.transcript = cli.transcript \/ cli'.transcript = seen
      /\ cli'.cert = cli.cert /\ cli'.innerTranscript = cli.innerTranscript
      /\ cli'.vers = cli.vers /\ cli'.sh = cli.sh /\ cli'.suite = cli.suite
      /\ cli'.curve = cli.curve /\ cli'.didResume = cli.didResume
      /\ cli'.usingPSK = cli.usingPSK /\ cli'.ems = cli.ems /\ cli'.ticket = cli.ticket
      /\ cli'.session = cli.session /\ UNCHANGED <<cache, conns>>
  <2>1. UNCHANGED <<cache, conns>>
    BY <1>1 DEF ClientGoes
  <2>2. CASE cli' = [cli EXCEPT !.pc = "sendFinished13"]
    BY <1>0, <2>1, <2>2 DEF ClientFields
  <2>3. CASE cli' = [cli EXCEPT !.transcript = seen, !.pc = "sendFinished13"]
    BY <1>0, <2>1, <2>3 DEF ClientFields
  <2> QED
    BY <1>1, <2>2, <2>3 DEF ClientGoes
<1>6. Follows'
  BY <1>0, <1>2, <1>4, <1>5, On13, At13 DEF Late13
<1>7. CASE toServer' = toServer
  BY <1>0, <1>5, <1>6, <1>7, ClientQuietLink
<1>8. CASE toServer' = toServer \o flight
  BY <1>0, <1>3, <1>5, <1>6, <1>8, ClientStepLink
<1> QED
  BY <1>1, <1>7, <1>8 DEF ClientGoes

\* The Finished of a TLS 1.3 client.
LEMMA sendClientFinishedLink ==
  ASSUME ClientInv, TicketInv, LinkInv, srv' = srv, sendClientFinished
  PROVE  LinkInv'
<1> DEFINE msg == Finished(cli.secret, "client", cli.transcript)
           seen == transcriptMsg(cli.transcript, <<msg>>)
<1>0. DOMAIN cli = ClientFields /\ ClientTakes /\ conns' = conns /\ cli.pc = "sendFinished13"
  BY DEF ClientInv, Configured, sendClientFinished, ClientTakes
<1>1. \/ /\ cli' = [cli EXCEPT !.transcript = seen, !.pc = "failed", !.err = "ech"]
         /\ toServer' = toServer \o <<msg, Alert>>
         /\ cache' \in {cache, None}
      \/ /\ cli' = [cli EXCEPT !.transcript = seen, !.pc = "complete"]
         /\ toServer' = Append(toServer, msg)
         /\ cache' = cache
  BY DEF sendClientFinished
<1>2. IsSequence(cli.transcript)
  BY DEF LinkInv, Follows
<1>3. IsSequence(seen) /\ seen = cli.transcript \o <<Mark("client")>>
  <2>1. Hashed(msg) = Mark("client")
    BY FinishedMark
  <2> HIDE DEF msg
  <2>2. seen = cli.transcript \o <<Hashed(msg)>> /\ IsSequence(<<msg>>)
    BY TranscriptMsg, Sequences1
  <2>3. IsSequence(seen)
    BY <1>2, <2>2, TranscriptMsg
  <2> QED
    BY <2>1, <2>2, <2>3
<1>4. msg.over = cli.transcript /\ msg.type = "finished"
  BY DEF Finished
<1> HIDE DEF msg, seen
<1>5. /\ cli'.pc \in {"failed", "complete"} /\ cli'.alpn = cli.alpn /\ cli'.transcript = seen
      /\ cli'.cert = cli.cert /\ cli'.innerTranscript = cli.innerTranscript
      /\ cli'.vers = cli.vers /\ cli'.sh = cli.sh /\ cli'.suite = cli.suite
      /\ cli'.curve = cli.curve /\ cli'.didResume = cli.didResume
      /\ cli'.usingPSK = cli.usingPSK /\ cli'.ems = cli.ems /\ cli'.ticket = cli.ticket
      /\ cli'.session = cli.session
  <2>1. CASE cli' = [cli EXCEPT !.transcript = seen, !.pc = "failed", !.err = "ech"]
    BY <1>0, <2>1 DEF ClientFields
  <2>2. CASE cli' = [cli EXCEPT !.transcript = seen, !.pc = "complete"]
    BY <1>0, <2>2 DEF ClientFields
  <2> QED
    BY <1>1, <2>1, <2>2
<1>6. ASSUME NEW m \in {msg, Alert} PROVE CallTrue(m)'
  <2>1. CASE m = Alert
    BY <2>1 DEF CallTrue, Alert
  <2>2. CASE m = msg
    <3>1. m.over \o <<Mark("client")>> = cli'.transcript /\ m.type = "finished"
      BY <1>3, <1>4, <1>5, <2>2
    <3>2. Proves(m)'
      BY <1>5, <3>1 DEF Proves, Mark
    <3> QED
      BY <3>1, <3>2 DEF CallTrue
  <2> QED
    BY <2>1, <2>2
<1>7. Follows'
  <2>1. CASE cli'.pc = "complete"
    BY <1>0, <1>3, <1>5, <2>1, On13, At13 DEF Late13
  <2>2. CASE cli'.pc = "failed"
    BY <1>3, <1>5, <2>2
    DEF LinkInv, Follows, Informed, Fresh, Middle13, Late13, Places12, Behind13, Behind12,
        Late12, Greets, Greeting
  <2> QED
    BY <1>5, <2>1, <2>2
<1>8. CASE toServer' = toServer \o <<msg, Alert>>
  <2>1. IsSequence(<<msg, Alert>>) /\ Elements(<<msg, Alert>>) \subseteq {msg, Alert}
    BY Sequences2
  <2> QED
    BY <1>0, <1>1, <1>5, <1>6, <1>7, <1>8, <2>1, ClientStepLink
<1>9. CASE toServer' = Append(toServer, msg)
  <2>1. IsSequence(<<msg>>) /\ Elements(<<msg>>) = {msg}
    BY QueueOne DEF IsSequence
  <2>2. toServer' = toServer \o <<msg>>
    BY <1>9 DEF TicketInv, Hellos
  <2> QED
    BY <1>0, <1>1, <1>5, <1>6, <1>7, <2>1, <2>2, ClientStepLink
<1> QED
  BY <1>1, <1>8, <1>9

\* The session that a ticket of TLS 1.3 goes into is the one in the ticket.
LEMMA handleNewSessionTicketLink ==
  ASSUME ClientInv, TicketInv, LinkInv, srv' = srv, handleNewSessionTicket
  PROVE  LinkInv'
<1>0. /\ ClientTakes /\ toClient # <<>> /\ FromServer.type = "newSessionTicket"
      /\ cli.pc = "complete" /\ UNCHANGED <<cli, toServer, conns>>
      /\ \/ cache' = cache
         \/ cache' = sessionState(conns, now + TicketLifetime, FromServer.ticket)
  BY DEF handleNewSessionTicket, ClientReads, ClientHasMessage, ClientTakes
<1>1. Issued(FromServer.ticket)
  BY <1>0, ReadTrue DEF ReplyTrue
<1>2. FromServer \in Elements(toClient)
  BY <1>0, QueueTail DEF TicketInv, Replies, FromServer
<1>3. cli.vers = TLS13 /\ Follows13
  BY <1>0, <1>2 DEF LinkInv, Follows, Behind12, Behind13, Follows12, NoTicket
<1>4. cli.vers = srv.vers /\ Told(cli.sh) /\ ~cli.sh.hrr
  BY <1>0, <1>3 DEF LinkInv, Follows, Informed, Follows13
<1>5. Said(cli.sh) /\ srv.ems = FALSE
  BY <1>1, <1>3, <1>4 DEF Told, Issued, LinkInv, Stands
<1> DEFINE s == sessionState(conns, now + TicketLifetime, FromServer.ticket)
<1>6. Matches(s)
  <2>1. /\ s.ticket = FromServer.ticket /\ s.secret = conns /\ s.version = cli.vers
        /\ s.suite = cli.suite /\ s.ems = cli.ems /\ s.alpn = cli.alpn /\ s.curve = cli.curve
    BY DEF sessionState
  <2> HIDE DEF s
  <2> QED
    BY <1>0, <1>1, <1>3, <1>4, <1>5, <2>1 DEF Issued, Said, Follows13, Matches
<1> HIDE DEF s
<1>7. Matched'
  BY <1>0, <1>6 DEF LinkInv, Matched, s
<1>8. Heard'
  BY <1>0, HeardStill
<1>9. Called' /\ Stands'
  BY <1>0 DEF LinkInv, Called, CallTrue, CarriesBoth, Carries, Proves, Stands
<1>10. Follows'
  <2>1. Told(cli.sh)' /\ Follows13'
    BY <1>0, <1>3, <1>4 DEF Told, Said, Halted, Version, Follows13
  <2> QED
    BY <1>0, <1>3, <1>4, <2>1
    DEF LinkInv, Follows, Fresh, Middle13, Late12, Places12, Behind12, Greets, Greeting
<1> QED
  BY <1>7, <1>8, <1>9, <1>10 DEF LinkInv

\* The ServerHello of TLS 1.0 to 1.2: a session that the server echoes is
\* resumed.
LEMMA processServerHello12Link ==
  ASSUME ClientInv, TicketInv, LinkInv, srv' = srv, processServerHello12
  PROVE  LinkInv'
<1> DEFINE sh == cli.sh
           resumed == cli.session # None /\ sh.sessionIdEcho
           first == <<cli.hello, sh>>
           full == [cli EXCEPT !.suite = sh.suite, !.alpn = sh.alpn, !.pc = "readCertificate12",
                               !.transcript = first]
           again == [full EXCEPT !.didResume = TRUE, !.pc = "readTicket12",
                       !.secret = cli.session.secret, !.ems = cli.session.ems,
                       !.cert = cli.session.cert, !.verified = cli.session.verified,
                       !.curve = cli.session.curve]
<1>0. DOMAIN cli = ClientFields /\ cli.pc = "process12" /\ ClientTakes
  BY DEF ClientInv, Configured, processServerHello12, ClientTakes
<1>1. \/ FailClient("refused")
      \/ /\ cli.session = None => ~sh.sessionIdEcho
         /\ \/ resumed /\ ClientGoes(again)
            \/ ~resumed /\ ClientGoes(full)
  BY Zenon DEF processServerHello12, ClientChecks
<1>2. CASE FailClient("refused")
  BY <1>0, <1>2, FailClientLink
<1>3. ASSUME ~FailClient("refused")
      PROVE  LinkInv'
  <2>0. IsSequence(first)
    BY Sequences2
  <2>1. /\ cli.vers = srv.vers /\ Told(sh) /\ ~sh.hrr /\ cli.vers # TLS13 /\ cli.curve = None
        /\ cli.ems = FALSE /\ cli.ticket = None /\ cli.didResume = FALSE
        /\ sh.sessionIdEcho \in BOOLEAN /\ IsSequence(cli.innerTranscript)
    BY <1>0 DEF LinkInv, Follows, Informed, Fresh, Places12, Told
  <2> HIDE DEF first
  <2>2. /\ DOMAIN full = ClientFields /\ full.suite = sh.suite /\ full.alpn = sh.alpn
        /\ full.pc = "readCertificate12" /\ full.transcript = first
        /\ full.innerTranscript = cli.innerTranscript /\ full.vers = cli.vers
        /\ full.sh = sh /\ full.session = cli.session /\ full.didResume = cli.didResume
        /\ full.ticket = cli.ticket /\ full.curve = cli.curve /\ full.ems = cli.ems
    BY <1>0 DEF ClientFields
  <2> HIDE DEF full
  <2>3. /\ again.suite = sh.suite /\ again.alpn = sh.alpn
        /\ again.pc = "readTicket12" /\ again.transcript = first
        /\ again.innerTranscript = cli.innerTranscript /\ again.vers = cli.vers
        /\ again.sh = sh /\ again.session = cli.session /\ again.didResume = TRUE
        /\ again.ticket = cli.ticket /\ again.curve = cli.session.curve
        /\ again.ems = cli.session.ems
    BY <2>2 DEF ClientFields
  <2> HIDE DEF again
  <2>4. /\ cli'.suite = sh.suite /\ cli'.alpn = sh.alpn /\ cli'.transcript = first
        /\ cli'.innerTranscript = cli.innerTranscript /\ cli'.vers = cli.vers
        /\ cli'.sh = sh /\ cli'.session = cli.session /\ cli'.ticket = cli.ticket
        /\ cli'.pc \in {"readCertificate12", "readTicket12"}
        /\ UNCHANGED <<toServer, cache, conns>>
    BY <1>1, <1>3, <2>2, <2>3 DEF ClientGoes
  <2>5. Told(cli.sh)'
    BY <2>1, <2>4 DEF Told, Said, Halted, Version
  <2>6. Follows12'
    <3>1. CASE sh.sessionIdEcho = TRUE
      <4>1. cli.session # None /\ ClientGoes(again)
        BY <1>1, <1>3, <3>1
      <4>2. /\ cli'.didResume = TRUE /\ cli'.curve = cli.session.curve
            /\ cli'.ems = cli.session.ems /\ cli'.pc = "readTicket12"
        BY <2>3, <4>1 DEF ClientGoes
      <4> QED
        BY <2>1, <2>4, <3>1, <4>1, <4>2 DEF Follows12
    <3>2. CASE sh.sessionIdEcho = FALSE
      <4>1. ClientGoes(full)
        BY <1>1, <1>3, <3>2
      <4>2. /\ cli'.didResume = FALSE /\ cli'.curve = None
            /\ cli'.ems = FALSE /\ cli'.pc = "readCertificate12"
        BY <2>1, <2>2, <4>1 DEF ClientGoes
      <4> QED
        BY <2>1, <2>4, <3>2, <4>1, <4>2 DEF Follows12
    <3> QED
      BY <2>1, <3>1, <3>2
  <2>7. Follows'
    BY <2>0, <2>1, <2>4, <2>5, <2>6
    DEF Follows, Fresh, Informed, Middle13, Late13, Late12, Places12, Behind13, Behind12,
        Greets, Greeting
  <2> QED
    BY <1>0, <2>4, <2>7, ClientQuietLink
<1> QED
  BY <1>2, <1>3

\* What is known at the places behind the ServerHello of TLS 1.0 to 1.2.
LEMMA At12 ==
  ASSUME LinkInv, cli.pc \in Late12
  PROVE  /\ Follows12 /\ Told(cli.sh) /\ cli.vers = srv.vers /\ srv.vers # TLS13
         /\ cli.didResume \in BOOLEAN
         /\ ~Halted => /\ srv.suite = cli.suite /\ srv.alpn = cli.alpn
                       /\ srv.didResume = cli.didResume /\ cli.sh.ems = srv.sh.ems
<1>1. Follows12 /\ Told(cli.sh) /\ cli.vers = srv.vers
  BY DEF LinkInv, Follows, Behind12, Late12, Informed
<1> QED
  BY <1>1 DEF Told, Said, Follows12

\* The steps of a full handshake of TLS 1.0 to 1.2 that read the server's
\* flight.
LEMMA Late12Link ==
  ASSUME ClientInv, TicketInv, LinkInv, srv' = srv,
         \/ ReadServerCertificate12 \/ ReadCertificateStatus12 \/ VerifyServerCertificate12
         \/ ReadServerKeyExchange12 \/ ReadCertificateRequest12
  PROVE  LinkInv'
<1> USE DEF ClientFields
<1>0. /\ DOMAIN cli = ClientFields /\ ClientTakes /\ toClient # <<>>
      /\ cli.pc \in {"readCertificate12", "readStatus12", "verify12", "readKeyExchange12",
                     "readRequest12"}
  BY DEF ClientInv, Configured, ReadServerCertificate12, ReadCertificateStatus12,
         VerifyServerCertificate12, ReadServerKeyExchange12, ReadCertificateRequest12,
         ClientReads, ClientHasMessage, ClientTakes
<1>1. CASE FailClient("refused")
  BY <1>0, <1>1, FailClientLink
<1> DEFINE t == transcriptMsg(cli.transcript, <<FromServer>>)
<1>2. IsSequence(cli.transcript) /\ IsSequence(t) /\ ReplyTrue(FromServer)
  BY <1>0, ReadTrue, TranscriptMsg, Sequences1 DEF LinkInv, Follows
<1> HIDE DEF t
<1>3. /\ cli.pc \in Late12 /\ ~cli.didResume /\ (Halted \/ cli.curve \in {None, srv.curve})
      /\ cli.pc # "readCertificate12" => cli.cert = srv.cert
  BY <1>0, At12 DEF Late12, Places12, Follows12
<1> DEFINE Reads == /\ cli'.vers = cli.vers /\ cli'.sh = cli.sh /\ cli'.suite = cli.suite
                    /\ cli'.alpn = cli.alpn /\ cli'.session = cli.session
                    /\ cli'.didResume = cli.didResume /\ cli'.ticket = cli.ticket
                    /\ cli'.innerTranscript = cli.innerTranscript
                    /\ cli'.transcript = cli.transcript \/ cli'.transcript = t
                    /\ UNCHANGED <<toServer, cache, conns>>
           Next12 == {"readStatus12", "verify12", "readKeyExchange12", "readRequest12",
                      "readHelloDone12"}
<1>4. ASSUME Reads, cli'.pc \in Next12,
             Halted \/ cli'.curve \in {None, srv.curve}, cli'.cert = srv.cert
      PROVE  LinkInv'
  <2>1. cli'.pc \in Late12
    BY <1>4 DEF Late12, Places12
  <2>2. Follows'
    BY <1>2, <1>3, <1>4, <2>1, On12
  <2> QED
    BY <1>0, <1>4, <2>2, ClientQuietLink
<1>5. CASE ReadServerCertificate12
  <2>1. \/ FailClient("refused")
        \/ /\ FromServer.type = "certificate"
           /\ ClientGoes([cli EXCEPT !.cert = FromServer.cert, !.transcript = t,
                                     !.pc = "readStatus12"])
    BY <1>5, Zenon DEF ReadServerCertificate12, ClientReads, ClientChecks, t
  <2>2. CASE /\ FromServer.type = "certificate"
             /\ ClientGoes([cli EXCEPT !.cert = FromServer.cert, !.transcript = t,
                                       !.pc = "readStatus12"])
    <3>1. Reads /\ cli'.pc = "readStatus12" /\ cli'.curve = cli.curve /\ cli'.cert = FromServer.cert
      BY <1>0, <2>2 DEF ClientGoes
    <3>2. FromServer.cert = srv.cert
      BY <1>2, <2>2 DEF ReplyTrue
    <3> HIDE DEF Reads
    <3> QED
      BY <1>3, <1>4, <3>1, <3>2
  <2> QED
    BY <1>1, <2>1, <2>2
<1>6. CASE ReadCertificateStatus12
  <2>1. /\ cli.pc = "readStatus12"
        /\ \/ FailClient("refused")
           \/ ClientGoes([cli EXCEPT !.pc = "verify12"])
           \/ ClientGoes([cli EXCEPT !.transcript = t, !.pc = "verify12"])
    BY <1>6 DEF ReadCertificateStatus12, ClientChecks, t
  <2>2. CASE ClientGoes([cli EXCEPT !.pc = "verify12"])
    <3>1. Reads /\ cli'.pc = "verify12" /\ cli'.curve = cli.curve /\ cli'.cert = cli.cert
      BY <1>0, <2>2 DEF ClientGoes
    <3> HIDE DEF Reads
    <3> QED
      BY <1>3, <1>4, <2>1, <3>1
  <2>3. CASE ClientGoes([cli EXCEPT !.transcript = t, !.pc = "verify12"])
    <3>1. Reads /\ cli'.pc = "verify12" /\ cli'.curve = cli.curve /\ cli'.cert = cli.cert
      BY <1>0, <2>3 DEF ClientGoes
    <3> HIDE DEF Reads
    <3> QED
      BY <1>3, <1>4, <2>1, <3>1
  <2> QED
    BY <1>1, <2>1, <2>2, <2>3
<1>7. CASE VerifyServerCertificate12
  <2>1. /\ cli.pc = "verify12"
        /\ \/ FailClient("refused")
           \/ \E v : ClientGoes([cli EXCEPT !.verified = v, !.pc = "readKeyExchange12"])
    BY <1>7, Zenon DEF VerifyServerCertificate12, ClientChecks
  <2>2. ASSUME NEW v, ClientGoes([cli EXCEPT !.verified = v, !.pc = "readKeyExchange12"])
        PROVE  LinkInv'
    <3>1. /\ Reads /\ cli'.pc = "readKeyExchange12" /\ cli'.curve = cli.curve
          /\ cli'.cert = cli.cert
      BY <1>0, <2>2 DEF ClientGoes
    <3> HIDE DEF Reads
    <3> QED
      BY <1>3, <1>4, <2>1, <3>1
  <2> QED
    BY <1>1, <2>1, <2>2
<1>8. CASE ReadServerKeyExchange12
  <2>1. /\ cli.pc = "readKeyExchange12"
        /\ \/ FailClient("refused")
           \/ ClientGoes([cli EXCEPT !.pc = "readRequest12"])
           \/ /\ FromServer.type = "serverKeyExchange"
              /\ ClientGoes([cli EXCEPT !.curve = FromServer.curve, !.transcript = t,
                                        !.pc = "readRequest12"])
    BY <1>8 DEF ReadServerKeyExchange12, ClientChecks, t
  <2>2. CASE ClientGoes([cli EXCEPT !.pc = "readRequest12"])
    <3>1. Reads /\ cli'.pc = "readRequest12" /\ cli'.curve = cli.curve /\ cli'.cert = cli.cert
      BY <1>0, <2>2 DEF ClientGoes
    <3> HIDE DEF Reads
    <3> QED
      BY <1>3, <1>4, <2>1, <3>1
  <2>3. CASE /\ FromServer.type = "serverKeyExchange"
             /\ ClientGoes([cli EXCEPT !.curve = FromServer.curve, !.transcript = t,
                                       !.pc = "readRequest12"])
    <3>1. /\ Reads /\ cli'.pc = "readRequest12" /\ cli'.curve = FromServer.curve
          /\ cli'.cert = cli.cert
      BY <1>0, <2>3 DEF ClientGoes
    <3>2. FromServer.curve = srv.curve
      BY <1>2, <2>3 DEF ReplyTrue
    <3> HIDE DEF Reads
    <3> QED
      BY <1>3, <1>4, <2>1, <3>1, <3>2
  <2> QED
    BY <1>1, <2>1, <2>2, <2>3
<1>9. CASE ReadCertificateRequest12
  <2>1. /\ cli.pc = "readRequest12"
        /\ \/ ClientGoes([cli EXCEPT !.pc = "readHelloDone12"])
           \/ ClientGoes([cli EXCEPT !.certReq = FromServer, !.transcript = t,
                                     !.pc = "readHelloDone12"])
    BY <1>9 DEF ReadCertificateRequest12, t
  <2>2. CASE ClientGoes([cli EXCEPT !.pc = "readHelloDone12"])
    <3>1. Reads /\ cli'.pc = "readHelloDone12" /\ cli'.curve = cli.curve /\ cli'.cert = cli.cert
      BY <1>0, <2>2 DEF ClientGoes
    <3> HIDE DEF Reads
    <3> QED
      BY <1>3, <1>4, <2>1, <3>1
  <2>3. CASE ClientGoes([cli EXCEPT !.certReq = FromServer, !.transcript = t,
                                    !.pc = "readHelloDone12"])
    <3>1. Reads /\ cli'.pc = "readHelloDone12" /\ cli'.curve = cli.curve /\ cli'.cert = cli.cert
      BY <1>0, <2>3 DEF ClientGoes
    <3> HIDE DEF Reads
    <3> QED
      BY <1>3, <1>4, <2>1, <3>1
  <2> QED
    BY <2>1, <2>2, <2>3
<1> QED
  BY <1>5, <1>6, <1>7, <1>8, <1>9

\* The second flight of a TLS 1.0-1.2 client: it has the server's curve, or
\* the suite needs none.
LEMMA ReadServerHelloDone12Link ==
  ASSUME ClientInv, TicketInv, LinkInv, srv' = srv, ReadServerHelloDone12
  PROVE  LinkInv'
<1> DEFINE req == cli.certReq
           cert == IF req = None THEN None
                   ELSE getClientCertificate(cli.conf, cli.vers, requestedSchemes(req), req.cas)
           exchange == IF "ECDHE" \in Flags(cli.suite) THEN cli.curve ELSE "RSA"
           afterDone == Append(cli.transcript, FromServer)
           shown == IF req = None THEN <<>> ELSE <<Certificate(cert)>>
           key == <<ClientKeyExchange(exchange)>>
           first == shown \o key
           secret == masterSecret(cli.sh.ems, exchange, afterDone \o first)
           alg == CASE cert = None -> None
                    [] cert # None /\ cli.vers >= TLS12 ->
                         selectSignatureScheme(cli.vers, cert, req.algs)
                    [] OTHER -> legacySigType(cert.key)
           sig == CertificateVerify(Signature(cert, alg, afterDone \o first))
           verify == IF cert = None THEN <<>> ELSE <<sig>>
           signed == transcriptMsg(afterDone \o first, verify)
           finished == Finished(secret, "client", signed)
           seen == transcriptMsg(signed, <<finished>>)
<1>0. DOMAIN cli = ClientFields /\ ClientTakes /\ cli.pc = "readHelloDone12"
  BY DEF ClientInv, Configured, ReadServerHelloDone12, ClientReads, ClientHasMessage, ClientTakes
<1>1. \/ FailClient("refused")
      \/ /\ CanExchangeKeys
         /\ cli' = [cli EXCEPT !.secret = secret, !.ems = cli.sh.ems, !.transcript = seen,
                               !.pc = "readTicket12"]
         /\ toServer' = toServer \o first \o verify \o <<finished>>
         /\ UNCHANGED <<cache, conns>>
  BY Zenon DEF ReadServerHelloDone12
<1>2. CASE FailClient("refused")
  BY <1>0, <1>2, FailClientLink
<1>3. IsSequence(cli.transcript)
  BY DEF LinkInv, Follows
<1>4. /\ shown = <<>> \/ shown = <<Certificate(cert)>>
      /\ verify = <<>> \/ verify = <<sig>>
      /\ finished.type = "finished" /\ sig.type = "certificateVerify"
      /\ Certificate(cert).type = "certificate"
      /\ ClientKeyExchange(exchange).type = "clientKeyExchange"
  <2> HIDE DEF cert, exchange, secret, alg, first, signed
  <2> QED
    BY DEF Finished, CertificateVerify, Certificate, ClientKeyExchange
<1> DEFINE c == Certificate(cert)
           k == ClientKeyExchange(exchange)
<1> HIDE DEF cert, exchange, sig, finished, secret, shown, verify, c, k
<1>5. /\ IsSequence(shown) /\ Elements(shown) \subseteq {c}
      /\ IsSequence(verify) /\ Elements(verify) \subseteq {sig}
      /\ IsSequence(<<finished>>) /\ Elements(<<finished>>) = {finished}
      /\ IsSequence(key) /\ Elements(key) = {k}
  BY <1>4, QueueOne, QueueNone DEF IsSequence, c, k
<1> HIDE DEF key
<1>6. IsSequence(first) /\ Elements(first) \subseteq {c, k}
  BY <1>5, QueueConcat DEF IsSequence
<1> HIDE DEF first
<1>7. IsSequence(signed) /\ IsSequence(seen)
  <2>1. IsSequence(afterDone \o first)
    BY <1>3, <1>6, Sequences1
  <2> QED
    BY <1>5, <2>1, TranscriptMsg
<1> HIDE DEF signed, seen
<1> DEFINE last == <<finished>>
           front == first \o verify
           flight == front \o last
<1>8. IsSequence(flight) /\ Elements(flight) \subseteq {c, k, sig, finished}
  <2>1. IsSequence(front) /\ Elements(front) \subseteq {c, k, sig}
    BY <1>5, <1>6, QueueConcat DEF IsSequence
  <2>2. IsSequence(last) /\ Elements(last) = {finished}
    BY <1>5
  <2> HIDE DEF front, last
  <2> QED
    BY <2>1, <2>2, QueueConcat DEF IsSequence
<1>9. ASSUME CanExchangeKeys,
             cli' = [cli EXCEPT !.secret = secret, !.ems = cli.sh.ems, !.transcript = seen,
                                !.pc = "readTicket12"],
             toServer' = toServer \o first \o verify \o <<finished>>,
             UNCHANGED <<cache, conns>>
      PROVE  LinkInv'
  <2>1. toServer' = toServer \o flight
    <3> DEFINE S == Elements(toServer) \cup Elements(first) \cup Elements(verify) \cup {finished}
    <3>1. /\ toServer \in Seq(S) /\ first \in Seq(S) /\ verify \in Seq(S) /\ finished \in S
          /\ <<finished>> \in Seq(S)
      BY <1>5, <1>6 DEF TicketInv, Hellos, IsSequence
    <3> HIDE DEF S
    <3>2. last \in Seq(S) /\ toServer' = toServer \o first \o verify \o last
      BY <1>9, <3>1
    <3> HIDE DEF last
    <3>3. toServer \o first \o verify \o last = toServer \o (first \o verify \o last)
      <4>1. front \in Seq(S)
        BY <3>1
      <4>2. (toServer \o first) \o verify = toServer \o front
        BY <3>1, ConcatAssociative
      <4> HIDE DEF front
      <4>0. toServer \in Seq(S) /\ last \in Seq(S)
        BY <3>1, <3>2
      <4>3. (toServer \o front) \o last = toServer \o (front \o last)
        BY <4>0, <4>1, ConcatAssociative
      <4> QED
        BY <4>2, <4>3 DEF front
    <3> QED
      BY <3>2, <3>3
  <2> HIDE DEF flight
  <2>2. /\ cli'.pc = "readTicket12" /\ cli'.ems = cli.sh.ems /\ cli'.transcript = seen
        /\ cli'.vers = cli.vers /\ cli'.sh = cli.sh /\ cli'.suite = cli.suite
        /\ cli'.alpn = cli.alpn /\ cli'.session = cli.session
        /\ cli'.didResume = cli.didResume /\ cli'.ticket = cli.ticket
        /\ cli'.innerTranscript = cli.innerTranscript /\ cli'.curve = cli.curve
        /\ cli'.cert = cli.cert
    BY <1>0, <1>9 DEF ClientFields
  <2>3. /\ cli.pc \in Late12 /\ ~cli.didResume /\ (Halted \/ cli.curve \in {None, srv.curve})
        /\ cli.cert = srv.cert
    BY <1>0, At12 DEF Late12, Places12, Follows12
  <2>4. Halted \/ cli.curve = srv.curve
    <3> SUFFICES ASSUME ~Halted PROVE cli.curve = srv.curve
      OBVIOUS
    <3>1. srv.suite = cli.suite /\ ~srv.didResume /\ srv.vers # TLS13
      BY <2>3, At12
    <3>2. srv.curve = None \/ "ECDHE" \in Flags(srv.suite)
      BY <3>1 DEF LinkInv, Stands
    <3> QED
      BY <1>9, <2>3, <3>1, <3>2 DEF CanExchangeKeys
  <2>5. cli'.pc \in Late12
    BY <2>2 DEF Late12, Places12
  <2>6. Follows'
    BY <1>7, <1>9, <2>2, <2>3, <2>4, <2>5, On12
  <2>7. ASSUME NEW m \in {c, k, sig, finished} PROVE CallTrue(m)'
    <3>1. m.type \in {"certificate", "clientKeyExchange", "certificateVerify", "finished"}
      BY <1>4 DEF c, k
    <3>2. cli'.vers # TLS13 /\ ~cli'.didResume
      BY <2>2, <2>3, At12
    <3> QED
      BY <2>2, <3>1, <3>2 DEF CallTrue, Proves
  <2> QED
    BY <1>0, <1>8, <1>9, <2>1, <2>2, <2>6, <2>7, ClientStepLink
<1> QED
  BY <1>1, <1>2, <1>9

\* The ticket of TLS 1.0 to 1.2.
LEMMA readSessionTicketLink ==
  ASSUME ClientInv, TicketInv, LinkInv, srv' = srv, readSessionTicket
  PROVE  LinkInv'
<1>0. DOMAIN cli = ClientFields /\ ClientTakes /\ cli.pc = "readTicket12"
  BY DEF ClientInv, Configured, readSessionTicket, ClientReads, ClientHasMessage, ClientTakes
<1> DEFINE t == transcriptMsg(cli.transcript, <<FromServer>>)
<1>1. \/ FailClient("refused")
      \/ ClientGoes([cli EXCEPT !.pc = "readFinished12"])
      \/ /\ toClient # <<>> /\ FromServer.type = "newSessionTicket"
         /\ ClientGoes([cli EXCEPT !.ticket = FromServer.ticket, !.transcript = t,
                                   !.pc = "readFinished12"])
  BY Zenon DEF readSessionTicket, ClientReads, ClientHasMessage, ClientChecks
<1>2. IsSequence(cli.transcript) /\ IsSequence(t)
  BY TranscriptMsg, Sequences1 DEF LinkInv, Follows
<1> HIDE DEF t
<1>3. CASE FailClient("refused")
  BY <1>0, <1>3, FailClientLink
<1>4. ASSUME ~FailClient("refused")
      PROVE  LinkInv'
  <2>1. /\ cli'.pc = "readFinished12" /\ cli'.ems = cli.ems
        /\ cli'.transcript = cli.transcript \/ cli'.transcript = t
        /\ cli'.vers = cli.vers /\ cli'.sh = cli.sh /\ cli'.suite = cli.suite
        /\ cli'.alpn = cli.alpn /\ cli'.session = cli.session
        /\ cli'.didResume = cli.didResume
        /\ cli'.innerTranscript = cli.innerTranscript /\ cli'.curve = cli.curve
        /\ cli'.cert = cli.cert
        /\ UNCHANGED <<toServer, cache, conns>>
    <3>1. CASE ClientGoes([cli EXCEPT !.pc = "readFinished12"])
      BY <1>0, <3>1 DEF ClientGoes, ClientFields
    <3>2. CASE ClientGoes([cli EXCEPT !.ticket = FromServer.ticket, !.transcript = t,
                                      !.pc = "readFinished12"])
      BY <1>0, <3>2 DEF ClientGoes, ClientFields
    <3> QED
      BY <1>1, <1>4, <3>1, <3>2
  <2>2. cli'.ticket = cli.ticket \/ Issued(cli'.ticket)
    <3>1. CASE ClientGoes([cli EXCEPT !.pc = "readFinished12"])
      BY <1>0, <3>1 DEF ClientGoes, ClientFields
    <3>2. CASE /\ toClient # <<>> /\ FromServer.type = "newSessionTicket"
               /\ ClientGoes([cli EXCEPT !.ticket = FromServer.ticket, !.transcript = t,
                                         !.pc = "readFinished12"])
      <4>1. Issued(FromServer.ticket)
        BY <3>2, ReadTrue DEF ReplyTrue
      <4>2. cli'.ticket = FromServer.ticket
        BY <1>0, <3>2 DEF ClientGoes, ClientFields
      <4> QED
        BY <4>1, <4>2
    <3> QED
      BY <1>1, <1>4, <3>1, <3>2
  <2>3. cli.pc \in Late12 /\ cli'.pc \in Late12
    BY <1>0, <2>1 DEF Late12, Places12
  <2>4. ~cli.didResume =>
          /\ Halted \/ cli.curve \in {None, srv.curve}
          /\ cli.ems = cli.sh.ems /\ (Halted \/ cli.curve = srv.curve)
          /\ cli.cert = srv.cert
    BY <1>0, <2>3, At12 DEF Follows12
  <2>5. Follows'
    BY <1>2, <2>1, <2>2, <2>3, <2>4, On12
  <2> QED
    BY <1>0, <2>1, <2>5, ClientQuietLink
<1> QED
  BY <1>3, <1>4

\* The end of a handshake of TLS 1.0 to 1.2: the client has what the server
\* has, and the session it saves is the one in the ticket.
LEMMA Saved12 ==
  ASSUME LinkInv, cli.pc = "readFinished12", cli.ticket # None, NEW s,
         srv.pc \notin Unsent, ~Halted, ~cli.didResume => srv.pc = "complete",
         s.ticket = cli.ticket, s.version = cli.vers, s.suite = cli.suite, s.ems = cli.ems,
         s.alpn = cli.alpn, s.curve = cli.curve,
         s.secret = IF cli.didResume THEN cli.session.secret ELSE conns
  PROVE  Matches(s)
<1>1. cli.pc \in Late12
  BY DEF Late12, Places12
<1>2. /\ Follows12 /\ cli.vers = srv.vers /\ srv.vers # TLS13 /\ cli.didResume \in BOOLEAN
      /\ srv.suite = cli.suite /\ srv.alpn = cli.alpn
      /\ srv.didResume = cli.didResume /\ cli.sh.ems = srv.sh.ems
  BY <1>1, At12
<1>3. Issued(cli.ticket)
  BY <1>2 DEF Follows12
<1>4. CASE cli.didResume
  <2>1. /\ cli.session # None /\ cli.curve = cli.session.curve /\ cli.ems = cli.session.ems
    BY <1>2, <1>4 DEF Follows12
  <2>2. /\ srv.session = cli.session.ticket.state
        /\ srv.curve = srv.session.curve /\ srv.ems = srv.session.ems
    BY <1>2, <1>4 DEF LinkInv, Stands
  <2>3. Matches(cli.session)
    BY <2>1 DEF LinkInv, Matched
  <2> QED
    BY <1>2, <1>3, <1>4, <2>1, <2>2, <2>3 DEF Issued, Matches
<1>5. CASE ~cli.didResume
  <2>1. cli.ems = cli.sh.ems /\ cli.curve = srv.curve
    BY <1>2, <1>5 DEF Follows12
  <2>2. srv.ems = srv.sh.ems
    BY <1>2, <1>5 DEF LinkInv, Stands
  <2> QED
    BY <1>2, <1>3, <1>5, <2>1, <2>2 DEF Issued, Matches
<1> QED
  BY <1>4, <1>5

LEMMA readFinishedLink ==
  ASSUME ClientInv, TicketInv, LinkInv, srv' = srv, readFinished
  PROVE  LinkInv'
<1> DEFINE seen == transcriptMsg(cli.transcript, <<FromServer>>)
           finished == Finished(cli.secret, "client", seen)
           secret == IF cli.didResume THEN cli.session.secret ELSE conns
           s == sessionState(secret, 0, cli.ticket)
           t == IF cli.didResume THEN transcriptMsg(seen, <<finished>>) ELSE seen
<1>0. /\ DOMAIN cli = ClientFields /\ ClientTakes /\ cli.pc = "readFinished12"
      /\ toClient # <<>> /\ toClient' = Tail(toClient)
  BY DEF ClientInv, Configured, readFinished, ClientReads, ClientHasMessage, ClientTakes
<1>1. \/ FailClient("refused")
      \/ /\ FromServer = Finished(cli.secret, "server", cli.transcript)
         /\ cli' = [cli EXCEPT !.pc = "complete", !.transcript = t]
         /\ toServer' = IF cli.didResume THEN Append(toServer, finished) ELSE toServer
         /\ cache' = IF cli.ticket = None THEN cache ELSE s
         /\ conns' = conns
  BY Zenon DEF readFinished
<1>2. CASE FailClient("refused")
  BY <1>0, <1>2, FailClientLink
<1>3. ASSUME FromServer = Finished(cli.secret, "server", cli.transcript),
             cli' = [cli EXCEPT !.pc = "complete", !.transcript = t],
             toServer' = IF cli.didResume THEN Append(toServer, finished) ELSE toServer,
             cache' = IF cli.ticket = None THEN cache ELSE s,
             conns' = conns
      PROVE  LinkInv'
  <2>1. /\ IsSequence(cli.transcript) /\ IsSequence(seen)
        /\ seen = cli.transcript \o <<Mark("server")>>
    <3>1. Hashed(FromServer) = Mark("server")
      BY <1>3, FinishedMark
    <3>2. IsSequence(cli.transcript) /\ IsSequence(<<FromServer>>)
      BY Sequences1 DEF LinkInv, Follows
    <3> QED
      BY <3>1, <3>2, TranscriptMsg
  <2>2. /\ transcriptMsg(seen, <<finished>>) = seen \o <<Mark("client")>>
        /\ IsSequence(transcriptMsg(seen, <<finished>>))
        /\ finished.over = seen /\ finished.type = "finished"
    <3> HIDE DEF seen
    <3>1. Hashed(finished) = Mark("client") /\ finished.over = seen /\ finished.type = "finished"
      BY FinishedMark DEF Finished
    <3> HIDE DEF finished
    <3>2. IsSequence(<<finished>>) /\ IsSequence(seen)
      BY <2>1, Sequences1
    <3>3. transcriptMsg(seen, <<finished>>) = seen \o <<Hashed(finished)>>
      BY TranscriptMsg
    <3>4. IsSequence(transcriptMsg(seen, <<finished>>))
      BY <3>2, TranscriptMsg
    <3> QED
      BY <3>1, <3>3, <3>4
  <2>3. FromServer.over = cli.transcript /\ FromServer.type = "finished"
    BY <1>3 DEF Finished
  <2>4. Sealing(FromServer)
    BY <1>0, <2>3, ReadTrue DEF ReplyTrue
  <2>5. cli.pc \in Late12
    BY <1>0 DEF Late12, Places12
  <2>6. /\ Follows12 /\ Told(cli.sh) /\ cli.vers = srv.vers /\ srv.vers # TLS13
        /\ cli.didResume \in BOOLEAN /\ ~Halted /\ srv.pc \notin Unsent
        /\ srv.didResume = cli.didResume
    BY <2>4, <2>5, At12 DEF Sealing
  <2>7. ~cli.didResume => srv.pc = "complete" /\ srv.transcript = seen
    BY <2>1, <2>3, <2>4, <2>6 DEF Sealing
  <2>8. NoTicket(toClient')
    <3>1. InOrder(toClient) /\ IsSequence(toClient)
      BY <2>6 DEF LinkInv, Heard, TicketInv, Replies, IsSequence
    <3> QED
      BY <1>0, <2>3, <3>1, InOrderTail DEF FromServer
  <2>9. cache' # None => cache' = cache \/ Matches(cache')
    <3>1. /\ s.ticket = cli.ticket /\ s.version = cli.vers /\ s.suite = cli.suite
          /\ s.ems = cli.ems /\ s.alpn = cli.alpn /\ s.curve = cli.curve
          /\ s.secret = secret
      BY DEF sessionState
    <3> HIDE DEF s
    <3>2. cli.ticket # None => Matches(s)
      BY <1>0, <2>6, <2>7, <3>1, Saved12
    <3> QED
      BY <1>3, <3>2
  <2>10. IsSequence(t) /\ (~cli.didResume => t = srv.transcript)
         /\ (cli.didResume => t = seen \o <<Mark("client")>>)
    BY <2>1, <2>2, <2>7
  <2> HIDE DEF t, s, seen, finished
  <2>11. /\ cli'.pc = "complete" /\ cli'.ems = cli.ems /\ cli'.transcript = t
         /\ cli'.vers = cli.vers /\ cli'.sh = cli.sh /\ cli'.suite = cli.suite
         /\ cli'.alpn = cli.alpn /\ cli'.session = cli.session
         /\ cli'.didResume = cli.didResume /\ cli'.ticket = cli.ticket
         /\ cli'.innerTranscript = cli.innerTranscript /\ cli'.curve = cli.curve
         /\ cli'.cert = cli.cert
    BY <1>0, <1>3 DEF ClientFields
  <2>12. Told(cli.sh)'
    BY <2>6, <2>11 DEF Told, Said, Halted, Version
  <2>13. Follows12'
    <3>1. cli'.ticket # None => Issued(cli.ticket)'
      BY <1>3, <2>6, <2>11 DEF Follows12, Issued, Halted
    <3>2. ~Halted'
      BY <2>6 DEF Halted
    <3> QED
      BY <1>0, <2>6, <2>7, <2>8, <2>10, <2>11, <3>1, <3>2 DEF Follows12
  <2>14. Follows'
    <3>1. IsSequence(cli.innerTranscript)
      BY DEF LinkInv, Follows
    <3> QED
      BY <2>6, <2>10, <2>11, <2>12, <2>13, <3>1
      DEF Follows, Fresh, Informed, Middle13, Late13, Late12, Places12, Behind13, Behind12,
          Greets, Greeting
  <2>15. CASE ~cli.didResume
    <3>1. toServer' = toServer \o <<>>
      BY <1>3, <2>15 DEF TicketInv, Hellos
    <3>2. IsSequence(<<>>) /\ Elements(<<>>) = {}
      BY QueueNone DEF IsSequence
    <3> QED
      BY <1>0, <1>3, <2>9, <2>11, <2>14, <3>1, <3>2, ClientStepLink
  <2>16. CASE cli.didResume
    <3>1. toServer' = toServer \o <<finished>>
      BY <1>3, <2>16 DEF TicketInv, Hellos
    <3>2. IsSequence(<<finished>>) /\ Elements(<<finished>>) = {finished}
      BY QueueOne DEF IsSequence
    <3>3. ASSUME NEW m \in {finished} PROVE CallTrue(m)'
      <4>1. m.over \o <<Mark("client")>> = cli'.transcript /\ m.type = "finished"
        BY <2>2, <2>10, <2>11, <2>16
      <4>2. Proves(m)'
        BY <2>11, <4>1 DEF Proves, Mark
      <4> QED
        BY <4>1, <4>2 DEF CallTrue
    <3> QED
      BY <1>0, <1>3, <2>9, <2>11, <2>14, <3>1, <3>2, <3>3, ClientStepLink
  <2> QED
    BY <2>6, <2>15, <2>16
<1> QED
  BY <1>1, <1>2, <1>3

\* loadSession offers no ticket of TLS 1.0 to 1.2 but that of the session.
LEMMA LoadedSession ==
  ASSUME NEW conf, NEW s
  PROVE  LET hello == loadSession(conf, makeClientHello(conf), s)
         IN  /\ DOMAIN hello = HelloFields /\ hello.type = "clientHello"
             /\ hello.sessionTicket # None => s # None /\ hello.sessionTicket = s.ticket
             /\ hello.ech \in {NoECH, InnerECH}
<1> DEFINE made == makeClientHello(conf)
           with == [made EXCEPT !.ticketSupported = conf.ech = None,
                                !.pskDHE = Head(made.supportedVersions) = TLS13]
           offered == [with EXCEPT !.psk = s.ticket]
           bound == [offered EXCEPT !.binder = Binder(s.secret, offered, <<>>)]
           legacy == [with EXCEPT !.sessionTicket = s.ticket]
<1>1. /\ DOMAIN made = HelloFields /\ made.type = "clientHello" /\ made.sessionTicket = None
      /\ made.ech \in {NoECH, InnerECH}
  BY DEF makeClientHello, HelloFields
<1>2. \/ loadSession(conf, made, s) = made
      \/ loadSession(conf, made, s) = with
      \/ s # None /\ loadSession(conf, made, s) = legacy
      \/ s # None /\ loadSession(conf, made, s) = bound
  <2> HIDE DEF made
  <2> QED
    BY DEF loadSession
<1> HIDE DEF made
<1>3. /\ DOMAIN with = HelloFields /\ with.type = "clientHello" /\ with.sessionTicket = None
      /\ with.ech = made.ech
  BY <1>1 DEF HelloFields
<1> HIDE DEF with
<1>4. /\ DOMAIN legacy = HelloFields /\ legacy.type = "clientHello"
      /\ legacy.sessionTicket = s.ticket /\ legacy.ech = made.ech
  BY <1>3 DEF HelloFields
<1>5. /\ DOMAIN offered = HelloFields /\ offered.type = "clientHello"
      /\ offered.sessionTicket = None /\ offered.ech = made.ech
  BY <1>3 DEF HelloFields
<1> HIDE DEF offered, legacy
<1>6. /\ DOMAIN bound = HelloFields /\ bound.type = "clientHello"
      /\ bound.sessionTicket = None /\ bound.ech = made.ech
  BY <1>5 DEF HelloFields
<1> HIDE DEF bound
<1> DEFINE hello == loadSession(conf, made, s)
<1>7. /\ DOMAIN hello = HelloFields /\ hello.type = "clientHello"
      /\ hello.sessionTicket # None => s # None /\ hello.sessionTicket = s.ticket
      /\ hello.ech \in {NoECH, InnerECH}
  BY <1>1, <1>2, <1>3, <1>4, <1>6
<1> QED
  BY <1>7 DEF made

\* The first hello.
LEMMA ClientStartLink ==
  ASSUME ClientInv, TicketInv, LinkInv, srv' = srv, ClientStart
  PROVE  LinkInv'
<1> DEFINE conf == cli.conf
           made == makeClientHello(conf)
           s == IF UsesTickets(conf) /\ SessionUsable(conf, made, cache) THEN cache ELSE None
           hello == loadSession(conf, made, s)
           outer == OuterHello(conf, hello, hello)
           sent == IF conf.ech = None THEN hello ELSE outer
           inner == IF conf.ech = None THEN None ELSE hello
<1>0. DOMAIN cli = ClientFields /\ ClientTakes /\ cli.pc = "start"
  BY DEF ClientInv, Configured, ClientStart, ClientTakes
<1>1. \/ FailClient("config")
      \/ /\ cli' = [cli EXCEPT !.pc = "readServerHello", !.session = s, !.hello = sent,
                               !.inner = inner, !.serverName = sent.serverName]
         /\ toServer' = Append(toServer, sent)
         /\ cache' \in {cache, None} /\ conns' = conns
  BY DEF ClientStart
<1>2. s \in {cache, None}
  OBVIOUS
<1>3. /\ DOMAIN hello = HelloFields /\ hello.type = "clientHello"
      /\ hello.sessionTicket # None => s # None /\ hello.sessionTicket = s.ticket
      /\ hello.ech \in {NoECH, InnerECH}
  <2> HIDE DEF s
  <2> QED
    BY LoadedSession
<1> HIDE DEF hello, s
<1>4. /\ outer.type = "clientHello" /\ outer.sessionTicket = hello.sessionTicket
      /\ outer.ech.inner = hello
  BY <1>3 DEF OuterHello, HelloFields
<1> HIDE DEF outer
<1>5. /\ sent.type = "clientHello" /\ sent.sessionTicket = hello.sessionTicket
      /\ sent.ech \notin {NoECH, InnerECH} => sent.ech.inner = hello
      /\ conf.ech # None => inner.type = "clientHello"
  BY <1>3, <1>4
<1> HIDE DEF sent, inner
<1>6. CASE FailClient("config")
  BY <1>0, <1>6, FailClientLink
<1>7. CASE /\ cli' = [cli EXCEPT !.pc = "readServerHello", !.session = s, !.hello = sent,
                                 !.inner = inner, !.serverName = sent.serverName]
           /\ toServer' = Append(toServer, sent)
           /\ cache' \in {cache, None} /\ conns' = conns
  <2>1. /\ cli'.pc = "readServerHello" /\ cli'.session = s /\ cli'.hello = sent
        /\ cli'.inner = inner /\ cli'.conf = cli.conf /\ cli'.curve = cli.curve
        /\ cli'.ems = cli.ems /\ cli'.ticket = cli.ticket /\ cli'.didResume = cli.didResume
        /\ cli'.transcript = cli.transcript /\ cli'.innerTranscript = cli.innerTranscript
    BY <1>0, <1>7 DEF ClientFields
  <2>2. Heard'
    BY <1>0, <1>7, HeardStill
  <2>3. Matched'
    BY <1>2, <1>7, <2>1 DEF LinkInv, Matched
  <2>4. Stands'
    BY <1>0, <2>1 DEF LinkInv, Stands, Unsent12
  <2>5. Follows'
    BY <1>0, <1>5, <2>1
    DEF LinkInv, Follows, Fresh, Informed, Middle13, Late13, Late12, Places12, Behind13, Behind12,
        Greets, Greeting, UsesECH
  <2>6. Called'
    <3>1. IsSequence(toServer)
      BY DEF TicketInv, Hellos, IsSequence
    <3>2. Elements(toServer') \subseteq Elements(toServer) \cup {sent}
      BY <1>7, <3>1, QueueAppend DEF IsSequence
    <3>3. ASSUME NEW m \in {sent} PROVE CallTrue(m)'
      <4>1. /\ m.type = "clientHello"
            /\ m.sessionTicket # None => s # None /\ m.sessionTicket = s.ticket
            /\ m.ech \notin {NoECH, InnerECH} =>
                 (m.ech.inner.sessionTicket # None => s # None /\ m.ech.inner.sessionTicket = s.ticket)
        BY <1>3, <1>5
      <4> QED
        BY <2>1, <4>1 DEF CallTrue, CarriesBoth, Carries
    <3>4. ASSUME NEW m \in Elements(toServer) PROVE CallTrue(m)'
      <4>1. m.type # "clientHello" /\ m.type # "finished"
        BY <1>0 DEF LinkInv, Called, CallTrue, Proves
      <4> QED
        BY <4>1 DEF CallTrue
    <3> QED
      BY <3>2, <3>3, <3>4 DEF Called
  <2> QED
    BY <2>2, <2>3, <2>4, <2>5, <2>6 DEF LinkInv
<1> QED
  BY <1>1, <1>6, <1>7

\* The client's next-state relation.
LEMMA ClientNextLink ==
  ASSUME ClientInv, TicketInv, LinkInv, srv' = srv, ClientNext
  PROVE  LinkInv'
<1>1. CASE ClientReadsAlert
  <2>1. FailClient("alert") /\ ClientTakes /\ cli.pc \notin {"failed", "complete", "idle"}
    BY <1>1 DEF ClientReadsAlert, ClientTakes, ClientReading
  <2> QED
    BY <2>1, FailClientLink
<1>2. CASE ClientStart \/ ClientReadServerHello
  BY <1>2, ClientStartLink, ClientReadServerHelloLink
<1>3. CASE ClientStep13
  BY <1>3, Middle13Link, processHelloRetryRequestLink, Late13Link, sendClientCertificateLink,
     sendClientFinishedLink, handleNewSessionTicketLink
  DEF ClientStep13
<1>4. CASE ClientStep12
  BY <1>4, processServerHello12Link, Late12Link, ReadServerHelloDone12Link, readSessionTicketLink,
     readFinishedLink
  DEF ClientStep12
<1> QED
  BY <1>1, <1>2, <1>3, <1>4 DEF ClientNext

-----------------------------------------------------------------------------
(* The environment, and the theorem *)

\* Two fresh ends.
LEMMA FreshLink ==
  ASSUME NEW c, NEW s, NEW p \in {"start", "idle"}, NEW q \in {"readClientHello", "idle"},
         (p = "idle" /\ q = "idle") \/ (p = "start" /\ q = "readClientHello"),
         cli = [NewClient(c) EXCEPT !.pc = p], srv = [NewServer(s) EXCEPT !.pc = q],
         toServer = <<>>, toClient = <<>>, cache # None => Matches(cache)
  PROVE  LinkInv
<1>1. /\ cli.pc = p /\ cli.session = None /\ cli.transcript = <<>>
      /\ cli.innerTranscript = <<>> /\ cli.curve = None /\ cli.ems = FALSE
      /\ cli.ticket = None /\ cli.didResume = FALSE
  BY DEF NewClient
<1>2. /\ srv.pc = q /\ srv.ems = FALSE /\ srv.vers = 0 /\ srv.transcript = <<>>
      /\ srv.didResume = FALSE /\ srv.curve = None
  BY DEF NewServer
<1>3. Elements(toServer) = {} /\ Elements(toClient) = {} /\ IsSequence(<<>>)
  BY QueueNone DEF IsSequence
<1>4. Heard /\ Called
  <2>1. DOMAIN toClient = {}
    OBVIOUS
  <2> QED
    BY <1>3, <2>1 DEF Heard, Called, InOrder
<1>5. Matched
  BY <1>1 DEF Matched
<1>6. Follows
  BY <1>1, <1>3
  DEF Follows, Fresh, Informed, Middle13, Late13, Late12, Places12, Behind13, Behind12, Greets,
      Greeting
<1>7. Stands
  <2>1. srv.didResume \in BOOLEAN /\ ~srv.didResume /\ srv.didResume # TRUE
    BY <1>2, Zenon
  <2>2. srv.vers # TLS13 /\ IsSequence(srv.transcript)
    BY <1>2, <1>3 DEF TLS13
  <2>3. cli.pc = "start" => srv.pc \in {"readClientHello", "failed"}
    BY <1>1, <1>2
  <2>4. srv.pc \notin Unsent12 \cup Sent12 \cup Before13 \cup Sent13 \cup ShMade \cup Full12
    BY <1>2 DEF Unsent12, Before13, Sent12, Full12, Sent13, ShMade
  <2>5. srv.pc \notin {"doResumeHandshake12", "readCertificateVerify12", "readFinished12", "complete",
                      "readFinished13", "process13"}
    BY <1>2
  <2>6. srv.transcript = <<>> /\ srv.curve = None /\ srv.ems = FALSE
    BY <1>2
  <2> QED
    BY <2>1, <2>2, <2>3, <2>4, <2>5, <2>6 DEF Stands
<1> QED
  BY <1>4, <1>5, <1>6, <1>7 DEF LinkInv

\* A new connection.
LEMMA OpenLink ==
  ASSUME LinkInv, NEW c, NEW s, Open(c, s)
  PROVE  LinkInv'
<1>1. /\ cli'.pc = "start" /\ cli'.session = None /\ cli'.transcript = <<>>
      /\ cli'.innerTranscript = <<>> /\ cli'.curve = None /\ cli'.ems = FALSE
      /\ cli'.ticket = None /\ cli'.didResume = FALSE
      /\ toServer' = <<>> /\ toClient' = <<>> /\ cache' = cache
  BY DEF Open, NewClient
<1>2. /\ srv'.pc = "readClientHello" /\ srv'.ems = FALSE /\ srv'.vers = 0
      /\ srv'.transcript = <<>> /\ srv'.didResume = FALSE /\ srv'.curve = None
  BY DEF Open, NewServer
<1>3. Elements(toServer') = {} /\ Elements(toClient') = {} /\ IsSequence(<<>>)
  BY <1>1, QueueNone DEF IsSequence
<1>4. Heard' /\ Called'
  <2>1. DOMAIN toClient' = {}
    BY <1>1
  <2> QED
    BY <1>3, <2>1 DEF Heard, Called, InOrder
<1>5. Matched'
  BY <1>1 DEF LinkInv, Matched
<1>6. Follows'
  BY <1>1, <1>3
  DEF Follows, Fresh, Informed, Middle13, Late13, Late12, Places12, Behind13, Behind12, Greets,
      Greeting
<1>7. Stands'
  <2>1. srv'.didResume \in BOOLEAN /\ ~srv'.didResume /\ srv'.didResume # TRUE
    BY <1>2, Zenon
  <2>2. srv'.vers # TLS13 /\ IsSequence(srv'.transcript)
    BY <1>2, <1>3 DEF TLS13
  <2>3. cli'.pc = "start" => srv'.pc \in {"readClientHello", "failed"}
    BY <1>1, <1>2
  <2>4. srv'.pc \notin Unsent12 \cup Sent12 \cup Before13 \cup Sent13 \cup ShMade \cup Full12
    BY <1>2 DEF Unsent12, Before13, Sent12, Full12, Sent13, ShMade
  <2>5. srv'.pc \notin {"doResumeHandshake12", "readCertificateVerify12", "readFinished12", "complete",
                      "readFinished13", "process13"}
    BY <1>2
  <2>6. srv'.transcript = <<>> /\ srv'.curve = None /\ srv'.ems = FALSE
    BY <1>2
  <2> QED
    BY <2>1, <2>2, <2>3, <2>4, <2>5, <2>6 DEF Stands
<1> QED
  BY <1>4, <1>5, <1>6, <1>7 DEF LinkInv

\* Both ends stand still.
LEMMA StillLink ==
  ASSUME LinkInv, UNCHANGED <<cli, srv, cache, conns>>,
         \A msg \in Elements(toServer') : CallTrue(msg),
         \A msg \in Elements(toClient') : ReplyTrue(msg),
         InOrder(toClient) => InOrder(toClient'),
         NoTicket(toClient) => NoTicket(toClient')
  PROVE  LinkInv'
<1>1. Heard'
  BY SaidStill DEF LinkInv, Heard
<1>2. Called' /\ Matched' /\ Stands'
  BY DEF LinkInv, Called, CallTrue, CarriesBoth, Carries, Proves, Matched, Stands
<1>3. Told(cli.sh) => Told(cli.sh)'
  BY DEF Told, Said, Halted, Version
<1>4. Follows13 => Follows13'
  BY DEF Follows13
<1>5. Follows12 => Follows12'
  BY DEF Follows12, Issued, Halted
<1>6. Follows'
  BY <1>3, <1>4, <1>5 DEF LinkInv, Follows, Behind13, Behind12, Greets, UsesECH
<1> QED
  BY <1>1, <1>2, <1>6 DEF LinkInv

\* A middlebox leaves the tickets in a hello alone.
LEMMA RewrittenLink ==
  ASSUME NEW hello, Offers(hello), CallTrue(hello), hello.type = "clientHello",
         NEW other \in Rewrites(hello)
  PROVE  CallTrue(other)
<1>1. \/ \E v : other = [hello EXCEPT !.supportedVersions = v]
      \/ other = [hello EXCEPT !.ech = NoECH]
      \/ other = [hello EXCEPT !.alpn = <<>>]
  BY DEF Rewrites
<1>2. /\ other.type = "clientHello" /\ other.sessionTicket = hello.sessionTicket
      /\ other.ech \in {hello.ech, NoECH}
  BY <1>1 DEF Offers, HelloFields
<1> QED
  BY <1>2 DEF CallTrue, CarriesBoth, Carries

\* The steps of the environment.
LEMMA EnvironmentLink ==
  ASSUME TicketInv, LinkInv, Environment
  PROVE  LinkInv'
<1>1. CASE Connect
  BY <1>1, OpenLink DEF Connect
<1>2. CASE RetryWithConfigs
  BY <1>2, OpenLink DEF RetryWithConfigs
<1>3. CASE Tick \/ SetSessionTicketKeys
  BY <1>3, StillLink DEF Tick, SetSessionTicketKeys, LinkInv, Called, Heard
<1>4. CASE Break
  <2>1. /\ UNCHANGED <<cli, srv, cache, conns>>
        /\ toServer' = <<Alert>> /\ toClient' = <<Alert>>
    BY <1>4 DEF Break
  <2>2. Elements(toServer') = {Alert} /\ Elements(toClient') = {Alert}
    BY <2>1, QueueOne
  <2>3. CallTrue(Alert) /\ ReplyTrue(Alert) /\ Alert.type # "newSessionTicket"
    BY DEF CallTrue, ReplyTrue, Alert
  <2>4. InOrder(toClient') /\ NoTicket(toClient')
    BY <2>2, <2>3 DEF InOrder, NoTicket, Elements
  <2> QED
    BY <2>1, <2>2, <2>3, <2>4, StillLink
<1>5. CASE RewriteHello
  <2>1. /\ UNCHANGED <<cli, srv, cache, conns, toClient>>
        /\ toServer # <<>> /\ FromClient.type = "clientHello"
    BY <1>5 DEF RewriteHello
  <2> PICK hello \in Rewrites(FromClient) : toServer' = <<hello>> \o Tail(toServer)
    BY <1>5 DEF RewriteHello
  <2>2. /\ FromClient \in Elements(toServer) /\ IsSequence(Tail(toServer))
        /\ Elements(Tail(toServer)) \subseteq Elements(toServer)
    BY <2>1, QueueTail DEF TicketInv, Hellos, FromClient, IsSequence
  <2>3. CallTrue(FromClient) /\ Offers(FromClient)
    BY <2>1, <2>2 DEF LinkInv, Called, TicketInv, Hellos, HelloOk
  <2>4. CallTrue(hello)
    BY <2>1, <2>3, RewrittenLink
  <2>5. IsSequence(<<hello>>) /\ Elements(<<hello>>) = {hello}
    BY QueueOne DEF IsSequence
  <2>6. Elements(toServer') \subseteq {hello} \cup Elements(toServer)
    BY <2>2, <2>5, QueueConcat DEF IsSequence
  <2> QED
    BY <2>1, <2>4, <2>6, StillLink DEF LinkInv, Called, Heard
<1> QED
  BY <1>1, <1>2, <1>3, <1>4, <1>5 DEF Environment

\* Every step keeps the invariant.
LEMMA LinkStep ==
  ASSUME ClientInv, TicketInv, LinkInv, [Next]_vars
  PROVE  LinkInv'
<1>1. CASE ClientMoves
  BY <1>1, ClientNextLink DEF ClientMoves
<1>2. CASE ServerMoves
  BY <1>2, ServerNextLink DEF ServerMoves
<1>3. CASE Environment
  BY <1>3, EnvironmentLink
<1>4. CASE UNCHANGED vars
  BY <1>4, StillLink DEF vars, LinkInv, Called, Heard
<1> QED
  BY <1>1, <1>2, <1>3, <1>4 DEF Next

\* The first state.
LEMMA LinkInit == Init => LinkInv
<1> SUFFICES ASSUME Init
             PROVE  LinkInv
  OBVIOUS
<1> DEFINE c == CHOOSE c \in ClientConfigs : TRUE
           s == CHOOSE s \in ServerConfigs : TRUE
<1>1. /\ cli = [NewClient(c) EXCEPT !.pc = "idle"] /\ srv = [NewServer(s) EXCEPT !.pc = "idle"]
      /\ toServer = <<>> /\ toClient = <<>> /\ cache = None
  BY DEF Init
<1> HIDE DEF c, s
<1> QED
  BY <1>1, FreshLink

\* In every reachable state: what is on its way to either end, and what a client
\* has taken from its server, is what the other end has said, decided and kept.
THEOREM LinkInvariant == Spec => []LinkInv
<1>1. ClientInv /\ TicketInv /\ LinkInv /\ [Next]_vars => LinkInv'
  BY LinkStep
<1> QED
  BY <1>1, LinkInit, ClientInvariant, TicketInvariant, PTL DEF Spec

\* The session that a client keeps, from a full handshake or a resumption, of
\* any version, is the one its ticket carries: the same secret, version, suite,
\* kind of master secret, protocol and curve (sessionState on either side,
\* saveSessionTicket and handleNewSessionTicket).
THEOREM SessionsMatchTickets == Spec => []SessionMatchesTicket
<1>1. LinkInv => SessionMatchesTicket
  BY DEF LinkInv, Matched, Matches, SessionMatchesTicket
<1> QED
  BY <1>1, LinkInvariant, PTL

-----------------------------------------------------------------------------
(* Names, and Encrypted Client Hello *)

\* A PSK binder that covers the name of the server.
BoundInside(binder) ==
  IF binder.prefix = <<>> THEN binder.over.serverName = ServerName
                          ELSE binder.prefix[1].serverName = ServerName

\* What a hello says of the server: the name, or the public name around it; a
\* PSK in the outer hello is bound to the inner one.
Named(hello) ==
  IF UsesECH
  THEN /\ hello.serverName = PublicName
       /\ hello.ech # NoECH => /\ hello.ech.config = cli.conf.ech
                              /\ hello.ech.inner.serverName = ServerName
       /\ hello.psk # None => BoundInside(hello.binder)
  ELSE hello.serverName = ServerName /\ hello.ech = NoECH

NamedOut == \A msg \in Elements(toServer) : msg.type = "clientHello" => Named(msg)

\* A transcript that begins with the outer hello, as it was sent.
OuterFirst(transcript) ==
  /\ transcript # <<>>
  /\ transcript[1].serverName = PublicName
  /\ transcript[1].ech # NoECH /\ transcript[1].ech.config = cli.conf.ech

InnerFirst(transcript) == transcript # <<>> /\ transcript[1].serverName = ServerName

\* The client takes the server for the public name.
ShownPublic ==
  ~cli.didResume => PublicName \in cli.cert.names /\ cli.cert.issuer \in cli.conf.roots

\* The server could not open the inner hello, and the client knows.
Unopened ==
  /\ srv.pc # "readClientHello" /\ srv.ech = None
  /\ ~cli.echAccepted /\ ~cli.didResume /\ cli.conf.ech \notin srv.conf.echKeys

\* The name that the client goes by, and what it knows of its inner hello.
ClientNames ==
  /\ cli.echAccepted \in BOOLEAN /\ cli.echRejected \in BOOLEAN /\ cli.didHRR \in BOOLEAN
  /\ cli.echAccepted => UsesECH /\ srv.ech # None
  /\ cli.pc \in {"start", "readServerHello"} => ~cli.didHRR
  /\ cli.pc = "readSecondServerHello" => cli.didHRR
  /\ \/ cli.pc \in {"start", "readServerHello", "retry13"}
     \/ cli.pc = "check13" /\ ~cli.didHRR
     => ~cli.echAccepted
  /\ cli.pc \in Greeting =>
       /\ Named(cli.hello)
       /\ UsesECH => cli.hello.ech # NoECH /\ cli.inner.serverName = ServerName
  /\ cli.pc \notin {"idle", "start", "failed"} =>
       cli.serverName = IF UsesECH /\ ~cli.echAccepted THEN PublicName ELSE ServerName
  /\ UsesECH =>
       /\ cli.pc = "retry13" => InnerFirst(cli.innerTranscript)
       /\ \/ cli.pc \in {"retry13", "process13"}
          \/ cli.pc \in {"readSecondServerHello", "check13"} /\ cli.didHRR
          \/ cli.pc \in Late13 /\ cli.echRejected
          => OuterFirst(cli.transcript)
       /\ cli.pc \in Late13 => cli.echAccepted \/ cli.echRejected
       /\ cli.pc = "complete" => cli.echAccepted
       /\ cli.pc \in Verified13 /\ ~cli.echAccepted => ShownPublic
       /\ cli.pc \in {"sendCertificate13", "sendFinished13"} /\ cli.echRejected => Unopened
       /\ cli.err = "ech" => cli.pc = "failed" /\ Unopened /\ ShownPublic
  /\ cli.pc # "failed" => cli.err # "ech"

\* The name in the hello that the server answers.
Addressed == IF UsesECH /\ srv.ech = None THEN PublicName ELSE ServerName

\* The first hello of the server's transcript: one it could not open is not
\* sealed for it.
AnsweredFirst(hello) ==
  UsesECH => /\ hello.serverName = Addressed
             /\ srv.ech = None /\ hello.ech # NoECH => hello.ech.config \notin srv.conf.echKeys

\* The first hello, before and after it is in the transcript.
Opening == IF srv.transcript = <<>> THEN srv.hello ELSE srv.transcript[1]

Unnamed == {"idle", "failed", "readClientHello", "process12", "process13", "readSecondHello13",
            "negotiate13"}

ServerNames ==
  /\ srv.pc = "readClientHello" => srv.ech = None
  /\ srv.ech # None => UsesECH /\ srv.ech = cli.conf.ech /\ srv.ech \in srv.conf.echKeys
  /\ srv.pc \in Before13 \cup {"process12"} =>
       /\ srv.hello.serverName = Addressed
       /\ UsesECH /\ srv.ech = None =>
            DOMAIN srv.hello = HelloFields /\ (srv.hello.psk # None => BoundInside(srv.hello.binder))
  /\ srv.pc = "readSecondHello13" => srv.transcript # <<>>
  /\ srv.pc \notin Unnamed => srv.serverName = Addressed
  /\ srv.pc \in Before13 \cup {"sendCertificate13", "sendFinished13"} => AnsweredFirst(Opening)
  /\ srv.vers = TLS13 /\ srv.didResume /\ UsesECH => srv.ech # None

SealedOver(msg) == msg.over # <<>> /\ AnsweredFirst(msg.over[1])

NamedBack ==
  srv.vers = TLS13 => \A msg \in Elements(toClient) : msg.type = "finished" => SealedOver(msg)

NameInv == NamedOut /\ ClientNames /\ ServerNames /\ NamedBack

\* The first element of a sequence.
LEMMA FirstOf ==
  /\ \A m : <<m>> # <<>> /\ <<m>>[1] = m
  /\ \A t, u : IsSequence(t) /\ IsSequence(u) /\ t # <<>> => t \o u # <<>> /\ (t \o u)[1] = t[1]
  /\ \A t, m : IsSequence(t) /\ t # <<>> => Append(t, m) # <<>> /\ Append(t, m)[1] = t[1]
  /\ \A t, u : IsSequence(t) /\ IsSequence(u) /\ t # <<>> =>
                 transcriptMsg(t, u) # <<>> /\ transcriptMsg(t, u)[1] = t[1]
<1>1. ASSUME NEW m PROVE <<m>> # <<>> /\ <<m>>[1] = m
  OBVIOUS
<1>2. ASSUME NEW S, NEW t \in Seq(S), NEW u \in Seq(S), t # <<>>
      PROVE  t \o u # <<>> /\ (t \o u)[1] = t[1]
  <2>1. Len(t) \in Nat /\ Len(t) # 0 /\ Len(u) \in Nat
    BY <1>2
  <2>2. Len(t \o u) = Len(t) + Len(u) /\ (t \o u)[1] = t[1]
    BY <2>1
  <2> QED
    BY <2>1, <2>2
<1>3. ASSUME NEW t, NEW u, IsSequence(t), IsSequence(u), t # <<>>
      PROVE  t \o u # <<>> /\ (t \o u)[1] = t[1]
  <2> DEFINE S == Elements(t) \cup Elements(u)
  <2>1. t \in Seq(S) /\ u \in Seq(S)
    <3>1. t \in Seq(Elements(t)) /\ u \in Seq(Elements(u))
      BY <1>3 DEF IsSequence
    <3>2. Elements(t) \subseteq S /\ Elements(u) \subseteq S
      OBVIOUS
    <3> HIDE DEF S
    <3> QED
      BY <3>1, <3>2
  <2> HIDE DEF S
  <2> QED
    BY <1>2, <1>3, <2>1
<1>4. ASSUME NEW t, NEW m, IsSequence(t), t # <<>>
      PROVE  Append(t, m) # <<>> /\ Append(t, m)[1] = t[1]
  <2> DEFINE S == Elements(t) \cup {m}
  <2>1. t \in Seq(S) /\ m \in S
    <3>1. t \in Seq(Elements(t))
      BY <1>4 DEF IsSequence
    <3>2. Elements(t) \subseteq S /\ m \in S
      OBVIOUS
    <3> HIDE DEF S
    <3> QED
      BY <3>1, <3>2
  <2> HIDE DEF S
  <2>2. Len(t) \in Nat /\ Len(t) # 0
    BY <1>4, <2>1
  <2> QED
    BY <2>1, <2>2
<1>5. ASSUME NEW t, NEW u, IsSequence(t), IsSequence(u), t # <<>>
      PROVE  transcriptMsg(t, u) # <<>> /\ transcriptMsg(t, u)[1] = t[1]
  <2> DEFINE r == [i \in DOMAIN u |-> Hashed(u[i])]
             T == {Hashed(m) : m \in Elements(u)}
  <2>1. u \in Seq(Elements(u))
    BY <1>5 DEF IsSequence
  <2>2. Len(u) \in Nat /\ DOMAIN u = 1..Len(u) /\ \A i \in DOMAIN u : u[i] \in Elements(u)
    BY <2>1
  <2>3. \A i \in DOMAIN u : Hashed(u[i]) \in T
    BY <2>2
  <2> HIDE DEF T
  <2>4. r \in [1..Len(u) -> T]
    BY <2>2, <2>3
  <2> HIDE DEF r
  <2>5. r \in Seq(T)
    BY <2>2, <2>4
  <2>6. IsSequence(r)
    BY <2>5, QueueOf DEF IsSequence
  <2> QED
    BY <1>3, <1>5, <2>6 DEF transcriptMsg, r
<1> QED
  BY <1>1, <1>3, <1>4, <1>5

-----------------------------------------------------------------------------
(* The server *)

\* A step of the server that keeps what it has read in the first hello.
Goes ==
  /\ ServerTakes /\ cli' = cli /\ srv'.pc # "readClientHello"
  /\ srv'.conf = srv.conf /\ srv'.ech = srv.ech /\ srv'.vers = srv.vers

\* What is said of the client, of its hellos and of the first hello stays true.
LEMMA NamesStill ==
  ASSUME cli' = cli, srv'.conf = srv.conf, srv'.ech = srv.ech, srv'.pc # "readClientHello"
  PROVE  /\ Addressed' = Addressed
         /\ \A h : AnsweredFirst(h) => AnsweredFirst(h)'
         /\ \A m : SealedOver(m) => SealedOver(m)'
         /\ \A h : Named(h) => Named(h)'
         /\ ClientNames => ClientNames'
<1>1. Addressed' = Addressed
  BY DEF Addressed, UsesECH
<1>2. \A h : AnsweredFirst(h) => AnsweredFirst(h)'
  BY <1>1 DEF AnsweredFirst, UsesECH
<1>3. \A m : SealedOver(m) => SealedOver(m)'
  BY <1>2 DEF SealedOver
<1>4. \A h : Named(h) => Named(h)'
  BY DEF Named, BoundInside, UsesECH
<1>5. ClientNames => ClientNames'
  <2>1. Named(cli.hello) => Named(cli.hello)'
    BY DEF Named, BoundInside, UsesECH
  <2>2. \A t : (OuterFirst(t) => OuterFirst(t)') /\ (InnerFirst(t) => InnerFirst(t)')
    BY DEF OuterFirst, InnerFirst
  <2>3. (ShownPublic => ShownPublic') /\ (Unopened => Unopened') /\ UsesECH' = UsesECH
    BY DEF ShownPublic, Unopened, UsesECH
  <2> QED
    BY <2>1, <2>2, <2>3 DEF ClientNames
<1> QED
  BY <1>1, <1>2, <1>3, <1>4, <1>5

\* The queue of the server's messages, one way and the other.
LEMMA TakesNames ==
  ASSUME TicketInv, NameInv, Goes
  PROVE  NamedOut' /\ ClientNames'
<1>1. Elements(toServer') \subseteq Elements(toServer)
  BY QueueTail DEF Goes, ServerTakes, TicketInv, Hellos
<1> QED
  BY <1>1, NamesStill DEF Goes, NameInv, NamedOut

LEMMA SendsNames ==
  ASSUME TicketInv, NameInv, Goes, NEW flight, IsSequence(flight), toClient' = toClient \o flight,
         \A msg \in Elements(flight) : msg.type = "finished" => SealedOver(msg),
         ServerNames'
  PROVE  NameInv'
<1>1. Elements(toClient') \subseteq Elements(toClient) \cup Elements(flight)
  BY QueueConcat DEF IsSequence, TicketInv, Replies
<1>2. NamedBack'
  BY <1>1, NamesStill DEF Goes, NameInv, NamedBack
<1> QED
  BY <1>2, TakesNames DEF NameInv

\* A server of TLS 1.0 to 1.2 seals nothing of this kind.
LEMMA Names12 ==
  ASSUME TicketInv, NameInv, Goes, srv.vers # TLS13, ServerNames'
  PROVE  NameInv'
BY TakesNames DEF NameInv, NamedBack, Goes

\* A server behind its hello, or one that fails.
LEMMA BehindNames ==
  ASSUME NameInv, Goes, srv'.didResume = srv.didResume \/ srv.vers # TLS13,
         \/ srv'.pc = "failed"
         \/ /\ srv.pc \notin Unnamed /\ srv'.serverName = srv.serverName
            /\ srv'.pc \notin Before13 \cup {"process12", "readClientHello", "sendCertificate13",
                                             "sendFinished13"}
  PROVE  ServerNames'
<1>1. Addressed' = Addressed /\ UsesECH' = UsesECH
  BY NamesStill DEF Goes, UsesECH
<1>2. srv'.pc \notin Before13 \cup {"process12", "readClientHello", "sendCertificate13",
                                    "sendFinished13"}
  BY DEF Before13
<1> QED
  BY <1>1, <1>2 DEF NameInv, ServerNames, Goes, Unnamed, Before13

LEMMA FailNames ==
  ASSUME TicketInv, NameInv, NEW flight, FailServerAfter(flight), ServerTakes, IsSequence(flight),
         NoFinished(flight)
  PROVE  NameInv'
<1>1. DOMAIN srv = ServerFields
  BY DEF TicketInv, Answered
<1>2. /\ Goes /\ srv'.didResume = srv.didResume /\ srv'.pc = "failed"
      /\ toClient' = toClient \o (flight \o <<Alert>>)
  BY <1>1 DEF FailServerAfter, ServerSends, ServerKeeps, ServerFields, Goes
<1>3. /\ IsSequence(flight \o <<Alert>>)
      /\ Elements(flight \o <<Alert>>) \subseteq Elements(flight) \cup {Alert}
  BY QueueOne, QueueConcat DEF IsSequence
<1>4. \A msg \in Elements(flight \o <<Alert>>) : msg.type # "finished"
  BY <1>3 DEF NoFinished, Alert
<1>5. ServerNames'
  BY <1>2, BehindNames
<1> QED
  BY <1>2, <1>3, <1>4, <1>5, SendsNames

LEMMA FailsNames ==
  ASSUME TicketInv, NameInv, FailServerAfter(<<>>), ServerTakes
  PROVE  NameInv'
<1>1. IsSequence(<<>>) /\ NoFinished(<<>>)
  BY QueueNone DEF IsSequence, NoFinished
<1> QED
  BY <1>1, FailNames

\* The places of a server of TLS 1.0 to 1.2 are those of that version.
LEMMA Version12 ==
  ASSUME LinkInv, srv.pc \in Unsent12 \cup Sent12
  PROVE  srv.vers # TLS13
BY DEF LinkInv, Stands

LEMMA processClientHello12Names ==
  ASSUME TicketInv, LinkInv, NameInv, processClientHello12
  PROVE  NameInv'
<1>0. srv.pc = "process12" /\ ServerTakes /\ DOMAIN srv = ServerFields /\ srv.vers # TLS13
  BY Version12 DEF processClientHello12, ServerTakes, TicketInv, Answered, Unsent12
<1>1. CASE FailServerAfter(<<>>)
  BY <1>0, <1>1, FailsNames
<1>2. ASSUME NEW c, NEW a, NEW sh,
             ServerSends(<<>>, [srv EXCEPT !.cert = c, !.alpn = a, !.serverName = srv.hello.serverName,
                                           !.sh = sh, !.pc = "checkForResumption12"])
      PROVE  NameInv'
  <2>1. /\ Goes /\ srv'.pc = "checkForResumption12" /\ srv'.serverName = srv.hello.serverName
    BY <1>0, <1>2 DEF ServerSends, ServerKeeps, ServerFields, Goes
  <2>2. srv.hello.serverName = Addressed /\ Addressed' = Addressed /\ UsesECH' = UsesECH
    BY <1>0, <2>1, NamesStill DEF NameInv, ServerNames, Goes, UsesECH
  <2>3. ServerNames'
    BY <1>0, <2>1, <2>2 DEF NameInv, ServerNames, Goes, Before13
  <2> QED
    BY <1>0, <2>1, <2>3, Names12
<1> QED
  BY <1>1, <1>2, Zenon DEF processClientHello12, ServerChecks

\* The other steps of TLS 1.0 to 1.2 leave the name alone.
LEMMA On12Names ==
  ASSUME TicketInv, LinkInv, NameInv, ServerTakes, cli' = cli,
         srv.pc \in (Unsent12 \ {"process12"}) \cup Sent12,
         srv'.conf = srv.conf, srv'.ech = srv.ech, srv'.vers = srv.vers,
         srv'.serverName = srv.serverName, srv'.pc \in Unsent12 \cup Sent12 \cup {"complete"},
         srv'.pc # "process12"
  PROVE  NameInv'
<1>1. Goes /\ srv.vers # TLS13
  BY Version12 DEF Goes, Unsent12, Sent12, Full12
<1>2. srv.pc \notin Unnamed
  BY DEF Unnamed, Unsent12, Sent12, Full12
<1>3. srv'.pc \notin Before13 \cup {"process12", "readClientHello", "sendCertificate13",
                                    "sendFinished13"}
  BY DEF Unsent12, Sent12, Full12, Before13
<1>4. ServerNames'
  BY <1>1, <1>2, <1>3, BehindNames
<1> QED
  BY <1>1, <1>4, Names12

LEMMA Steps12Names ==
  ASSUME TicketInv, LinkInv, NameInv, ServerStep12
  PROVE  NameInv'
<1> USE DEF Unsent12, Sent12, Full12
<1>0. DOMAIN srv = ServerFields
  BY DEF TicketInv, Answered
<1>1. CASE processClientHello12
  BY <1>1, processClientHello12Names
<1>2. CASE checkForResumption12
  <2>1. ServerTakes /\ srv.pc = "checkForResumption12"
    BY <1>2 DEF checkForResumption12, ServerTakes
  <2>2. CASE FailServerAfter(<<>>)
    BY <2>1, <2>2, FailsNames
  <2>3. CASE ServerSends(<<>>, [srv EXCEPT !.pc = "pickCipherSuite12"])
    <3>1. /\ cli' = cli /\ srv'.conf = srv.conf /\ srv'.ech = srv.ech /\ srv'.vers = srv.vers
          /\ srv'.serverName = srv.serverName /\ srv'.pc = "pickCipherSuite12"
      BY <1>0, <2>3 DEF ServerSends, ServerKeeps, ServerFields
    <3> QED
      BY <2>1, <3>1, On12Names
  <2>4. ASSUME NEW s, NEW a, NEW b, NEW c, NEW d, NEW e,
               ServerSends(<<>>,
                 [srv EXCEPT !.pc = "doResumeHandshake12", !.session = s, !.didResume = TRUE,
                    !.suite = a, !.peer = b, !.verified = c, !.ems = d, !.curve = e])
        PROVE  NameInv'
    <3>1. /\ cli' = cli /\ srv'.conf = srv.conf /\ srv'.ech = srv.ech /\ srv'.vers = srv.vers
          /\ srv'.serverName = srv.serverName /\ srv'.pc = "doResumeHandshake12"
      BY <1>0, <2>4 DEF ServerSends, ServerKeeps, ServerFields
    <3> QED
      BY <2>1, <3>1, On12Names
  <2> DEFINE s == IF srv.conf.ticketsDisabled THEN None
                  ELSE decryptTicket(srv.hello.sessionTicket)
  <2>5. \/ FailServerAfter(<<>>)
        \/ ServerSends(<<>>, [srv EXCEPT !.pc = "pickCipherSuite12"])
        \/ ServerSends(<<>>,
             [srv EXCEPT !.pc = "doResumeHandshake12", !.session = s, !.didResume = TRUE,
                !.suite = s.suite, !.peer = s.peer, !.verified = s.verified,
                !.ems = s.ems, !.curve = s.curve])
    BY <1>2, Zenon DEF checkForResumption12, ServerChecks
  <2> HIDE DEF s
  <2> QED
    BY <2>2, <2>3, <2>4, <2>5, Zenon
<1>3. CASE doResumeHandshake12
  <2>1. ServerTakes /\ srv.pc = "doResumeHandshake12"
    BY <1>3 DEF doResumeHandshake12, ServerTakes
  <2>2. \E f, a, b, c : ServerSends(f, [srv EXCEPT !.sh = a, !.secret = b, !.pc = "readFinished12",
                                                  !.transcript = c])
    BY <1>3, Zenon DEF doResumeHandshake12
  <2>3. /\ cli' = cli /\ srv'.conf = srv.conf /\ srv'.ech = srv.ech /\ srv'.vers = srv.vers
        /\ srv'.serverName = srv.serverName /\ srv'.pc = "readFinished12"
    BY <1>0, <2>2 DEF ServerSends, ServerKeeps, ServerFields
  <2> QED
    BY <2>1, <2>3, On12Names
<1>4. CASE pickCipherSuite12
  <2>1. ServerTakes /\ srv.pc = "pickCipherSuite12"
    BY <1>4 DEF pickCipherSuite12, ServerTakes
  <2>2. \/ FailServerAfter(<<>>)
        \/ \E a : ServerSends(<<>>, [srv EXCEPT !.suite = a, !.pc = "sendFlight12"])
    BY <1>4, Zenon DEF pickCipherSuite12, ServerChecks
  <2>3. CASE \E a : ServerSends(<<>>, [srv EXCEPT !.suite = a, !.pc = "sendFlight12"])
    <3>1. /\ cli' = cli /\ srv'.conf = srv.conf /\ srv'.ech = srv.ech /\ srv'.vers = srv.vers
          /\ srv'.serverName = srv.serverName /\ srv'.pc = "sendFlight12"
      BY <1>0, <2>3 DEF ServerSends, ServerKeeps, ServerFields
    <3> QED
      BY <2>1, <3>1, On12Names
  <2> QED
    BY <2>1, <2>2, <2>3, FailsNames
<1>5. CASE sendFlight12
  <2>1. ServerTakes /\ srv.pc = "sendFlight12"
    BY <1>5 DEF sendFlight12, ServerTakes
  <2>2. \/ \E f : FailServerAfter(f)
        \/ \E f, a, b, c :
             ServerSends(f, [srv EXCEPT !.sh = a, !.transcript = b, !.curve = c,
                               !.pc = IF srv.conf.clientAuth >= RequestClientCert
                                      THEN "readCertificate12" ELSE "readKeyExchange12"])
    <3> DEFINE sh == [srv.sh EXCEPT !.suite = srv.suite, !.ocspStapling = srv.cert.staple,
                        !.ticketSupported = srv.hello.ticketSupported /\ ~srv.conf.ticketsDisabled]
               status == IF srv.cert.staple THEN <<[type |-> "certificateStatus"]>> ELSE <<>>
               start == <<sh, Certificate(srv.cert)>> \o status
               ecdhe == "ECDHE" \in Flags(srv.suite)
               exchange == IF ~ecdhe THEN <<>>
                           ELSE <<[type |-> "serverKeyExchange", curve |-> keyExchangeCurve,
                                   alg |-> keyExchangeAlg, signer |-> srv.cert]>>
               asks == srv.conf.clientAuth >= RequestClientCert
               request == IF asks THEN <<CertificateRequest(srv.vers, srv.conf)>> ELSE <<>>
               flight == start \o exchange \o (request \o <<[type |-> "serverHelloDone"]>>)
               seen == <<srv.hello>> \o flight
               curve == IF ecdhe THEN keyExchangeCurve ELSE srv.curve
    <3>1. \/ FailServerAfter(start)
          \/ ServerSends(flight,
               [srv EXCEPT !.sh = sh, !.transcript = seen, !.curve = curve,
                           !.pc = IF asks THEN "readCertificate12" ELSE "readKeyExchange12"])
      BY <1>5, Zenon DEF sendFlight12
    <3> HIDE DEF sh, start, flight, seen, curve
    <3> QED
      BY <3>1, Zenon
  <2>3. CASE \E f : FailServerAfter(f)
    <3>1. Goes /\ srv'.didResume = srv.didResume /\ srv'.pc = "failed"
      BY <1>0, <2>1, <2>3 DEF FailServerAfter, ServerSends, ServerKeeps, ServerFields, Goes
    <3>2. ServerNames'
      BY <3>1, BehindNames
    <3> QED
      BY <2>1, <3>1, <3>2, Version12, Names12
  <2>4. ASSUME NEW f, NEW a, NEW b, NEW c,
               ServerSends(f, [srv EXCEPT !.sh = a, !.transcript = b, !.curve = c,
                                 !.pc = IF srv.conf.clientAuth >= RequestClientCert
                                        THEN "readCertificate12" ELSE "readKeyExchange12"])
        PROVE  NameInv'
    <3>1. /\ cli' = cli /\ srv'.conf = srv.conf /\ srv'.ech = srv.ech /\ srv'.vers = srv.vers
          /\ srv'.serverName = srv.serverName
          /\ srv'.pc \in {"readCertificate12", "readKeyExchange12"}
      BY <1>0, <2>4 DEF ServerSends, ServerKeeps, ServerFields
    <3> QED
      BY <2>1, <3>1, On12Names
  <2> QED
    BY <2>2, <2>3, <2>4
<1>6. CASE ServerReadCertificate12
  <2>1. ServerTakes /\ srv.pc = "readCertificate12"
    BY <1>6 DEF ServerReadCertificate12, ServerReads, ServerHasMessage, ServerTakes
  <2>2. \/ FailServerAfter(<<>>)
        \/ ServerSends(<<>>, [WithClientCert(FromClient.cert) EXCEPT !.pc = "readKeyExchange12"])
    BY <1>6, Zenon DEF ServerReadCertificate12, ServerChecks
  <2>3. CASE ServerSends(<<>>, [WithClientCert(FromClient.cert) EXCEPT !.pc = "readKeyExchange12"])
    <3>1. /\ cli' = cli /\ srv'.conf = srv.conf /\ srv'.ech = srv.ech /\ srv'.vers = srv.vers
          /\ srv'.serverName = srv.serverName /\ srv'.pc = "readKeyExchange12"
      BY <1>0, <2>3 DEF ServerSends, ServerKeeps, ServerFields, WithClientCert
    <3> QED
      BY <2>1, <3>1, On12Names
  <2> QED
    BY <2>1, <2>2, <2>3, FailsNames
<1>7. CASE ReadClientKeyExchange12
  <2>1. ServerTakes /\ srv.pc = "readKeyExchange12"
    BY <1>7 DEF ReadClientKeyExchange12, ServerReads, ServerHasMessage, ServerTakes
  <2>2. \/ FailServerAfter(<<>>)
        \/ \E a, b, c, p :
             /\ p \in {"readFinished12", "readCertificateVerify12"}
             /\ ServerSends(<<>>, [srv EXCEPT !.transcript = a, !.ems = b, !.secret = c, !.pc = p])
    <3>1. (IF srv.peer = None THEN "readFinished12" ELSE "readCertificateVerify12")
            \in {"readFinished12", "readCertificateVerify12"}
      OBVIOUS
    <3> QED
      BY <1>7, <3>1, Zenon DEF ReadClientKeyExchange12, ServerChecks
  <2>3. ASSUME NEW a, NEW b, NEW c, NEW p \in {"readFinished12", "readCertificateVerify12"},
               ServerSends(<<>>, [srv EXCEPT !.transcript = a, !.ems = b, !.secret = c, !.pc = p])
        PROVE  NameInv'
    <3>1. /\ cli' = cli /\ srv'.conf = srv.conf /\ srv'.ech = srv.ech /\ srv'.vers = srv.vers
          /\ srv'.serverName = srv.serverName /\ srv'.pc = p
      BY <1>0, <2>3 DEF ServerSends, ServerKeeps, ServerFields
    <3> QED
      BY <2>1, <3>1, On12Names
  <2> QED
    BY <2>1, <2>2, <2>3, FailsNames
<1>8. CASE ServerReadCertificateVerify12
  <2>1. ServerTakes /\ srv.pc = "readCertificateVerify12"
    BY <1>8 DEF ServerReadCertificateVerify12, ServerReads, ServerHasMessage, ServerTakes
  <2>2. \/ FailServerAfter(<<>>)
        \/ \E a : ServerSends(<<>>, [srv EXCEPT !.transcript = a, !.pc = "readFinished12"])
    BY <1>8, Zenon DEF ServerReadCertificateVerify12, ServerChecks
  <2>3. CASE \E a : ServerSends(<<>>, [srv EXCEPT !.transcript = a, !.pc = "readFinished12"])
    <3>1. /\ cli' = cli /\ srv'.conf = srv.conf /\ srv'.ech = srv.ech /\ srv'.vers = srv.vers
          /\ srv'.serverName = srv.serverName /\ srv'.pc = "readFinished12"
      BY <1>0, <2>3 DEF ServerSends, ServerKeeps, ServerFields
    <3> QED
      BY <2>1, <3>1, On12Names
  <2> QED
    BY <2>1, <2>2, <2>3, FailsNames
<1>9. CASE ServerReadFinished12
  <2>1. ServerTakes /\ srv.pc = "readFinished12"
    BY <1>9 DEF ServerReadFinished12, ServerReads, ServerHasMessage, ServerTakes
  <2>2. \/ FailServerAfter(<<>>)
        \/ \E f, a : ServerSends(f, [srv EXCEPT !.transcript = a, !.pc = "complete"])
    BY <1>9, Zenon DEF ServerReadFinished12
  <2>3. CASE \E f, a : ServerSends(f, [srv EXCEPT !.transcript = a, !.pc = "complete"])
    <3>1. /\ cli' = cli /\ srv'.conf = srv.conf /\ srv'.ech = srv.ech /\ srv'.vers = srv.vers
          /\ srv'.serverName = srv.serverName /\ srv'.pc = "complete"
      BY <1>0, <2>3 DEF ServerSends, ServerKeeps, ServerFields
    <3> QED
      BY <2>1, <3>1, On12Names
  <2> QED
    BY <2>1, <2>2, <2>3, FailsNames
<1> QED
  BY <1>1, <1>2, <1>3, <1>4, <1>5, <1>6, <1>7, <1>8, <1>9 DEF ServerStep12

\* readClientHello: the server answers the inner hello if it can open it.
LEMMA readClientHelloNames ==
  ASSUME TicketInv, LinkInv, NameInv, readClientHello
  PROVE  NameInv'
<1> DEFINE outer == FromClient
           hello == processECHClientHello(outer)
           e == IF hello # outer THEN outer.ech.config ELSE None
<1>0. /\ srv.pc = "readClientHello" /\ ServerTakes /\ toServer # <<>>
      /\ DOMAIN srv = ServerFields
  BY DEF readClientHello, ServerReads, ServerHasMessage, ServerTakes, TicketInv, Answered
<1>1. \/ FailServerAfter(<<>>)
      \/ /\ outer.type = "clientHello"
         /\ \E v, k :
              ServerSends(<<>>, [srv EXCEPT !.hello = hello, !.outer = outer, !.vers = v, !.keys = k,
                                   !.ech = e, !.pc = IF v = TLS13 THEN "process13" ELSE "process12"])
  BY Zenon DEF readClientHello, ServerChecks
<1>2. CASE FailServerAfter(<<>>)
  BY <1>0, <1>2, FailsNames
<1>3. ASSUME outer.type = "clientHello", NEW v, NEW k,
             ServerSends(<<>>, [srv EXCEPT !.hello = hello, !.outer = outer, !.vers = v, !.keys = k,
                                  !.ech = e, !.pc = IF v = TLS13 THEN "process13" ELSE "process12"])
      PROVE  NameInv'
  <2>1. Named(outer) /\ DOMAIN outer = HelloFields
    <3>1. outer \in Elements(toServer)
      BY <1>0, QueueTail DEF TicketInv, Hellos, FromClient
    <3> QED
      BY <1>3, <3>1 DEF NameInv, NamedOut, TicketInv, Hellos, HelloOk, Offers
  <2>2. /\ ~UsesECH => hello = outer /\ e = None /\ hello.serverName = ServerName
        /\ UsesECH => \/ /\ hello.serverName = ServerName /\ e = cli.conf.ech
                         /\ e \in srv.conf.echKeys
                      \/ /\ hello = outer /\ e = None /\ hello.serverName = PublicName
                         /\ hello.ech # NoECH => hello.ech.config \notin srv.conf.echKeys
    BY <2>1, ClientAssumption DEF Named, processECHClientHello, InnerECH, UsesECH
  <2>3. UsesECH /\ hello = outer =>
          DOMAIN hello = HelloFields /\ (hello.psk # None => BoundInside(hello.binder))
    BY <2>1 DEF Named
  <2> HIDE DEF hello, e, outer
  <2>4. /\ srv'.pc = IF v = TLS13 THEN "process13" ELSE "process12"
        /\ srv'.conf = srv.conf /\ srv'.hello = hello /\ srv'.ech = e
        /\ srv'.didResume = srv.didResume /\ srv'.transcript = srv.transcript
        /\ cli' = cli /\ toClient' = toClient \o <<>>
    BY <1>0, <1>3 DEF ServerSends, ServerKeeps, ServerFields
  <2>5. ~srv.didResume /\ srv.transcript = <<>> /\ srv.ech = None
    BY <1>0 DEF TicketInv, Judged, Undecided, LinkInv, Stands, NameInv, ServerNames
  <2>6. /\ UsesECH' = UsesECH /\ hello.serverName = Addressed'
        /\ e # None => UsesECH /\ e = cli.conf.ech /\ e \in srv.conf.echKeys
        /\ e = None /\ UsesECH => hello = outer
    BY <2>2, <2>4, ClientAssumption DEF UsesECH, Addressed
  <2>7. AnsweredFirst(Opening)'
    BY <2>2, <2>4, <2>5, <2>6 DEF AnsweredFirst, Opening, UsesECH
  <2>8. ServerNames'
    <3>1. srv'.pc \in Unnamed /\ srv'.pc \notin {"readClientHello", "readSecondHello13"}
      BY <2>4 DEF Unnamed
    <3>2. UsesECH' /\ srv'.ech = None =>
            /\ DOMAIN srv'.hello = HelloFields
            /\ srv'.hello.psk # None => BoundInside(srv'.hello.binder)
      BY <2>3, <2>4, <2>6
    <3>3. ~srv'.didResume
      BY <2>4, <2>5
    <3>4. srv'.ech # None => UsesECH' /\ srv'.ech = cli'.conf.ech /\ srv'.ech \in srv'.conf.echKeys
      BY <2>4, <2>6
    <3>5. srv'.hello.serverName = Addressed'
      BY <2>4, <2>6
    <3> QED
      BY <2>7, <3>1, <3>2, <3>3, <3>4, <3>5 DEF ServerNames, BoundInside
  <2>9. NamedOut'
    <3>1. Elements(toServer') \subseteq Elements(toServer)
      BY <1>0, QueueTail DEF ServerTakes, TicketInv, Hellos
    <3> QED
      BY <2>4, <3>1 DEF NameInv, NamedOut, Named, BoundInside, UsesECH
  <2>10. NamedBack'
    <3>1. toClient' = toClient
      BY <2>4 DEF TicketInv, Replies
    <3>2. NoFinished(toClient)
      BY <1>0, NothingSent DEF Unsent
    <3> QED
      BY <3>1, <3>2 DEF NamedBack, NoFinished
  <2>11. ClientNames'
    <3>1. ~cli.echAccepted
      BY <2>5 DEF NameInv, ClientNames
    <3>2. cli.pc \notin {"sendCertificate13", "sendFinished13"}
      BY <1>0 DEF LinkInv, Follows, Told, Informed, Late13
    <3>3. UsesECH => cli.err # "ech"
      BY <1>0 DEF NameInv, ClientNames, Unopened
    <3>4. \A t : (OuterFirst(t) => OuterFirst(t)') /\ (InnerFirst(t) => InnerFirst(t)')
      BY <2>4 DEF OuterFirst, InnerFirst
    <3>5. /\ ShownPublic => ShownPublic'
          /\ Named(cli.hello) => Named(cli.hello)'
      BY <2>4 DEF ShownPublic, Named, BoundInside, UsesECH
    <3> QED
      BY <2>4, <2>6, <3>1, <3>2, <3>3, <3>4, <3>5 DEF NameInv, ClientNames
  <2> QED
    BY <2>8, <2>9, <2>10, <2>11 DEF NameInv
<1> QED
  BY <1>1, <1>2, <1>3

\* A step of the TLS 1.3 server before its ServerHello.
LEMMA On13Names ==
  ASSUME TicketInv, LinkInv, NameInv, Goes,
         NEW flight, IsSequence(flight), NoFinished(flight), toClient' = toClient \o flight,
         srv.pc \in Before13 \cup {"sendCertificate13"},
         srv'.pc \in Before13 \cup {"sendCertificate13", "sendFinished13"},
         srv'.pc \in Before13 =>
           /\ srv'.hello.serverName = Addressed
           /\ UsesECH /\ srv.ech = None =>
                DOMAIN srv'.hello = HelloFields
                /\ (srv'.hello.psk # None => BoundInside(srv'.hello.binder)),
         srv'.pc = "readSecondHello13" => srv'.transcript # <<>>,
         srv'.pc \notin Unnamed => srv'.serverName = Addressed,
         AnsweredFirst(IF srv'.transcript = <<>> THEN srv'.hello ELSE srv'.transcript[1]),
         srv'.didResume /\ UsesECH => srv.ech # None
  PROVE  NameInv'
<1>1. Addressed' = Addressed /\ UsesECH' = UsesECH /\ AnsweredFirst(Opening)'
  BY DEF Goes, Addressed, UsesECH, AnsweredFirst, Opening
<1>2. srv'.pc # "process12" /\ srv'.pc # "readClientHello"
  BY DEF Before13
<1>3. UsesECH' /\ srv'.ech = None /\ srv'.pc \in Before13 =>
        DOMAIN srv'.hello = HelloFields /\ (srv'.hello.psk # None => BoundInside(srv.hello.binder)')
  BY <1>1 DEF Goes, BoundInside
<1>4. ServerNames'
  BY <1>1, <1>2, <1>3 DEF NameInv, ServerNames, Goes
<1> QED
  BY <1>4, SendsNames DEF NoFinished

\* One that sends nothing and keeps the hello.
LEMMA Quiet13Names ==
  ASSUME TicketInv, LinkInv, NameInv, NEW new, ServerSends(<<>>, new), ServerTakes,
         srv.pc \in Before13, srv'.pc \in Before13 \ {"readSecondHello13"},
         srv'.conf = srv.conf, srv'.ech = srv.ech, srv'.vers = srv.vers,
         srv'.hello = srv.hello, srv'.transcript = srv.transcript,
         srv'.pc \notin Unnamed => srv'.serverName = Addressed,
         srv'.didResume /\ UsesECH => srv.ech # None
  PROVE  NameInv'
<1>1. Goes /\ toClient' = toClient \o <<>>
  BY DEF Goes, ServerSends, ServerKeeps, Before13
<1>2. IsSequence(<<>>) /\ NoFinished(<<>>)
  BY QueueNone DEF IsSequence, NoFinished
<1>3. /\ srv.hello.serverName = Addressed
      /\ UsesECH /\ srv.ech = None =>
           DOMAIN srv.hello = HelloFields /\ (srv.hello.psk # None => BoundInside(srv.hello.binder))
      /\ AnsweredFirst(IF srv.transcript = <<>> THEN srv.hello ELSE srv.transcript[1])
  BY DEF NameInv, ServerNames, Opening
<1> QED
  BY <1>1, <1>2, <1>3, On13Names

LEMMA processClientHello13Names ==
  ASSUME TicketInv, LinkInv, NameInv, processClientHello13
  PROVE  NameInv'
<1>0. srv.pc = "process13" /\ DOMAIN srv = ServerFields /\ ServerTakes /\ srv.vers = TLS13
  BY DEF TicketInv, Answered, ServerTakes, processClientHello13, LinkInv, Stands, Before13
<1>1. \/ FailServerAfter(<<>>)
      \/ \E u, g : ServerSends(<<>>, [[srv EXCEPT !.suite = u, !.curve = g]
                                        EXCEPT !.pc = "negotiate13"])
      \/ \E u, g, a, hrr :
           /\ hrr = [ServerHello13 EXCEPT !.suite = u, !.hrr = TRUE, !.selectedGroup = g,
                                          !.echAccept = a]
           /\ ServerSends(<<hrr>>, [[srv EXCEPT !.suite = u, !.curve = g]
                                      EXCEPT !.transcript = <<srv.hello, hrr>>,
                                             !.pc = "readSecondHello13"])
  BY Zenon DEF processClientHello13
<1>2. CASE FailServerAfter(<<>>)
  BY <1>0, <1>2, FailsNames
<1>3. ASSUME NEW u, NEW g,
             ServerSends(<<>>, [[srv EXCEPT !.suite = u, !.curve = g] EXCEPT !.pc = "negotiate13"])
      PROVE  NameInv'
  <2>1. /\ srv'.pc = "negotiate13" /\ srv'.conf = srv.conf /\ srv'.ech = srv.ech
        /\ srv'.vers = srv.vers /\ srv'.hello = srv.hello /\ srv'.transcript = srv.transcript
        /\ srv'.didResume = srv.didResume
    BY <1>0, <1>3 DEF ServerSends, ServerFields
  <2>2. srv.didResume /\ UsesECH => srv.ech # None
    BY <1>0 DEF NameInv, ServerNames
  <2> QED
    BY <1>0, <1>3, <2>1, <2>2, Quiet13Names DEF Before13, Unnamed
<1>4. ASSUME NEW u, NEW g, NEW a, NEW hrr,
             hrr = [ServerHello13 EXCEPT !.suite = u, !.hrr = TRUE, !.selectedGroup = g,
                                         !.echAccept = a],
             ServerSends(<<hrr>>, [[srv EXCEPT !.suite = u, !.curve = g]
                                     EXCEPT !.transcript = <<srv.hello, hrr>>,
                                            !.pc = "readSecondHello13"])
      PROVE  NameInv'
  <2>1. hrr.type = "serverHello"
    BY <1>4 DEF ServerHello13, LegacyServerHello
  <2>2. /\ srv'.pc = "readSecondHello13" /\ srv'.transcript = <<srv.hello, hrr>>
        /\ srv'.hello = srv.hello /\ srv'.didResume = srv.didResume
        /\ toClient' = toClient \o <<hrr>> /\ Goes
    BY <1>0, <1>4 DEF ServerSends, ServerKeeps, ServerFields, Goes
  <2>3. IsSequence(<<hrr>>) /\ NoFinished(<<hrr>>)
    BY <2>1, QueueOne DEF IsSequence, NoFinished
  <2>4. srv.transcript = <<>>
    BY <1>0 DEF LinkInv, Stands
  <2>5. /\ srv.hello.serverName = Addressed
        /\ UsesECH /\ srv.ech = None =>
             DOMAIN srv.hello = HelloFields /\ (srv.hello.psk # None => BoundInside(srv.hello.binder))
        /\ AnsweredFirst(srv.hello) /\ (srv.didResume /\ UsesECH => srv.ech # None)
    BY <1>0, <2>4 DEF NameInv, ServerNames, Opening, Before13
  <2>6. srv'.transcript # <<>> /\ srv'.transcript[1] = srv.hello
    BY <2>2
  <2> QED
    BY <1>0, <2>2, <2>3, <2>5, <2>6, On13Names DEF Before13, Unnamed
<1> QED
  BY <1>1, <1>2, <1>3, <1>4

\* The second hello has the name of the first.
LEMMA ReadSecondClientHello13Names ==
  ASSUME TicketInv, LinkInv, NameInv, ReadSecondClientHello13
  PROVE  NameInv'
<1> DEFINE outer == FromClient
           hello == IF srv.ech = None THEN outer ELSE outer.ech.inner
<1>0. /\ srv.pc = "readSecondHello13" /\ ServerTakes /\ toServer # <<>>
      /\ DOMAIN srv = ServerFields /\ srv.vers = TLS13
  BY DEF ReadSecondClientHello13, ServerReads, ServerHasMessage, ServerTakes, TicketInv, Answered,
         LinkInv, Stands, Before13
<1>1. \/ FailServerAfter(<<>>)
      \/ /\ outer.type = "clientHello"
         /\ srv.ech # None => outer.ech \notin {NoECH, InnerECH}
         /\ ServerSends(<<>>, [srv EXCEPT !.hello = hello, !.didHRR = TRUE, !.pc = "negotiate13"])
  BY Zenon DEF ReadSecondClientHello13, ServerChecks
<1>2. CASE FailServerAfter(<<>>)
  BY <1>0, <1>2, FailsNames
<1>3. ASSUME outer.type = "clientHello", srv.ech # None => outer.ech \notin {NoECH, InnerECH},
             ServerSends(<<>>, [srv EXCEPT !.hello = hello, !.didHRR = TRUE, !.pc = "negotiate13"])
      PROVE  NameInv'
  <2>1. Named(outer) /\ DOMAIN outer = HelloFields
    <3>1. outer \in Elements(toServer)
      BY <1>0, QueueTail DEF TicketInv, Hellos, FromClient
    <3> QED
      BY <1>3, <3>1 DEF NameInv, NamedOut, TicketInv, Hellos, HelloOk, Offers
  <2>2. srv.ech # None => UsesECH
    BY DEF NameInv, ServerNames
  <2>3. /\ hello.serverName = Addressed
        /\ UsesECH /\ srv.ech = None =>
             DOMAIN hello = HelloFields /\ (hello.psk # None => BoundInside(hello.binder))
    BY <1>3, <2>1, <2>2 DEF Named, Addressed
  <2> HIDE DEF hello
  <2>4. /\ srv'.pc = "negotiate13" /\ srv'.transcript = srv.transcript /\ srv'.hello = hello
        /\ srv'.didResume = srv.didResume /\ toClient' = toClient \o <<>> /\ Goes
    BY <1>0, <1>3 DEF ServerSends, ServerKeeps, ServerFields, Goes
  <2>5. IsSequence(<<>>) /\ NoFinished(<<>>)
    BY QueueNone DEF IsSequence, NoFinished
  <2>6. /\ srv.transcript # <<>> /\ AnsweredFirst(srv.transcript[1])
        /\ srv.didResume /\ UsesECH => srv.ech # None
    BY <1>0 DEF NameInv, ServerNames, Opening, Before13
  <2> QED
    BY <1>0, <2>3, <2>4, <2>5, <2>6, On13Names DEF Before13, Unnamed
<1> QED
  BY <1>1, <1>2, <1>3

\* A PSK in a hello that could not be opened is bound to the name inside.
LEMMA NotBoundOutside ==
  ASSUME NameInv, srv.pc \in Before13, UsesECH, srv.ech = None,
         NEW secret, srv.hello.binder = Binder(secret, srv.hello, srv.transcript)
  PROVE  srv.hello.psk = None
<1> SUFFICES ASSUME srv.hello.psk # None PROVE FALSE
  OBVIOUS
<1> DEFINE b == Binder(secret, srv.hello, srv.transcript)
<1>1. /\ srv.hello.serverName = PublicName /\ DOMAIN srv.hello = HelloFields
      /\ BoundInside(srv.hello.binder)
  BY DEF NameInv, ServerNames, Addressed
<1>2. b.prefix = srv.transcript /\ b.over.serverName = srv.hello.serverName
  BY <1>1 DEF Binder, HelloFields
<1>3. srv.transcript # <<>> => srv.transcript[1].serverName = PublicName
  BY DEF NameInv, ServerNames, Opening, AnsweredFirst, Addressed
<1> HIDE DEF b
<1>4. BoundInside(b)
  BY <1>1 DEF b
<1> QED
  BY <1>1, <1>2, <1>3, <1>4, ClientAssumption DEF BoundInside

LEMMA checkForResumption13Names ==
  ASSUME TicketInv, LinkInv, NameInv, checkForResumption13
  PROVE  NameInv'
<1> DEFINE s == IF srv.conf.ticketsDisabled \/ ~srv.hello.pskDHE THEN None
                ELSE decryptTicket(srv.hello.psk)
<1>0. srv.pc = "checkForResumption13" /\ DOMAIN srv = ServerFields /\ ServerTakes /\ srv.vers = TLS13
  BY DEF TicketInv, Answered, ServerTakes, checkForResumption13, LinkInv, Stands, Before13
<1>1. \/ FailServerAfter(<<>>)
      \/ ServerSends(<<>>, [srv EXCEPT !.pc = "pickCertificate13"])
      \/ /\ s # None /\ srv.hello.binder = Binder(s.secret, srv.hello, srv.transcript)
         /\ ServerSends(<<>>, [[srv EXCEPT !.pc = "pickCertificate13"] EXCEPT
                                 !.session = s, !.didResume = TRUE, !.peer = s.peer,
                                 !.verified = s.verified])
  <2>1. Resumable13(s) => s # None
    BY DEF Resumable13
  <2> QED
    BY <2>1, Zenon DEF checkForResumption13, ServerChecks
<1>2. CASE FailServerAfter(<<>>)
  BY <1>0, <1>2, FailsNames
<1>3. srv.serverName = Addressed /\ (srv.didResume /\ UsesECH => srv.ech # None)
  BY <1>0 DEF NameInv, ServerNames, Unnamed
<1>4. CASE ServerSends(<<>>, [srv EXCEPT !.pc = "pickCertificate13"])
  <2>1. /\ srv'.pc = "pickCertificate13" /\ srv'.conf = srv.conf /\ srv'.ech = srv.ech
        /\ srv'.vers = srv.vers /\ srv'.hello = srv.hello /\ srv'.transcript = srv.transcript
        /\ srv'.serverName = srv.serverName /\ srv'.didResume = srv.didResume
    BY <1>0, <1>4 DEF ServerSends, ServerFields
  <2> QED
    BY <1>0, <1>3, <1>4, <2>1, Quiet13Names DEF Before13
<1>5. ASSUME s # None, srv.hello.binder = Binder(s.secret, srv.hello, srv.transcript),
             ServerSends(<<>>, [[srv EXCEPT !.pc = "pickCertificate13"] EXCEPT
                                  !.session = s, !.didResume = TRUE, !.peer = s.peer,
                                  !.verified = s.verified])
      PROVE  NameInv'
  <2>1. srv.hello.psk # None
    BY <1>5 DEF decryptTicket
  <2> HIDE DEF s
  <2>2. UsesECH => srv.ech # None
    BY <1>0, <1>5, <2>1, NotBoundOutside DEF Before13
  <2>3. /\ srv'.pc = "pickCertificate13" /\ srv'.conf = srv.conf /\ srv'.ech = srv.ech
        /\ srv'.vers = srv.vers /\ srv'.hello = srv.hello /\ srv'.transcript = srv.transcript
        /\ srv'.serverName = srv.serverName
    BY <1>0, <1>5 DEF ServerSends, ServerFields
  <2> QED
    BY <1>0, <1>3, <1>5, <2>2, <2>3, Quiet13Names DEF Before13
<1> HIDE DEF s
<1> QED
  BY <1>1, <1>2, <1>4, <1>5

LEMMA Choices13Names ==
  ASSUME TicketInv, LinkInv, NameInv, NegotiateProtocol13 \/ pickCertificate13
  PROVE  NameInv'
<1>0. DOMAIN srv = ServerFields
  BY DEF TicketInv, Answered
<1>1. ASSUME NegotiateProtocol13 PROVE NameInv'
  <2>1. srv.pc = "negotiate13" /\ ServerTakes /\ srv.vers = TLS13
    BY <1>1 DEF NegotiateProtocol13, ServerTakes, LinkInv, Stands, Before13
  <2>2. \/ FailServerAfter(<<>>)
        \/ \E a : ServerSends(<<>>, [srv EXCEPT !.alpn = a, !.serverName = srv.hello.serverName,
                                                !.pc = "checkForResumption13"])
    BY <1>1, Zenon DEF NegotiateProtocol13, ServerChecks
  <2>3. ASSUME NEW a, ServerSends(<<>>, [srv EXCEPT !.alpn = a, !.serverName = srv.hello.serverName,
                                                    !.pc = "checkForResumption13"])
        PROVE  NameInv'
    <3>1. /\ srv'.pc = "checkForResumption13" /\ srv'.conf = srv.conf /\ srv'.ech = srv.ech
          /\ srv'.vers = srv.vers /\ srv'.hello = srv.hello /\ srv'.transcript = srv.transcript
          /\ srv'.serverName = srv.hello.serverName /\ srv'.didResume = srv.didResume
      BY <1>0, <2>3 DEF ServerSends, ServerFields
    <3>2. srv.hello.serverName = Addressed /\ (srv.didResume /\ UsesECH => srv.ech # None)
      BY <2>1 DEF NameInv, ServerNames, Before13
    <3> QED
      BY <2>1, <2>3, <3>1, <3>2, Quiet13Names DEF Before13
  <2> QED
    BY <2>1, <2>2, <2>3, FailsNames
<1>2. ASSUME pickCertificate13 PROVE NameInv'
  <2>1. srv.pc = "pickCertificate13" /\ ServerTakes /\ srv.vers = TLS13
    BY <1>2 DEF pickCertificate13, ServerTakes, LinkInv, Stands, Before13
  <2>2. \/ FailServerAfter(<<>>)
        \/ ServerSends(<<>>, [srv EXCEPT !.pc = "sendParameters13"])
        \/ \E c, a : ServerSends(<<>>, [[srv EXCEPT !.pc = "sendParameters13"] EXCEPT
                                          !.cert = c, !.sigAlg = a])
    BY <1>2, Zenon DEF pickCertificate13, ServerChecks
  <2>3. CASE FailServerAfter(<<>>)
    BY <2>1, <2>3, FailsNames
  <2>4. ASSUME NEW new, ServerSends(<<>>, new),
               /\ srv'.pc = "sendParameters13" /\ srv'.conf = srv.conf /\ srv'.ech = srv.ech
               /\ srv'.vers = srv.vers /\ srv'.hello = srv.hello /\ srv'.transcript = srv.transcript
               /\ srv'.serverName = srv.serverName /\ srv'.didResume = srv.didResume
        PROVE  NameInv'
    <3>1. srv.serverName = Addressed /\ (srv.didResume /\ UsesECH => srv.ech # None)
      BY <2>1 DEF NameInv, ServerNames, Unnamed
    <3> QED
      BY <2>1, <2>4, <3>1, Quiet13Names DEF Before13
  <2>5. CASE ServerSends(<<>>, [srv EXCEPT !.pc = "sendParameters13"])
    <3>1. /\ srv'.pc = "sendParameters13" /\ srv'.conf = srv.conf /\ srv'.ech = srv.ech
          /\ srv'.vers = srv.vers /\ srv'.hello = srv.hello /\ srv'.transcript = srv.transcript
          /\ srv'.serverName = srv.serverName /\ srv'.didResume = srv.didResume
      BY <1>0, <2>5 DEF ServerSends, ServerFields
    <3> QED
      BY <2>4, <2>5, <3>1
  <2>6. ASSUME NEW c, NEW a, ServerSends(<<>>, [[srv EXCEPT !.pc = "sendParameters13"] EXCEPT
                                                  !.cert = c, !.sigAlg = a])
        PROVE  NameInv'
    <3>1. /\ srv'.pc = "sendParameters13" /\ srv'.conf = srv.conf /\ srv'.ech = srv.ech
          /\ srv'.vers = srv.vers /\ srv'.hello = srv.hello /\ srv'.transcript = srv.transcript
          /\ srv'.serverName = srv.serverName /\ srv'.didResume = srv.didResume
      BY <1>0, <2>6 DEF ServerSends, ServerFields
    <3> QED
      BY <2>4, <2>6, <3>1
  <2> QED
    BY <2>2, <2>3, <2>5, <2>6
<1> QED
  BY <1>1, <1>2

\* The first hello stays the first message.
LEMMA sendServerParametersNames ==
  ASSUME TicketInv, LinkInv, NameInv, sendServerParameters
  PROVE  NameInv'
<1> DEFINE hellos == Append(srv.transcript, srv.hello)
           sh == [ServerHello13 EXCEPT !.serverShare = srv.curve, !.psk = srv.didResume,
                                       !.echAccept = IF srv.ech # None THEN hellos ELSE None]
           ee == [type |-> "encryptedExtensions", alpn |-> srv.alpn,
                  retryConfigs |-> IF srv.hello.ech # NoECH /\ srv.ech = None
                                   THEN buildRetryConfigList(srv.conf) ELSE None]
           flight == <<sh, ee>>
           seen == hellos \o flight
<1>0. srv.pc = "sendParameters13" /\ ServerTakes /\ DOMAIN srv = ServerFields /\ srv.vers = TLS13
  BY DEF TicketInv, Answered, sendServerParameters, ServerTakes, LinkInv, Stands, Before13
<1>1. \E u : ServerSends(flight, [srv EXCEPT !.sh = sh, !.transcript = seen, !.secret = u,
                                             !.pc = "sendCertificate13"])
  BY Zenon DEF sendServerParameters
<1>2. sh.type = "serverHello" /\ ee.type = "encryptedExtensions"
  BY DEF ServerHello13, LegacyServerHello
<1> HIDE DEF sh, ee
<1>3. IsSequence(flight) /\ NoFinished(flight)
  BY <1>2, Sequences2 DEF NoFinished
<1> HIDE DEF flight
<1>4. seen # <<>> /\ seen[1] = Opening
  <2>1. IsSequence(srv.transcript)
    BY DEF LinkInv, Stands
  <2>2. IsSequence(hellos)
    BY <2>1, Sequences1
  <2>3. hellos # <<>> /\ hellos[1] = Opening
    <3>1. CASE srv.transcript = <<>>
      BY <3>1, FirstOf DEF Opening
    <3>2. CASE srv.transcript # <<>>
      BY <2>1, <3>2, FirstOf DEF Opening
    <3> QED
      BY <3>1, <3>2
  <2> HIDE DEF hellos
  <2> QED
    BY <1>3, <2>2, <2>3, FirstOf
<1> HIDE DEF seen
<1> PICK u : ServerSends(flight, [srv EXCEPT !.sh = sh, !.transcript = seen, !.secret = u,
                                             !.pc = "sendCertificate13"])
  BY <1>1
<1>5. /\ srv'.pc = "sendCertificate13" /\ srv'.transcript = seen
      /\ srv'.serverName = srv.serverName /\ srv'.didResume = srv.didResume
      /\ toClient' = toClient \o flight /\ Goes
  BY <1>0 DEF ServerSends, ServerKeeps, ServerFields, Goes
<1>6. /\ srv.serverName = Addressed /\ AnsweredFirst(Opening)
      /\ srv.didResume /\ UsesECH => srv.ech # None
  BY <1>0 DEF NameInv, ServerNames, Unnamed, Before13
<1>7. AnsweredFirst(IF srv'.transcript = <<>> THEN srv'.hello ELSE srv'.transcript[1])
  BY <1>4, <1>5, <1>6
<1>8. srv'.pc \notin Before13
  BY <1>5 DEF Before13
<1> QED
  BY <1>0, <1>3, <1>5, <1>6, <1>7, <1>8, On13Names DEF Before13

LEMMA sendServerCertificateNames ==
  ASSUME TicketInv, LinkInv, NameInv, sendServerCertificate
  PROVE  NameInv'
<1> DEFINE ask == CertificateRequest(TLS13, srv.conf)
           cert == Certificate(srv.cert)
           request == IF requestClientCert THEN <<ask>> ELSE <<>>
           flight == Append(request, cert)
           verify == CertificateVerify(Signature(srv.cert, srv.sigAlg, srv.transcript \o flight))
           sent == IF srv.didResume THEN <<>> ELSE Append(flight, verify)
           seen == transcriptMsg(srv.transcript, sent)
<1>0. /\ srv.pc = "sendCertificate13" /\ ServerTakes /\ DOMAIN srv = ServerFields
      /\ srv.vers = TLS13 /\ IsSequence(srv.transcript) /\ srv.transcript # <<>>
  BY DEF TicketInv, Answered, sendServerCertificate, ServerTakes, LinkInv, Stands, Sent13
<1>1. ServerSends(sent, [srv EXCEPT !.transcript = seen, !.pc = "sendFinished13"])
  BY Zenon DEF sendServerCertificate
<1>2. /\ ask.type = "certificateRequest" /\ cert.type = "certificate"
      /\ verify.type = "certificateVerify"
  BY DEF CertificateRequest, Certificate, CertificateVerify
<1> HIDE DEF ask, cert, verify
<1>3. IsSequence(request) /\ Elements(request) \subseteq {ask}
  BY QueueOne, QueueNone DEF IsSequence
<1> HIDE DEF request
<1>4. IsSequence(flight) /\ Elements(flight) \subseteq {ask, cert}
  BY <1>3, QueueAppend DEF IsSequence
<1> HIDE DEF flight
<1>5. IsSequence(sent) /\ Elements(sent) \subseteq {ask, cert, verify}
  BY <1>4, QueueAppend, QueueNone DEF IsSequence
<1> HIDE DEF sent
<1>6. seen # <<>> /\ seen[1] = srv.transcript[1]
  BY <1>0, <1>5, FirstOf
<1> HIDE DEF seen
<1>7. /\ srv'.pc = "sendFinished13" /\ srv'.transcript = seen
      /\ srv'.serverName = srv.serverName /\ srv'.didResume = srv.didResume
      /\ toClient' = toClient \o sent /\ Goes
  BY <1>0, <1>1 DEF ServerSends, ServerKeeps, ServerFields, Goes
<1>8. /\ srv.serverName = Addressed /\ AnsweredFirst(srv.transcript[1])
      /\ srv.didResume /\ UsesECH => srv.ech # None
  BY <1>0 DEF NameInv, ServerNames, Unnamed, Opening
<1>9. AnsweredFirst(IF srv'.transcript = <<>> THEN srv'.hello ELSE srv'.transcript[1])
  BY <1>6, <1>7, <1>8
<1>10. srv'.pc \notin Before13 /\ NoFinished(sent)
  BY <1>2, <1>5, <1>7 DEF Before13, NoFinished
<1> QED
  BY <1>0, <1>5, <1>7, <1>8, <1>9, <1>10, On13Names

\* The server behind its Finished.
LEMMA After13Names ==
  ASSUME TicketInv, LinkInv, NameInv, NEW flight, NEW new, ServerSends(flight, new), ServerTakes,
         IsSequence(flight), srv.pc \in Sent13, srv.vers = TLS13,
         srv'.pc \in {"readCertificate13", "readCertificateVerify13", "sendTickets13",
                      "readFinished13", "complete"},
         srv'.conf = srv.conf, srv'.ech = srv.ech, srv'.vers = srv.vers,
         srv'.serverName = srv.serverName, srv'.didResume = srv.didResume,
         \A msg \in Elements(flight) : msg.type = "finished" => SealedOver(msg)
  PROVE  NameInv'
<1>1. Goes /\ toClient' = toClient \o flight
  BY DEF Goes, ServerSends, ServerKeeps
<1>2. /\ srv'.pc \notin Before13 \cup {"process12", "readClientHello", "sendCertificate13",
                                       "sendFinished13"}
      /\ srv.pc \notin Unnamed
  BY DEF Before13, Unnamed, Sent13
<1>3. ServerNames'
  BY <1>1, <1>2, BehindNames
<1> QED
  BY <1>1, <1>3, SendsNames

LEMMA NoSealInTickets == IsSequence(SessionTickets) /\ NoFinished(SessionTickets)
<1> DEFINE ticket == NewSessionTicket(conns)
<1>1. ticket.type = "newSessionTicket"
  BY DEF NewSessionTicket
<1>2. SessionTickets = <<>> \/ SessionTickets = <<ticket>>
  BY DEF SessionTickets
<1> HIDE DEF ticket
<1>3. CASE SessionTickets = <<>>
  BY <1>3, QueueNone DEF IsSequence, NoFinished
<1>4. CASE SessionTickets = <<ticket>>
  BY <1>1, <1>4, QueueOne DEF IsSequence, NoFinished
<1> QED
  BY <1>2, <1>3, <1>4

LEMMA sendServerFinishedNames ==
  ASSUME TicketInv, LinkInv, NameInv, sendServerFinished
  PROVE  NameInv'
<1> DEFINE finished == Finished(srv.secret, "server", srv.transcript)
           seen == transcriptMsg(srv.transcript, <<finished>>)
           last == transcriptMsg(seen, <<Finished(srv.secret, "client", seen)>>)
           flight == <<finished>> \o SessionTickets
<1>0. /\ srv.pc = "sendFinished13" /\ ServerTakes /\ DOMAIN srv = ServerFields
      /\ srv.vers = TLS13 /\ srv.transcript # <<>>
  BY DEF TicketInv, Answered, sendServerFinished, ServerTakes, LinkInv, Stands, Sent13
<1>1. \/ ServerSends(<<finished>>, [srv EXCEPT !.transcript = seen, !.pc = "readCertificate13"])
      \/ ServerSends(flight, [srv EXCEPT !.transcript = last, !.pc = "readFinished13"])
  BY Zenon DEF sendServerFinished
<1>2. finished.type = "finished" /\ finished.over = srv.transcript
  BY DEF Finished
<1> HIDE DEF finished
<1>3. SealedOver(finished)
  BY <1>0, <1>2 DEF SealedOver, NameInv, ServerNames, Opening
<1>4. IsSequence(<<finished>>) /\ Elements(<<finished>>) = {finished}
  BY QueueOne DEF IsSequence
<1>5. /\ IsSequence(flight)
      /\ Elements(flight) \subseteq {finished} \cup Elements(SessionTickets)
  BY <1>4, NoSealInTickets, QueueConcat DEF IsSequence
<1> HIDE DEF flight, seen, last
<1>6. \A msg \in Elements(flight) : msg.type = "finished" => SealedOver(msg)
  BY <1>3, <1>5, NoSealInTickets DEF NoFinished
<1>7. ASSUME NEW f, NEW t, NEW p \in {"readCertificate13", "readFinished13"}, IsSequence(f),
             ServerSends(f, [srv EXCEPT !.transcript = t, !.pc = p]),
             \A msg \in Elements(f) : msg.type = "finished" => SealedOver(msg)
      PROVE  NameInv'
  <2>1. /\ srv'.pc = p /\ srv'.conf = srv.conf /\ srv'.ech = srv.ech /\ srv'.vers = srv.vers
        /\ srv'.serverName = srv.serverName /\ srv'.didResume = srv.didResume
    BY <1>0, <1>7 DEF ServerSends, ServerFields
  <2> QED
    BY <1>0, <1>7, <2>1, After13Names DEF Sent13
<1> QED
  BY <1>1, <1>3, <1>4, <1>5, <1>6, <1>7

LEMMA Reads13Names ==
  ASSUME TicketInv, LinkInv, NameInv,
         ServerReadCertificate13 \/ ServerReadCertificateVerify13 \/ readClientFinished
         \/ sendSessionTickets
  PROVE  NameInv'
<1>0. DOMAIN srv = ServerFields
  BY DEF TicketInv, Answered
<1>1. ASSUME NEW f, NEW t, NEW a, NEW b, srv.pc \in Sent13, ServerTakes, IsSequence(f), NoFinished(f),
             NEW p \in {"sendTickets13", "readCertificateVerify13", "readFinished13", "complete"},
             ServerSends(f, [[srv EXCEPT !.peer = a, !.verified = b, !.transcript = t]
                               EXCEPT !.pc = p])
      PROVE  NameInv'
  <2>1. /\ srv'.pc = p /\ srv'.conf = srv.conf /\ srv'.ech = srv.ech /\ srv'.vers = srv.vers
        /\ srv'.serverName = srv.serverName /\ srv'.didResume = srv.didResume
    BY <1>0, <1>1 DEF ServerSends, ServerFields
  <2>2. srv.vers = TLS13
    BY <1>1 DEF LinkInv, Stands
  <2> QED
    BY <1>1, <2>1, <2>2, After13Names DEF NoFinished
<1>2. IsSequence(<<>>) /\ NoFinished(<<>>)
  BY QueueNone DEF IsSequence, NoFinished
<1>3. CASE ServerReadCertificate13
  <2>1. ServerTakes /\ srv.pc \in Sent13
    BY <1>3 DEF ServerReadCertificate13, ServerReads, ServerHasMessage, ServerTakes, Sent13
  <2> DEFINE a == FromClient.cert
             b == a # None /\ srv.conf.clientAuth >= VerifyClientCertIfGiven
             t == transcriptMsg(srv.transcript, <<FromClient>>)
             p == IF FromClient.cert = None THEN "sendTickets13" ELSE "readCertificateVerify13"
  <2>2. \/ FailServerAfter(<<>>)
        \/ ServerSends(<<>>, [[srv EXCEPT !.peer = a, !.verified = b, !.transcript = t]
                                EXCEPT !.pc = p])
    BY <1>3, Zenon DEF ServerReadCertificate13, ServerChecks, WithClientCert
  <2>3. p \in {"sendTickets13", "readCertificateVerify13", "readFinished13", "complete"}
    OBVIOUS
  <2> HIDE DEF a, b, t, p
  <2> QED
    BY <1>1, <1>2, <2>1, <2>2, <2>3, FailsNames
<1>4. ASSUME NEW f, NEW t, srv.pc \in Sent13, ServerTakes, IsSequence(f), NoFinished(f),
             NEW p \in {"sendTickets13", "readFinished13", "complete"},
             ServerSends(f, [srv EXCEPT !.transcript = t, !.pc = p])
      PROVE  NameInv'
  <2>1. /\ srv'.pc = p /\ srv'.conf = srv.conf /\ srv'.ech = srv.ech /\ srv'.vers = srv.vers
        /\ srv'.serverName = srv.serverName /\ srv'.didResume = srv.didResume
    BY <1>0, <1>4 DEF ServerSends, ServerFields
  <2>2. srv.vers = TLS13
    BY <1>4 DEF LinkInv, Stands
  <2> QED
    BY <1>4, <2>1, <2>2, After13Names DEF NoFinished
<1>5. CASE ServerReadCertificateVerify13
  <2>1. ServerTakes /\ srv.pc \in Sent13
    BY <1>5 DEF ServerReadCertificateVerify13, ServerReads, ServerHasMessage, ServerTakes, Sent13
  <2>2. \/ FailServerAfter(<<>>)
        \/ \E t : ServerSends(<<>>, [srv EXCEPT !.transcript = t, !.pc = "sendTickets13"])
    BY <1>5, Zenon DEF ServerReadCertificateVerify13, ServerChecks
  <2> QED
    BY <1>2, <1>4, <2>1, <2>2, FailsNames
<1>6. CASE sendSessionTickets
  <2>1. ServerTakes /\ srv.pc \in Sent13
    BY <1>6 DEF sendSessionTickets, ServerTakes, Sent13
  <2>2. \E t : ServerSends(SessionTickets, [srv EXCEPT !.transcript = t, !.pc = "readFinished13"])
    BY <1>6, Zenon DEF sendSessionTickets
  <2> QED
    BY <1>4, <2>1, <2>2, NoSealInTickets
<1>7. CASE readClientFinished
  <2>1. ServerTakes /\ srv.pc \in Sent13 /\ srv.vers = TLS13
    BY <1>7 DEF readClientFinished, ServerReads, ServerHasMessage, ServerTakes, Sent13, LinkInv,
                Stands
  <2>2. FailServerAfter(<<>>) \/ ServerSends(<<>>, [srv EXCEPT !.pc = "complete"])
    BY <1>7, Zenon DEF readClientFinished, ServerChecks
  <2>3. ASSUME ServerSends(<<>>, [srv EXCEPT !.pc = "complete"]) PROVE NameInv'
    <3>1. /\ srv'.pc = "complete" /\ srv'.conf = srv.conf /\ srv'.ech = srv.ech
          /\ srv'.vers = srv.vers /\ srv'.serverName = srv.serverName
          /\ srv'.didResume = srv.didResume
      BY <1>0, <2>3 DEF ServerSends, ServerFields
    <3> QED
      BY <1>2, <2>1, <2>3, <3>1, After13Names DEF NoFinished
  <2> QED
    BY <2>1, <2>2, <2>3, FailsNames
<1> QED
  BY <1>3, <1>5, <1>6, <1>7

LEMMA ServerNextNames ==
  ASSUME TicketInv, LinkInv, NameInv, ServerNext
  PROVE  NameInv'
<1>1. CASE ServerReadsAlert
  BY <1>1, FailsNames DEF ServerReadsAlert, ServerTakes
<1>2. CASE ServerStep13
  BY <1>2, processClientHello13Names, ReadSecondClientHello13Names, Choices13Names,
     checkForResumption13Names, sendServerParametersNames, sendServerCertificateNames,
     sendServerFinishedNames, Reads13Names
  DEF ServerStep13
<1> QED
  BY <1>1, <1>2, readClientHelloNames, Steps12Names DEF ServerNext

-----------------------------------------------------------------------------
(* The client *)

\* What is said of the server stays true while it stands still.
LEMMA ServerNamesStill ==
  ASSUME srv' = srv, cli'.conf = cli.conf
  PROVE  /\ UsesECH' = UsesECH /\ Addressed' = Addressed
         /\ \A h : Named(h) => Named(h)'
         /\ \A m : SealedOver(m) => SealedOver(m)'
         /\ ServerNames => ServerNames'
<1>1. UsesECH' = UsesECH /\ Addressed' = Addressed
  BY DEF UsesECH, Addressed
<1>2. \A h : AnsweredFirst(h) => AnsweredFirst(h)'
  BY <1>1 DEF AnsweredFirst
<1>3. AnsweredFirst(Opening) => AnsweredFirst(Opening)'
  BY <1>1 DEF AnsweredFirst, Opening
<1>4. \A h : Named(h) => Named(h)'
  BY <1>1 DEF Named, BoundInside
<1>5. ServerNames => ServerNames'
  BY <1>1, <1>3 DEF ServerNames, BoundInside
<1> QED
  BY <1>1, <1>2, <1>4, <1>5 DEF SealedOver

LEMMA ClientStepNames ==
  ASSUME TicketInv, NameInv, srv' = srv, ClientTakes, cli'.conf = cli.conf,
         NEW flight, IsSequence(flight), toServer' = toServer \o flight,
         \A msg \in Elements(flight) : msg.type = "clientHello" => Named(msg),
         ClientNames'
  PROVE  NameInv'
<1>1. Elements(toClient') \subseteq Elements(toClient)
  BY QueueTail DEF ClientTakes, TicketInv, Replies
<1>2. Elements(toServer') \subseteq Elements(toServer) \cup Elements(flight)
  BY QueueConcat DEF IsSequence, TicketInv, Hellos
<1>3. NamedOut'
  BY <1>2, ServerNamesStill DEF NameInv, NamedOut
<1>4. NamedBack'
  BY <1>1, ServerNamesStill DEF NameInv, NamedBack
<1> QED
  BY <1>3, <1>4, ServerNamesStill DEF NameInv

LEMMA ClientQuietNames ==
  ASSUME TicketInv, NameInv, srv' = srv, ClientTakes, cli'.conf = cli.conf,
         toServer' = toServer, ClientNames'
  PROVE  NameInv'
<1>1. toServer' = toServer \o <<>>
  BY DEF TicketInv, Hellos
<1>2. IsSequence(<<>>) /\ Elements(<<>>) = {}
  BY QueueNone DEF IsSequence
<1> QED
  BY <1>1, <1>2, ClientStepNames

LEMMA FailClientNames ==
  ASSUME ClientInv, TicketInv, NameInv, srv' = srv, NEW e, e # "ech", FailClient(e), ClientTakes
  PROVE  NameInv'
<1>1. /\ cli'.pc = "failed" /\ cli'.err = e /\ cli'.conf = cli.conf
      /\ cli'.echAccepted = cli.echAccepted /\ cli'.echRejected = cli.echRejected
      /\ cli'.didHRR = cli.didHRR /\ toServer' = Append(toServer, Alert)
  BY DEF FailClient, ClientInv, Configured, ClientFields
<1>2. ClientNames'
  BY <1>1 DEF NameInv, ClientNames, Greeting, Late13, Verified13, UsesECH
<1>3. toServer' = toServer \o <<Alert>>
  BY <1>1 DEF TicketInv, Hellos
<1>4. IsSequence(<<Alert>>) /\ Elements(<<Alert>>) = {Alert} /\ Alert.type # "clientHello"
  BY QueueOne DEF IsSequence, Alert
<1> QED
  BY <1>1, <1>2, <1>3, <1>4, ClientStepNames

\* A client keeps its name and its opinion of the server's answer.
KeepsName ==
  /\ cli'.conf = cli.conf /\ cli'.serverName = cli.serverName
  /\ cli'.echAccepted = cli.echAccepted /\ cli'.didHRR = cli.didHRR /\ cli'.err = cli.err

\* The steps of TLS 1.0 to 1.2.
LEMMA Client12Names ==
  ASSUME ClientInv, NameInv, srv' = srv, KeepsName, cli'.echRejected = cli.echRejected,
         cli.pc \in Places12, cli'.pc \in Places12 \cup {"complete"}
  PROVE  ClientNames'
<1>1. ~UsesECH /\ UsesECH' = UsesECH
  BY DEF ClientInv, Encrypted, KeepsName, UsesECH
<1>2. /\ cli.pc \notin {"idle", "start", "failed"}
      /\ cli'.pc \notin Greeting
      /\ cli'.pc \notin {"start", "readServerHello", "retry13", "check13", "readSecondServerHello"}
  BY DEF Places12, Greeting
<1> QED
  BY <1>1, <1>2 DEF NameInv, ClientNames, KeepsName

\* The steps of TLS 1.3 behind the ServerHello.
LEMMA Late13Names ==
  ASSUME NameInv, srv' = srv, KeepsName, cli'.echRejected = cli.echRejected,
         cli.pc \in Late13, cli'.pc \in Late13, cli'.didResume = cli.didResume,
         cli.transcript # <<>> =>
           cli'.transcript # <<>> /\ cli'.transcript[1] = cli.transcript[1],
         cli'.pc \in Verified13 /\ UsesECH /\ ~cli.echAccepted /\ ~cli.didResume =>
           PublicName \in cli'.cert.names /\ cli'.cert.issuer \in cli.conf.roots,
         cli'.pc \in {"sendCertificate13", "sendFinished13"} /\ UsesECH /\ cli.echRejected => Unopened
  PROVE  ClientNames'
<1>1. UsesECH' = UsesECH /\ (Unopened => Unopened')
  BY DEF KeepsName, UsesECH, Unopened
<1>2. cli.pc \notin Greeting \cup {"idle", "start", "failed"}
  BY DEF Late13, Greeting
<1>3. cli'.pc \notin Greeting \cup {"idle", "start", "failed", "complete", "process13"}
  BY DEF Late13, Greeting
<1>4. UsesECH /\ cli.echRejected => OuterFirst(cli.transcript)
  BY DEF NameInv, ClientNames
<1>5. UsesECH /\ cli.echRejected => OuterFirst(cli.transcript)'
  BY <1>4 DEF OuterFirst, KeepsName
<1>6. cli'.pc \in Verified13 /\ UsesECH /\ ~cli.echAccepted => ShownPublic'
  BY DEF ShownPublic, KeepsName
<1>7. cli'.pc \notin {"retry13", "check13", "readServerHello", "readSecondServerHello"}
  BY DEF Late13
<1> QED
  BY <1>1, <1>2, <1>3, <1>5, <1>6, <1>7 DEF NameInv, ClientNames, KeepsName

LEMMA ClientReadServerHelloNames ==
  ASSUME ClientInv, TicketInv, NameInv, srv' = srv, ClientReadServerHello
  PROVE  NameInv'
<1> DEFINE vers == pickTLSVersion(FromServer)
           place == IF vers = TLS13 THEN "check13" ELSE "process12"
<1>0. DOMAIN cli = ClientFields /\ cli.pc = "readServerHello" /\ ClientTakes
  BY DEF ClientInv, Configured, ClientReadServerHello, ClientReads, ClientHasMessage, ClientTakes
<1>1. \/ FailClient("refused")
      \/ ClientGoes([cli EXCEPT !.sh = FromServer, !.vers = vers, !.pc = place])
  BY Zenon DEF ClientReadServerHello, ClientChecks
<1>2. CASE FailClient("refused")
  BY <1>0, <1>2, FailClientNames
<1>3. CASE ClientGoes([cli EXCEPT !.sh = FromServer, !.vers = vers, !.pc = place])
  <2>1. place \in {"check13", "process12"}
    OBVIOUS
  <2> HIDE DEF vers, place
  <2>2. /\ cli'.pc = place /\ cli'.hello = cli.hello /\ cli'.inner = cli.inner
        /\ cli'.echRejected = cli.echRejected /\ KeepsName /\ toServer' = toServer
    BY <1>0, <1>3 DEF ClientGoes, ClientFields, KeepsName
  <2>3. UsesECH' = UsesECH /\ Named(cli.hello)'
    <3>1. Named(cli.hello)
      BY <1>0 DEF NameInv, ClientNames, Greeting
    <3> QED
      BY <2>2, <3>1 DEF Named, BoundInside, UsesECH, KeepsName
  <2>4. ClientNames'
    BY <1>0, <2>1, <2>2, <2>3
    DEF NameInv, ClientNames, Greeting, Late13, Verified13, KeepsName
  <2> QED
    BY <1>0, <2>2, <2>4, ClientQuietNames DEF KeepsName
<1> QED
  BY <1>1, <1>2, <1>3

\* The steps around the ServerHello of TLS 1.3.
LEMMA checkServerHelloOrHRRNames ==
  ASSUME ClientInv, TicketInv, LinkInv, NameInv, srv' = srv, checkServerHelloOrHRR
  PROVE  NameInv'
<1> DEFINE t == IF cli.didHRR THEN cli.transcript ELSE <<cli.hello>>
           i == IF cli.didHRR \/ ~UsesECH THEN cli.innerTranscript ELSE <<cli.inner>>
           l == IF cli.sh.hrr /\ ~cli.didHRR THEN "retry13" ELSE "process13"
<1>0. DOMAIN cli = ClientFields /\ cli.pc = "check13" /\ ClientTakes
  BY DEF ClientInv, Configured, checkServerHelloOrHRR, ClientTakes
<1>1. \/ FailClient("refused")
      \/ ClientGoes([cli EXCEPT !.suite = cli.sh.suite, !.transcript = t, !.innerTranscript = i,
                                !.pc = l])
  BY Zenon DEF checkServerHelloOrHRR, ClientChecks
<1>2. CASE FailClient("refused")
  BY <1>0, <1>2, FailClientNames
<1>3. CASE ClientGoes([cli EXCEPT !.suite = cli.sh.suite, !.transcript = t, !.innerTranscript = i,
                                  !.pc = l])
  <2>1. /\ Named(cli.hello)
        /\ UsesECH => cli.hello.ech # NoECH /\ cli.inner.serverName = ServerName
        /\ UsesECH /\ cli.didHRR => OuterFirst(cli.transcript)
        /\ ~cli.didHRR => ~cli.echAccepted
    BY <1>0 DEF NameInv, ClientNames, Greeting
  <2>2. UsesECH => OuterFirst(t)
    <3>1. UsesECH => OuterFirst(<<cli.hello>>)
      BY <2>1, FirstOf DEF Named, OuterFirst
    <3> QED
      BY <2>1, <3>1
  <2>3. l \in {"retry13", "process13"} /\ (l = "retry13" => ~cli.didHRR)
    OBVIOUS
  <2>4. UsesECH /\ l = "retry13" => InnerFirst(i)
    <3>1. UsesECH => InnerFirst(<<cli.inner>>)
      BY <2>1, FirstOf DEF InnerFirst
    <3> QED
      BY <2>3, <3>1
  <2> HIDE DEF t, i, l
  <2>5. /\ cli'.pc = l /\ cli'.hello = cli.hello /\ cli'.inner = cli.inner
        /\ cli'.transcript = t /\ cli'.innerTranscript = i
        /\ cli'.echRejected = cli.echRejected /\ KeepsName /\ toServer' = toServer
    BY <1>0, <1>3 DEF ClientGoes, ClientFields, KeepsName
  <2>6. /\ UsesECH' = UsesECH /\ Named(cli.hello)'
        /\ UsesECH => OuterFirst(cli.transcript)'
        /\ UsesECH /\ l = "retry13" => InnerFirst(cli.innerTranscript)'
    <3>1. Named(cli.hello)'
      BY <2>1, <2>5 DEF Named, BoundInside, UsesECH, KeepsName
    <3> QED
      BY <2>2, <2>4, <2>5, <3>1 DEF OuterFirst, InnerFirst, UsesECH, KeepsName
  <2>7. ClientNames'
    BY <1>0, <2>1, <2>3, <2>5, <2>6
    DEF NameInv, ClientNames, Greeting, Late13, Verified13, KeepsName
  <2> QED
    BY <1>0, <2>5, <2>7, ClientQuietNames DEF KeepsName
<1> QED
  BY <1>1, <1>2, <1>3

LEMMA ReadSecondServerHelloNames ==
  ASSUME ClientInv, TicketInv, LinkInv, NameInv, srv' = srv, ReadSecondServerHello
  PROVE  NameInv'
<1>0. DOMAIN cli = ClientFields /\ cli.pc = "readSecondServerHello" /\ ClientTakes
  BY DEF ClientInv, Configured, ReadSecondServerHello, ClientReads, ClientHasMessage, ClientTakes
<1>1. FailClient("refused") \/ ClientGoes([cli EXCEPT !.sh = FromServer, !.pc = "check13"])
  BY Zenon DEF ReadSecondServerHello, ClientChecks
<1>2. CASE FailClient("refused")
  BY <1>0, <1>2, FailClientNames
<1>3. CASE ClientGoes([cli EXCEPT !.sh = FromServer, !.pc = "check13"])
  <2>1. /\ cli'.pc = "check13" /\ cli'.hello = cli.hello /\ cli'.inner = cli.inner
        /\ cli'.transcript = cli.transcript
        /\ cli'.echRejected = cli.echRejected /\ KeepsName /\ toServer' = toServer
    BY <1>0, <1>3 DEF ClientGoes, ClientFields, KeepsName
  <2>2. /\ Named(cli.hello) /\ cli.didHRR
        /\ UsesECH => OuterFirst(cli.transcript)
    BY <1>0 DEF NameInv, ClientNames, Greeting
  <2>3. UsesECH' = UsesECH /\ Named(cli.hello)' /\ (UsesECH => OuterFirst(cli.transcript)')
    BY <2>1, <2>2 DEF Named, BoundInside, UsesECH, KeepsName, OuterFirst
  <2>4. ClientNames'
    BY <1>0, <2>1, <2>2, <2>3 DEF NameInv, ClientNames, Greeting, Late13, Verified13, KeepsName
  <2> QED
    BY <1>0, <2>1, <2>4, ClientQuietNames DEF KeepsName
<1> QED
  BY <1>1, <1>2, <1>3

\* A ServerHello that confirms the inner hello is from a server that opened it.
LEMMA Confirmed ==
  ASSUME LinkInv, cli.pc \in Middle13, ConfirmsECH(cli.sh)
  PROVE  srv.ech # None
BY DEF LinkInv, Follows, Informed, Told, ConfirmsECH

LEMMA processServerHello13Names ==
  ASSUME ClientInv, TicketInv, LinkInv, NameInv, srv' = srv, processServerHello13
  PROVE  NameInv'
<1> DEFINE sh == cli.sh
           accepted == UsesECH /\ ConfirmsECH(sh)
           h == IF accepted THEN cli.inner ELSE cli.hello
           t == Append(IF accepted THEN cli.innerTranscript ELSE cli.transcript, sh)
           n == IF accepted THEN ServerName ELSE cli.serverName
           a == cli.echAccepted \/ accepted
           r == UsesECH /\ ~accepted
           psk == IF sh.psk THEN cli.session.secret ELSE None
           x == Secret13(psk, sh.serverShare)
           c == IF sh.psk THEN cli.session.cert ELSE cli.cert
           v == IF sh.psk THEN cli.session.verified ELSE cli.verified
           new == [cli EXCEPT !.pc = "readEncryptedExtensions", !.hello = h,
                     !.transcript = t, !.serverName = n, !.echAccepted = a, !.echRejected = r,
                     !.curve = sh.serverShare, !.secret = x,
                     !.usingPSK = sh.psk, !.didResume = sh.psk, !.cert = c, !.verified = v]
<1>0. DOMAIN cli = ClientFields /\ cli.pc = "process13" /\ ClientTakes
  BY DEF ClientInv, Configured, processServerHello13, ClientTakes
<1>1. FailClient("refused") \/ ClientGoes(new)
  BY Zenon DEF processServerHello13, ClientChecks
<1>2. CASE FailClient("refused")
  BY <1>0, <1>2, FailClientNames
<1>3. CASE ClientGoes(new)
  <2>1. /\ cli.echAccepted \in BOOLEAN /\ cli.didHRR \in BOOLEAN /\ cli.err # "ech"
        /\ cli.echAccepted => UsesECH /\ srv.ech # None
        /\ cli.serverName = IF UsesECH /\ ~cli.echAccepted THEN PublicName ELSE ServerName
        /\ UsesECH => OuterFirst(cli.transcript)
    BY <1>0 DEF NameInv, ClientNames
  <2>2. accepted => srv.ech # None
    BY <1>0, Confirmed DEF Middle13
  <2>3. a \in BOOLEAN /\ r \in BOOLEAN /\ accepted \in BOOLEAN
    BY Zenon
  <2>4. /\ r => UsesECH /\ ~accepted
        /\ a => cli.echAccepted \/ accepted
        /\ UsesECH => a \/ r
        /\ a => UsesECH /\ srv.ech # None
        /\ n = IF UsesECH /\ ~a THEN PublicName ELSE ServerName
    BY <2>1, <2>2
  <2>5. UsesECH /\ r => t # <<>> /\ t[1] = cli.transcript[1]
    BY <2>1, FirstOf DEF LinkInv, Follows, OuterFirst
  <2> HIDE DEF h, t, n, a, r, x, c, v
  <2>6. /\ cli'.pc = "readEncryptedExtensions" /\ cli'.conf = cli.conf /\ cli'.transcript = t
        /\ cli'.serverName = n /\ cli'.echAccepted = a /\ cli'.echRejected = r
        /\ cli'.didHRR = cli.didHRR /\ cli'.err = cli.err /\ toServer' = toServer
    BY <1>0, <1>3 DEF ClientGoes, ClientFields
  <2>7. UsesECH' = UsesECH /\ (UsesECH /\ r => OuterFirst(cli.transcript)')
    BY <2>1, <2>5, <2>6 DEF UsesECH, OuterFirst
  <2>8. /\ cli'.echAccepted \in BOOLEAN /\ cli'.echRejected \in BOOLEAN
        /\ cli'.didHRR \in BOOLEAN
    BY <2>1, <2>3, <2>6
  <2>9. ClientNames'
    BY <2>1, <2>4, <2>6, <2>7, <2>8 DEF ClientNames, Greeting, Late13, Verified13
  <2> QED
    BY <1>0, <2>6, <2>9, ClientQuietNames
<1> QED
  BY <1>1, <1>2, <1>3

\* A second hello has the name of the first, and its PSK is bound to all that
\* went before.
LEMMA RetriedNames ==
  ASSUME NEW hello, NEW prefix, DOMAIN hello = HelloFields
  PROVE  LET second == RetryPSK(hello, prefix)
         IN  /\ DOMAIN second = HelloFields
             /\ second.serverName = hello.serverName /\ second.ech = hello.ech
             /\ second.psk # None => second.binder.prefix = prefix
<1> DEFINE bare == [hello EXCEPT !.binder = None]
           b == Binder(cli.session.secret, bare, prefix)
<1>1. /\ DOMAIN bare = HelloFields /\ bare.serverName = hello.serverName /\ bare.ech = hello.ech
      /\ b.prefix = prefix
  BY DEF HelloFields, Binder
<1>2. \/ hello.psk = None /\ RetryPSK(hello, prefix) = hello
      \/ RetryPSK(hello, prefix) = [hello EXCEPT !.binder = b]
      \/ RetryPSK(hello, prefix) = [bare EXCEPT !.psk = None]
  BY DEF RetryPSK
<1> HIDE DEF bare, b
<1> QED
  BY <1>1, <1>2 DEF HelloFields

LEMMA processHelloRetryRequestNames ==
  ASSUME ClientInv, TicketInv, LinkInv, NameInv, srv' = srv, processHelloRetryRequest
  PROVE  NameInv'
<1> DEFINE accepted == UsesECH /\ ConfirmsECH(cli.sh)
           hello == IF accepted THEN cli.inner ELSE cli.hello
           prefix == Append(IF UsesECH THEN cli.innerTranscript ELSE cli.transcript, cli.sh)
           retry == [hello EXCEPT !.keyShares = {cli.sh.selectedGroup}]
           second == RetryPSK(retry, prefix)
           shared == [cli.hello EXCEPT !.keyShares = second.keyShares]
           outer == OuterHello(cli.conf, second, shared)
           sent == IF accepted THEN outer ELSE second
           inner == IF accepted THEN second ELSE cli.inner
           n == IF accepted THEN ServerName ELSE cli.serverName
           t == cli.transcript \o <<cli.sh, sent>>
           rest == IF ~UsesECH THEN <<>> ELSE Append(cli.innerTranscript, cli.sh)
           i == IF accepted THEN Append(rest, second) ELSE rest
           new == [cli EXCEPT !.pc = "readSecondServerHello", !.didHRR = TRUE, !.hello = sent,
                              !.inner = inner, !.echAccepted = accepted,
                              !.serverName = n, !.transcript = t, !.innerTranscript = i]
<1>0. DOMAIN cli = ClientFields /\ cli.pc = "retry13" /\ ClientTakes
  BY DEF ClientInv, Configured, processHelloRetryRequest, ClientTakes
<1>1. FailClient("refused") \/ (cli' = new /\ toServer' = Append(toServer, sent))
  BY DEF processHelloRetryRequest
<1>2. CASE FailClient("refused")
  BY <1>0, <1>2, FailClientNames
<1>3. CASE cli' = new /\ toServer' = Append(toServer, sent)
  <2>1. /\ DOMAIN cli.hello = HelloFields /\ (UsesECH => DOMAIN cli.inner = HelloFields)
        /\ IsSequence(cli.transcript) /\ IsSequence(cli.innerTranscript)
    BY <1>0 DEF ClientInv, Greeted, Started, ClientDone, Binds, LinkInv, Follows
  <2>2. /\ Named(cli.hello) /\ ~cli.echAccepted /\ cli.echRejected \in BOOLEAN /\ cli.err # "ech"
        /\ UsesECH => /\ cli.hello.ech # NoECH /\ cli.inner.serverName = ServerName
                      /\ InnerFirst(cli.innerTranscript) /\ OuterFirst(cli.transcript)
        /\ cli.serverName = IF UsesECH THEN PublicName ELSE ServerName
    BY <1>0 DEF NameInv, ClientNames, Greeting
  <2>3. accepted => UsesECH /\ srv.ech # None
    BY <1>0, Confirmed DEF Middle13
  <2>4. UsesECH => prefix # <<>> /\ prefix[1].serverName = ServerName
    BY <2>1, <2>2, FirstOf DEF InnerFirst
  <2>5. accepted \in BOOLEAN
    BY Zenon
  <2>6. /\ ~accepted => hello = cli.hello
        /\ accepted => hello = cli.inner
    OBVIOUS
  <2>7. DOMAIN hello = HelloFields
    BY <2>1, <2>3, <2>6
  <2> HIDE DEF accepted, hello, prefix
  <2>8. DOMAIN retry = HelloFields /\ retry.serverName = hello.serverName /\ retry.ech = hello.ech
    BY <2>7 DEF HelloFields
  <2> HIDE DEF retry
  <2>9. /\ second.serverName = hello.serverName /\ second.ech = hello.ech
        /\ second.psk # None => second.binder.prefix = prefix
    BY <2>8, RetriedNames
  <2> HIDE DEF second
  <2>10. /\ DOMAIN shared = HelloFields /\ shared.psk = cli.hello.psk
         /\ shared.binder = cli.hello.binder
    BY <2>1 DEF HelloFields
  <2> HIDE DEF shared
  <2>11. /\ outer.serverName = PublicName /\ outer.ech = [config |-> cli.conf.ech, inner |-> second]
         /\ outer.psk = cli.hello.psk /\ outer.binder = cli.hello.binder
    BY <2>10 DEF OuterHello, HelloFields
  <2> HIDE DEF outer
  <2>12. Named(sent) /\ (UsesECH => sent.ech # NoECH /\ inner.serverName = ServerName)
    <3>1. CASE accepted
      <4>1. /\ outer.ech.config = cli.conf.ech /\ outer.ech.inner = second
            /\ outer.ech # NoECH
        BY <2>3, <2>11 DEF NoECH, UsesECH
      <4>2. second.serverName = ServerName /\ (cli.hello.psk # None => BoundInside(cli.hello.binder))
        BY <2>2, <2>3, <2>6, <2>9, <3>1 DEF Named
      <4> QED
        BY <2>3, <2>11, <3>1, <4>1, <4>2 DEF Named
    <3>2. CASE ~accepted
      <4>1. sent = second /\ inner = cli.inner /\ hello = cli.hello
        BY <2>6, <3>2
      <4>2. UsesECH /\ second.psk # None => BoundInside(second.binder)
        BY <2>4, <2>9 DEF BoundInside
      <4> QED
        BY <2>2, <2>9, <4>1, <4>2 DEF Named
    <3> QED
      BY <3>1, <3>2
  <2>13. n = IF UsesECH /\ ~accepted THEN PublicName ELSE ServerName
    BY <2>2, <2>3
  <2> HIDE DEF sent, inner, n
  <2>14. UsesECH => t # <<>> /\ t[1] = cli.transcript[1]
    BY <2>1, <2>2, FirstOf, Sequences2 DEF OuterFirst
  <2> HIDE DEF t, i
  <2>15. /\ cli'.pc = "readSecondServerHello" /\ cli'.conf = cli.conf /\ cli'.transcript = t
         /\ cli'.serverName = n /\ cli'.echAccepted = accepted /\ cli'.hello = sent
         /\ cli'.inner = inner /\ cli'.echRejected = cli.echRejected
         /\ cli'.didHRR = TRUE /\ cli'.err = cli.err
    BY <1>0, <1>3 DEF ClientFields
  <2>16. /\ UsesECH' = UsesECH /\ (UsesECH => OuterFirst(cli.transcript)')
         /\ Named(cli.hello)'
    <3>1. UsesECH => OuterFirst(cli.transcript)'
      BY <2>2, <2>14, <2>15 DEF UsesECH, OuterFirst
    <3>2. Named(cli.hello)'
      BY <2>12, <2>15 DEF Named, BoundInside, UsesECH
    <3> QED
      BY <2>15, <3>1, <3>2 DEF UsesECH
  <2>17. /\ cli'.echAccepted \in BOOLEAN /\ cli'.echRejected \in BOOLEAN
         /\ cli'.didHRR \in BOOLEAN
    BY <2>2, <2>5, <2>15
  <2>18. ClientNames'
    BY <2>2, <2>3, <2>12, <2>13, <2>15, <2>16, <2>17
    DEF ClientNames, Greeting, Late13, Verified13
  <2>19. toServer' = toServer \o <<sent>>
    BY <1>3 DEF TicketInv, Hellos
  <2>20. IsSequence(<<sent>>) /\ Elements(<<sent>>) = {sent}
    BY QueueOne DEF IsSequence
  <2> QED
    BY <1>0, <2>12, <2>15, <2>18, <2>19, <2>20, ClientStepNames
<1> QED
  BY <1>1, <1>2, <1>3

\* A Finished over the outer hello is from a server that could not open the inner
\* one.
LEMMA SealedRead ==
  ASSUME TicketInv, LinkInv, NameInv, cli.pc = "readFinished13", toClient # <<>>,
         FromServer = Finished(cli.secret, "server", cli.transcript), UsesECH, cli.echRejected
  PROVE  Unopened
<1>1. FromServer.type = "finished" /\ FromServer.over = cli.transcript
  BY DEF Finished
<1>2. FromServer \in Elements(toClient)
  BY QueueTail DEF TicketInv, Replies, FromServer
<1>3. /\ cli.vers = srv.vers /\ Told(cli.sh) /\ Follows13 /\ Sealing(FromServer)
  BY <1>1, <1>2 DEF LinkInv, Heard, ReplyTrue, Follows, Behind13, Late13, Informed
<1>4. srv.vers = TLS13 /\ ~Halted /\ ~cli.sh.hrr /\ cli.didResume = cli.sh.psk
  BY <1>3 DEF Follows13, Sealing
<1>5. cli.didResume = srv.didResume /\ srv.pc # "readClientHello"
  BY <1>3, <1>4 DEF Told, Said
<1>6. AnsweredFirst(cli.transcript[1]) /\ OuterFirst(cli.transcript)
  BY <1>1, <1>2, <1>4 DEF NameInv, NamedBack, SealedOver, ClientNames, Late13
<1>7. srv.ech = None /\ cli.conf.ech \notin srv.conf.echKeys
  BY <1>6, ClientAssumption DEF AnsweredFirst, OuterFirst, Addressed
<1>8. ~cli.echAccepted /\ ~srv.didResume
  BY <1>4, <1>7 DEF NameInv, ClientNames, ServerNames
<1> QED
  BY <1>5, <1>7, <1>8 DEF Unopened

\* The steps of TLS 1.3 that read the rest of the server's flight.
LEMMA Reads13ClientNames ==
  ASSUME ClientInv, TicketInv, LinkInv, NameInv, srv' = srv,
         \/ readServerParameters \/ ReadCertificateRequest13
         \/ ReadServerCertificate13 \/ ReadCertificateVerify13 \/ readServerFinished
  PROVE  NameInv'
<1> USE DEF ClientFields
<1>0. /\ DOMAIN cli = ClientFields /\ ClientTakes /\ toClient # <<>>
      /\ cli.pc \in {"readEncryptedExtensions", "readCertificate13", "readCertificateVerify13",
                     "readFinished13"}
  BY DEF ClientInv, Configured, readServerParameters, ReadCertificateRequest13,
         ReadServerCertificate13, ReadCertificateVerify13, readServerFinished, ClientReads,
         ClientHasMessage, ClientTakes
<1>1. CASE FailClient("refused")
  BY <1>0, <1>1, FailClientNames
<1> DEFINE t == transcriptMsg(cli.transcript, <<FromServer>>)
           Holds == /\ KeepsName /\ cli'.echRejected = cli.echRejected
                    /\ cli'.didResume = cli.didResume /\ cli'.transcript = t
                    /\ toServer' = toServer
<1>2. cli.transcript # <<>> => t # <<>> /\ t[1] = cli.transcript[1]
  BY FirstOf, Sequences1 DEF LinkInv, Follows
<1>3. cli.pc \in Late13
  BY <1>0 DEF Late13
<1> HIDE DEF t
<1>4. ASSUME readServerParameters, ~FailClient("refused")
      PROVE  NameInv'
  <2> DEFINE r == IF cli.echRejected THEN FromServer.retryConfigs ELSE cli.retryConfigs
             l == IF cli.usingPSK THEN "readFinished13" ELSE "readCertificate13"
  <2>1. /\ cli.pc = "readEncryptedExtensions"
        /\ ClientGoes([cli EXCEPT !.alpn = FromServer.alpn, !.retryConfigs = r, !.transcript = t,
                                  !.pc = l])
    BY <1>4, Zenon DEF readServerParameters, ClientChecks, ClientReads, t
  <2>2. l = "readFinished13" \/ l = "readCertificate13"
    OBVIOUS
  <2>3. l # "readCertificate13" => cli.didResume
    BY <2>1 DEF LinkInv, Follows, Behind13, Follows13, Late13
  <2> HIDE DEF r, l
  <2>4. Holds /\ cli'.pc = l
    BY <1>0, <2>1 DEF ClientGoes, KeepsName
  <2>5. ClientNames'
    BY <1>2, <1>3, <2>2, <2>3, <2>4, Late13Names DEF Late13, Verified13
  <2> QED
    BY <1>0, <2>4, <2>5, ClientQuietNames DEF KeepsName
<1>5. ASSUME ReadCertificateRequest13
      PROVE  NameInv'
  <2>1. /\ cli.pc = "readCertificate13"
        /\ ClientGoes([cli EXCEPT !.certReq = FromServer, !.transcript = t])
    BY <1>5, Zenon DEF ReadCertificateRequest13, ClientReads, t
  <2>2. Holds /\ cli'.pc = cli.pc /\ cli'.cert = cli.cert
    BY <1>0, <2>1 DEF ClientGoes, KeepsName
  <2>3. ClientNames'
    BY <1>2, <1>3, <2>1, <2>2, Late13Names DEF Late13, Verified13
  <2> QED
    BY <1>0, <2>2, <2>3, ClientQuietNames DEF KeepsName
<1>6. ASSUME ReadServerCertificate13, ~FailClient("refused")
      PROVE  NameInv'
  <2>1. /\ cli.pc = "readCertificate13" /\ verifyServerCertificate(FromServer.cert)
        /\ ClientGoes([cli EXCEPT !.cert = FromServer.cert, !.verified = VerifiesChain,
                                  !.transcript = t, !.pc = "readCertificateVerify13"])
    BY <1>6, Zenon DEF ReadServerCertificate13, ClientChecks, ClientReads, t
  <2>2. Holds /\ cli'.pc = "readCertificateVerify13" /\ cli'.cert = FromServer.cert
    BY <1>0, <2>1 DEF ClientGoes, KeepsName
  <2>3. UsesECH /\ ~cli.echAccepted => cli.serverName = PublicName
    BY <2>1 DEF NameInv, ClientNames
  <2>4. UsesECH /\ ~cli.echAccepted =>
          PublicName \in cli'.cert.names /\ cli'.cert.issuer \in cli.conf.roots
    BY <2>1, <2>2, <2>3 DEF verifyServerCertificate, ECHRejectedCert, Verifies, UsesECH
  <2>5. ClientNames'
    BY <1>2, <1>3, <2>2, <2>4, Late13Names DEF Late13
  <2> QED
    BY <1>0, <2>2, <2>5, ClientQuietNames DEF KeepsName
<1>7. ASSUME ReadCertificateVerify13, ~FailClient("refused")
      PROVE  NameInv'
  <2>1. /\ cli.pc = "readCertificateVerify13"
        /\ ClientGoes([cli EXCEPT !.transcript = t, !.pc = "readFinished13"])
    BY <1>7, Zenon DEF ReadCertificateVerify13, ClientChecks, ClientReads, t
  <2>2. Holds /\ cli'.pc = "readFinished13" /\ cli'.cert = cli.cert
    BY <1>0, <2>1 DEF ClientGoes, KeepsName
  <2>3. UsesECH /\ ~cli.echAccepted => ShownPublic
    BY <2>1 DEF NameInv, ClientNames, Verified13
  <2>4. ClientNames'
    BY <1>2, <1>3, <2>2, <2>3, Late13Names DEF Late13, ShownPublic
  <2> QED
    BY <1>0, <2>2, <2>4, ClientQuietNames DEF KeepsName
<1>8. ASSUME readServerFinished, ~FailClient("refused")
      PROVE  NameInv'
  <2>1. /\ cli.pc = "readFinished13"
        /\ FromServer = Finished(cli.secret, "server", cli.transcript)
        /\ ClientGoes([cli EXCEPT !.transcript = t, !.pc = "sendCertificate13"])
    BY <1>8, Zenon DEF readServerFinished, ClientChecks, ClientReads, t
  <2>2. Holds /\ cli'.pc = "sendCertificate13" /\ cli'.cert = cli.cert
    BY <1>0, <2>1 DEF ClientGoes, KeepsName
  <2>3. UsesECH /\ ~cli.echAccepted => ShownPublic
    BY <2>1 DEF NameInv, ClientNames, Verified13
  <2>4. UsesECH /\ cli.echRejected => Unopened
    BY <1>0, <2>1, SealedRead
  <2>5. ClientNames'
    BY <1>2, <1>3, <2>2, <2>3, <2>4, Late13Names DEF Late13, ShownPublic
  <2> QED
    BY <1>0, <2>2, <2>5, ClientQuietNames DEF KeepsName
<1> QED
  BY <1>1, <1>4, <1>5, <1>6, <1>7, <1>8

LEMMA sendClientCertificateNames ==
  ASSUME ClientInv, TicketInv, LinkInv, NameInv, srv' = srv, sendClientCertificate
  PROVE  NameInv'
<1> DEFINE req == cli.certReq
           cert == IF cli.echRejected THEN None
                   ELSE getClientCertificate(cli.conf, TLS13, req.algs, req.cas)
           before == Append(cli.transcript, Certificate(cert))
           verify == CertificateVerify(
                       Signature(cert, selectSignatureScheme(TLS13, cert, req.algs), before))
           rest == IF cert = None THEN <<>> ELSE <<verify>>
           flight == <<Certificate(cert)>> \o rest
           seen == transcriptMsg(cli.transcript, flight)
<1>0. DOMAIN cli = ClientFields /\ ClientTakes /\ cli.pc = "sendCertificate13"
  BY DEF ClientInv, Configured, sendClientCertificate, ClientTakes
<1>1. \/ ClientGoes([cli EXCEPT !.pc = "sendFinished13"])
      \/ /\ cli' = [cli EXCEPT !.transcript = seen, !.pc = "sendFinished13"]
         /\ toServer' = toServer \o flight
  BY Zenon DEF sendClientCertificate
<1>2. IsSequence(cli.transcript)
  BY DEF LinkInv, Follows
<1>3. IsSequence(flight) /\ \A m \in Elements(flight) : m.type # "clientHello"
  <2>1. \E c, v : c = Certificate(cert) /\ v = verify
    OBVIOUS
  <2> PICK c, v : c = Certificate(cert) /\ v = verify
    BY <2>1
  <2>2. c.type = "certificate" /\ v.type = "certificateVerify"
    BY DEF Certificate, CertificateVerify
  <2>3. /\ IsSequence(rest) /\ Elements(rest) \subseteq {v}
        /\ IsSequence(<<c>>) /\ Elements(<<c>>) = {c}
    <3> HIDE DEF cert, verify
    <3> QED
      BY QueueOne, QueueNone DEF IsSequence
  <2>4. flight = <<c>> \o rest
    OBVIOUS
  <2> HIDE DEF flight, rest
  <2>5. IsSequence(flight) /\ Elements(flight) \subseteq {c, v}
    BY <2>3, <2>4, QueueConcat DEF IsSequence
  <2> QED
    BY <2>2, <2>5
<1> HIDE DEF flight
<1>4. cli.transcript # <<>> => seen # <<>> /\ seen[1] = cli.transcript[1]
  BY <1>2, <1>3, FirstOf
<1> HIDE DEF seen
<1>5. /\ KeepsName /\ cli'.pc = "sendFinished13" /\ cli'.echRejected = cli.echRejected
      /\ cli'.didResume = cli.didResume /\ cli'.cert = cli.cert
      /\ cli'.transcript = cli.transcript \/ cli'.transcript = seen
  <2>2. CASE cli' = [cli EXCEPT !.pc = "sendFinished13"]
    BY <1>0, <2>2 DEF ClientFields, KeepsName
  <2>3. CASE cli' = [cli EXCEPT !.transcript = seen, !.pc = "sendFinished13"]
    BY <1>0, <2>3 DEF ClientFields, KeepsName
  <2> QED
    BY <1>1, <2>2, <2>3 DEF ClientGoes
<1>6. /\ UsesECH /\ ~cli.echAccepted => ShownPublic
      /\ UsesECH /\ cli.echRejected => Unopened
  BY <1>0 DEF NameInv, ClientNames, Verified13
<1>7. ClientNames'
  BY <1>0, <1>4, <1>5, <1>6, Late13Names DEF Late13, ShownPublic
<1>8. CASE toServer' = toServer
  BY <1>0, <1>5, <1>7, <1>8, ClientQuietNames DEF KeepsName
<1>9. CASE toServer' = toServer \o flight
  BY <1>0, <1>3, <1>5, <1>7, <1>9, ClientStepNames DEF KeepsName
<1> QED
  BY <1>1, <1>8, <1>9 DEF ClientGoes

LEMMA sendClientFinishedNames ==
  ASSUME ClientInv, TicketInv, LinkInv, NameInv, srv' = srv, sendClientFinished
  PROVE  NameInv'
<1> DEFINE msg == Finished(cli.secret, "client", cli.transcript)
           seen == transcriptMsg(cli.transcript, <<msg>>)
<1>0. DOMAIN cli = ClientFields /\ ClientTakes /\ cli.pc = "sendFinished13"
  BY DEF ClientInv, Configured, sendClientFinished, ClientTakes
<1>1. \/ /\ cli.echRejected
         /\ cli' = [cli EXCEPT !.transcript = seen, !.pc = "failed", !.err = "ech"]
         /\ toServer' = toServer \o <<msg, Alert>>
      \/ /\ ~cli.echRejected
         /\ cli' = [cli EXCEPT !.transcript = seen, !.pc = "complete"]
         /\ toServer' = Append(toServer, msg)
  BY DEF sendClientFinished
<1>2. msg.type # "clientHello" /\ Alert.type # "clientHello"
  BY DEF Finished, Alert
<1> HIDE DEF msg, seen
<1>3. /\ UsesECH /\ ~cli.echAccepted => ShownPublic
      /\ UsesECH /\ cli.echRejected => Unopened
      /\ UsesECH => cli.echAccepted \/ cli.echRejected
      /\ cli.echAccepted => UsesECH /\ srv.ech # None
      /\ cli.echAccepted \in BOOLEAN /\ cli.echRejected \in BOOLEAN /\ cli.didHRR \in BOOLEAN
      /\ cli.err # "ech"
      /\ cli.serverName = IF UsesECH /\ ~cli.echAccepted THEN PublicName ELSE ServerName
  BY <1>0 DEF NameInv, ClientNames, Verified13, Late13
<1>4. CASE /\ cli.echRejected
           /\ cli' = [cli EXCEPT !.transcript = seen, !.pc = "failed", !.err = "ech"]
           /\ toServer' = toServer \o <<msg, Alert>>
  <2>1. /\ cli'.pc = "failed" /\ cli'.conf = cli.conf /\ cli'.didResume = cli.didResume
        /\ cli'.cert = cli.cert /\ cli'.echAccepted = cli.echAccepted
        /\ cli'.echRejected = cli.echRejected /\ cli'.didHRR = cli.didHRR
    BY <1>0, <1>4 DEF ClientFields
  <2>2. /\ UsesECH' = UsesECH
        /\ UsesECH => Unopened' /\ ShownPublic'
    BY <1>3, <1>4, <2>1 DEF UsesECH, Unopened, ShownPublic
  <2>3. ClientNames'
    BY <1>3, <2>1, <2>2 DEF ClientNames, Greeting, Late13, Verified13
  <2>4. IsSequence(<<msg, Alert>>) /\ Elements(<<msg, Alert>>) \subseteq {msg, Alert}
    BY Sequences2
  <2> QED
    BY <1>0, <1>2, <1>4, <2>1, <2>3, <2>4, ClientStepNames
<1>5. CASE /\ ~cli.echRejected
           /\ cli' = [cli EXCEPT !.transcript = seen, !.pc = "complete"]
           /\ toServer' = Append(toServer, msg)
  <2>1. /\ cli'.pc = "complete" /\ cli'.conf = cli.conf /\ cli'.err = cli.err
        /\ cli'.serverName = cli.serverName /\ cli'.echAccepted = cli.echAccepted
        /\ cli'.echRejected = cli.echRejected /\ cli'.didHRR = cli.didHRR
    BY <1>0, <1>5 DEF ClientFields
  <2>2. UsesECH' = UsesECH
    BY <2>1 DEF UsesECH
  <2>3. ClientNames'
    BY <1>3, <1>5, <2>1, <2>2 DEF ClientNames, Greeting, Late13, Verified13
  <2>4. IsSequence(<<msg>>) /\ Elements(<<msg>>) = {msg}
    BY QueueOne DEF IsSequence
  <2>5. toServer' = toServer \o <<msg>>
    BY <1>5 DEF TicketInv, Hellos
  <2> QED
    BY <1>0, <1>2, <2>1, <2>3, <2>4, <2>5, ClientStepNames
<1> QED
  BY <1>1, <1>4, <1>5

\* A ticket changes nothing but the cache.
LEMMA handleNewSessionTicketNames ==
  ASSUME ClientInv, TicketInv, LinkInv, NameInv, srv' = srv, handleNewSessionTicket
  PROVE  NameInv'
<1>1. ClientTakes /\ cli' = cli /\ toServer' = toServer
  BY DEF handleNewSessionTicket, ClientReads, ClientHasMessage, ClientTakes
<1>2. ClientNames'
  <2>1. UsesECH' = UsesECH /\ Named(cli.hello)' = Named(cli.hello)
    BY <1>1 DEF UsesECH, Named, BoundInside
  <2>2. /\ OuterFirst(cli.transcript)' = OuterFirst(cli.transcript)
        /\ InnerFirst(cli.innerTranscript)' = InnerFirst(cli.innerTranscript)
        /\ ShownPublic' = ShownPublic /\ Unopened' = Unopened
    BY <1>1 DEF OuterFirst, InnerFirst, ShownPublic, Unopened
  <2> QED
    BY <1>1, <2>1, <2>2 DEF NameInv, ClientNames
<1> QED
  BY <1>1, <1>2, ClientQuietNames

\* The steps of TLS 1.0 to 1.2 that send nothing.
LEMMA Quiet12Names ==
  ASSUME ClientInv, TicketInv, LinkInv, NameInv, srv' = srv,
         \/ processServerHello12 \/ ReadServerCertificate12 \/ ReadCertificateStatus12
         \/ VerifyServerCertificate12 \/ ReadServerKeyExchange12 \/ ReadCertificateRequest12
         \/ readSessionTicket
  PROVE  NameInv'
<1> USE DEF ClientFields
<1>0. /\ DOMAIN cli = ClientFields /\ ClientTakes /\ cli.pc \in Places12
  BY DEF ClientInv, Configured, processServerHello12, ReadServerCertificate12,
         ReadCertificateStatus12, VerifyServerCertificate12, ReadServerKeyExchange12,
         ReadCertificateRequest12, readSessionTicket, ClientReads, ClientHasMessage, ClientTakes,
         Places12
<1>1. CASE FailClient("refused")
  BY <1>0, <1>1, FailClientNames
<1> DEFINE t == transcriptMsg(cli.transcript, <<FromServer>>)
           Quiet == KeepsName /\ cli'.echRejected = cli.echRejected /\ toServer' = toServer
<1>2. ASSUME Quiet, cli'.pc \in Places12
      PROVE  NameInv'
  <2>1. ClientNames'
    BY <1>0, <1>2, Client12Names
  <2> QED
    BY <1>0, <1>2, <2>1, ClientQuietNames DEF KeepsName
<1>3. CASE processServerHello12
  <2> DEFINE sh == cli.sh
             first == <<cli.hello, sh>>
             full == [cli EXCEPT !.suite = sh.suite, !.alpn = sh.alpn, !.pc = "readCertificate12",
                                 !.transcript = first]
             again == [full EXCEPT !.didResume = TRUE, !.pc = "readTicket12",
                         !.secret = cli.session.secret, !.ems = cli.session.ems,
                         !.cert = cli.session.cert, !.verified = cli.session.verified,
                         !.curve = cli.session.curve]
  <2>1. FailClient("refused") \/ ClientGoes(full) \/ ClientGoes(again)
    BY <1>3, Zenon DEF processServerHello12, ClientChecks
  <2> HIDE DEF first
  <2>2. /\ DOMAIN full = ClientFields /\ full.pc = "readCertificate12" /\ full.conf = cli.conf
        /\ full.serverName = cli.serverName /\ full.echAccepted = cli.echAccepted
        /\ full.echRejected = cli.echRejected /\ full.didHRR = cli.didHRR /\ full.err = cli.err
    BY <1>0
  <2> HIDE DEF full
  <2>3. /\ again.pc = "readTicket12" /\ again.conf = cli.conf
        /\ again.serverName = cli.serverName /\ again.echAccepted = cli.echAccepted
        /\ again.echRejected = cli.echRejected /\ again.didHRR = cli.didHRR /\ again.err = cli.err
    BY <2>2
  <2> HIDE DEF again
  <2>4. ASSUME ~FailClient("refused")
        PROVE  Quiet /\ cli'.pc \in Places12
    BY <2>1, <2>2, <2>3, <2>4 DEF ClientGoes, KeepsName, Places12
  <2> QED
    BY <1>1, <1>2, <2>4
<1> HIDE DEF t
<1>4. CASE ReadServerCertificate12
  <2>1. \/ FailClient("refused")
        \/ ClientGoes([cli EXCEPT !.cert = FromServer.cert, !.transcript = t,
                                  !.pc = "readStatus12"])
    BY <1>4, Zenon DEF ReadServerCertificate12, ClientReads, ClientChecks, t
  <2>2. CASE ClientGoes([cli EXCEPT !.cert = FromServer.cert, !.transcript = t,
                                    !.pc = "readStatus12"])
    <3>1. Quiet /\ cli'.pc = "readStatus12"
      BY <1>0, <2>2 DEF ClientGoes, KeepsName
    <3> QED
      BY <1>2, <3>1 DEF Places12
  <2> QED
    BY <1>1, <2>1, <2>2
<1>5. CASE ReadCertificateStatus12
  <2>1. \/ FailClient("refused")
        \/ ClientGoes([cli EXCEPT !.pc = "verify12"])
        \/ ClientGoes([cli EXCEPT !.transcript = t, !.pc = "verify12"])
    BY <1>5 DEF ReadCertificateStatus12, ClientChecks, t
  <2>2. CASE ClientGoes([cli EXCEPT !.pc = "verify12"])
    <3>1. Quiet /\ cli'.pc = "verify12"
      BY <1>0, <2>2 DEF ClientGoes, KeepsName
    <3> QED
      BY <1>2, <3>1 DEF Places12
  <2>3. CASE ClientGoes([cli EXCEPT !.transcript = t, !.pc = "verify12"])
    <3>1. Quiet /\ cli'.pc = "verify12"
      BY <1>0, <2>3 DEF ClientGoes, KeepsName
    <3> QED
      BY <1>2, <3>1 DEF Places12
  <2> QED
    BY <1>1, <2>1, <2>2, <2>3
<1>6. CASE VerifyServerCertificate12
  <2>1. \/ FailClient("refused")
        \/ \E v : ClientGoes([cli EXCEPT !.verified = v, !.pc = "readKeyExchange12"])
    BY <1>6, Zenon DEF VerifyServerCertificate12, ClientChecks
  <2>2. ASSUME NEW v, ClientGoes([cli EXCEPT !.verified = v, !.pc = "readKeyExchange12"])
        PROVE  NameInv'
    <3>1. Quiet /\ cli'.pc = "readKeyExchange12"
      BY <1>0, <2>2 DEF ClientGoes, KeepsName
    <3> QED
      BY <1>2, <3>1 DEF Places12
  <2> QED
    BY <1>1, <2>1, <2>2
<1>7. CASE ReadServerKeyExchange12
  <2>1. \/ FailClient("refused")
        \/ ClientGoes([cli EXCEPT !.pc = "readRequest12"])
        \/ ClientGoes([cli EXCEPT !.curve = FromServer.curve, !.transcript = t,
                                  !.pc = "readRequest12"])
    BY <1>7 DEF ReadServerKeyExchange12, ClientChecks, t
  <2>2. CASE ClientGoes([cli EXCEPT !.pc = "readRequest12"])
    <3>1. Quiet /\ cli'.pc = "readRequest12"
      BY <1>0, <2>2 DEF ClientGoes, KeepsName
    <3> QED
      BY <1>2, <3>1 DEF Places12
  <2>3. CASE ClientGoes([cli EXCEPT !.curve = FromServer.curve, !.transcript = t,
                                    !.pc = "readRequest12"])
    <3>1. Quiet /\ cli'.pc = "readRequest12"
      BY <1>0, <2>3 DEF ClientGoes, KeepsName
    <3> QED
      BY <1>2, <3>1 DEF Places12
  <2> QED
    BY <1>1, <2>1, <2>2, <2>3
<1>8. CASE ReadCertificateRequest12
  <2>1. \/ ClientGoes([cli EXCEPT !.pc = "readHelloDone12"])
        \/ ClientGoes([cli EXCEPT !.certReq = FromServer, !.transcript = t,
                                  !.pc = "readHelloDone12"])
    BY <1>8 DEF ReadCertificateRequest12, t
  <2>2. CASE ClientGoes([cli EXCEPT !.pc = "readHelloDone12"])
    <3>1. Quiet /\ cli'.pc = "readHelloDone12"
      BY <1>0, <2>2 DEF ClientGoes, KeepsName
    <3> QED
      BY <1>2, <3>1 DEF Places12
  <2>3. CASE ClientGoes([cli EXCEPT !.certReq = FromServer, !.transcript = t,
                                    !.pc = "readHelloDone12"])
    <3>1. Quiet /\ cli'.pc = "readHelloDone12"
      BY <1>0, <2>3 DEF ClientGoes, KeepsName
    <3> QED
      BY <1>2, <3>1 DEF Places12
  <2> QED
    BY <2>1, <2>2, <2>3
<1>9. CASE readSessionTicket
  <2>1. \/ FailClient("refused")
        \/ ClientGoes([cli EXCEPT !.pc = "readFinished12"])
        \/ ClientGoes([cli EXCEPT !.ticket = FromServer.ticket, !.transcript = t,
                                  !.pc = "readFinished12"])
    BY <1>9, Zenon DEF readSessionTicket, ClientReads, ClientHasMessage, ClientChecks, t
  <2>2. CASE ClientGoes([cli EXCEPT !.pc = "readFinished12"])
    <3>1. Quiet /\ cli'.pc = "readFinished12"
      BY <1>0, <2>2 DEF ClientGoes, KeepsName
    <3> QED
      BY <1>2, <3>1 DEF Places12
  <2>3. CASE ClientGoes([cli EXCEPT !.ticket = FromServer.ticket, !.transcript = t,
                                    !.pc = "readFinished12"])
    <3>1. Quiet /\ cli'.pc = "readFinished12"
      BY <1>0, <2>3 DEF ClientGoes, KeepsName
    <3> QED
      BY <1>2, <3>1 DEF Places12
  <2> QED
    BY <1>1, <2>1, <2>2, <2>3
<1> QED
  BY <1>3, <1>4, <1>5, <1>6, <1>7, <1>8, <1>9

LEMMA ReadServerHelloDone12Names ==
  ASSUME ClientInv, TicketInv, LinkInv, NameInv, srv' = srv, ReadServerHelloDone12
  PROVE  NameInv'
<1> DEFINE req == cli.certReq
           cert == IF req = None THEN None
                   ELSE getClientCertificate(cli.conf, cli.vers, requestedSchemes(req), req.cas)
           exchange == IF "ECDHE" \in Flags(cli.suite) THEN cli.curve ELSE "RSA"
           afterDone == Append(cli.transcript, FromServer)
           shown == IF req = None THEN <<>> ELSE <<Certificate(cert)>>
           key == <<ClientKeyExchange(exchange)>>
           first == shown \o key
           secret == masterSecret(cli.sh.ems, exchange, afterDone \o first)
           alg == CASE cert = None -> None
                    [] cert # None /\ cli.vers >= TLS12 ->
                         selectSignatureScheme(cli.vers, cert, req.algs)
                    [] OTHER -> legacySigType(cert.key)
           sig == CertificateVerify(Signature(cert, alg, afterDone \o first))
           verify == IF cert = None THEN <<>> ELSE <<sig>>
           signed == transcriptMsg(afterDone \o first, verify)
           finished == Finished(secret, "client", signed)
           seen == transcriptMsg(signed, <<finished>>)
<1>0. DOMAIN cli = ClientFields /\ ClientTakes /\ cli.pc = "readHelloDone12"
  BY DEF ClientInv, Configured, ReadServerHelloDone12, ClientReads, ClientHasMessage, ClientTakes
<1>1. \/ FailClient("refused")
      \/ /\ cli' = [cli EXCEPT !.secret = secret, !.ems = cli.sh.ems, !.transcript = seen,
                               !.pc = "readTicket12"]
         /\ toServer' = toServer \o first \o verify \o <<finished>>
  BY Zenon DEF ReadServerHelloDone12
<1>2. CASE FailClient("refused")
  BY <1>0, <1>2, FailClientNames
<1>3. /\ shown = <<>> \/ shown = <<Certificate(cert)>>
      /\ verify = <<>> \/ verify = <<sig>>
      /\ finished.type = "finished" /\ sig.type = "certificateVerify"
      /\ Certificate(cert).type = "certificate"
      /\ ClientKeyExchange(exchange).type = "clientKeyExchange"
  <2> HIDE DEF cert, exchange, secret, alg, first, signed
  <2> QED
    BY DEF Finished, CertificateVerify, Certificate, ClientKeyExchange
<1> DEFINE c == Certificate(cert)
           k == ClientKeyExchange(exchange)
<1> HIDE DEF cert, exchange, sig, finished, secret, shown, verify, c, k
<1>4. /\ IsSequence(shown) /\ Elements(shown) \subseteq {c}
      /\ IsSequence(verify) /\ Elements(verify) \subseteq {sig}
      /\ IsSequence(<<finished>>) /\ Elements(<<finished>>) = {finished}
      /\ IsSequence(key) /\ Elements(key) = {k}
  BY <1>3, QueueOne, QueueNone DEF IsSequence, c, k
<1> HIDE DEF key
<1>5. IsSequence(first) /\ Elements(first) \subseteq {c, k}
  BY <1>4, QueueConcat DEF IsSequence
<1> HIDE DEF first, signed, seen
<1>6. ASSUME cli' = [cli EXCEPT !.secret = secret, !.ems = cli.sh.ems, !.transcript = seen,
                                !.pc = "readTicket12"],
             toServer' = toServer \o first \o verify \o <<finished>>
      PROVE  NameInv'
  <2> DEFINE last == <<finished>>
             a == toServer \o first
             b == a \o verify
  <2>1. KeepsName /\ cli'.echRejected = cli.echRejected /\ cli'.pc = "readTicket12"
    BY <1>0, <1>6 DEF ClientFields, KeepsName
  <2>2. ClientNames'
    BY <1>0, <2>1, Client12Names DEF Places12
  <2>3. Elements(toServer') \subseteq Elements(toServer) \cup {c, k, sig, finished}
    <3>1. IsSequence(toServer)
      BY DEF TicketInv, Hellos, IsSequence
    <3>2. IsSequence(a) /\ Elements(a) \subseteq Elements(toServer) \cup {c, k}
      BY <1>5, <3>1, QueueConcat DEF IsSequence
    <3>3. toServer' = b \o last /\ IsSequence(last) /\ Elements(last) = {finished}
      BY <1>4, <1>6
    <3> HIDE DEF a, last
    <3>4. IsSequence(b) /\ Elements(b) \subseteq Elements(toServer) \cup {c, k, sig}
      BY <1>4, <3>2, QueueConcat DEF IsSequence
    <3> HIDE DEF b
    <3> QED
      BY <3>3, <3>4, QueueConcat DEF IsSequence
  <2>4. \A m \in {c, k, sig, finished} : m.type # "clientHello"
    BY <1>3 DEF c, k
  <2>5. NamedOut'
    BY <2>1, <2>3, <2>4, ServerNamesStill DEF NameInv, NamedOut, KeepsName
  <2>6. Elements(toClient') \subseteq Elements(toClient)
    BY <1>0, QueueTail DEF ClientTakes, TicketInv, Replies
  <2> QED
    BY <2>1, <2>2, <2>5, <2>6, ServerNamesStill DEF NameInv, NamedBack, KeepsName
<1> QED
  BY <1>1, <1>2, <1>6

LEMMA readFinishedNames ==
  ASSUME ClientInv, TicketInv, LinkInv, NameInv, srv' = srv, readFinished
  PROVE  NameInv'
<1> DEFINE seen == transcriptMsg(cli.transcript, <<FromServer>>)
           finished == Finished(cli.secret, "client", seen)
           t == IF cli.didResume THEN transcriptMsg(seen, <<finished>>) ELSE seen
<1>0. DOMAIN cli = ClientFields /\ ClientTakes /\ cli.pc = "readFinished12"
  BY DEF ClientInv, Configured, readFinished, ClientReads, ClientHasMessage, ClientTakes
<1>1. \/ FailClient("refused")
      \/ /\ cli' = [cli EXCEPT !.pc = "complete", !.transcript = t]
         /\ toServer' = IF cli.didResume THEN Append(toServer, finished) ELSE toServer
  BY Zenon DEF readFinished
<1>2. CASE FailClient("refused")
  BY <1>0, <1>2, FailClientNames
<1>3. ASSUME cli' = [cli EXCEPT !.pc = "complete", !.transcript = t],
             toServer' = IF cli.didResume THEN Append(toServer, finished) ELSE toServer
      PROVE  NameInv'
  <2>1. finished.type = "finished"
    BY DEF Finished
  <2> HIDE DEF t, finished
  <2>2. KeepsName /\ cli'.echRejected = cli.echRejected /\ cli'.pc = "complete"
    BY <1>0, <1>3 DEF ClientFields, KeepsName
  <2>3. ClientNames'
    BY <1>0, <2>2, Client12Names DEF Places12
  <2>4. CASE toServer' = toServer
    BY <1>0, <2>2, <2>3, <2>4, ClientQuietNames DEF KeepsName
  <2>5. CASE toServer' = Append(toServer, finished)
    <3>1. toServer' = toServer \o <<finished>>
      BY <2>5 DEF TicketInv, Hellos
    <3>2. IsSequence(<<finished>>) /\ Elements(<<finished>>) = {finished}
      BY QueueOne DEF IsSequence
    <3> QED
      BY <1>0, <2>1, <2>2, <2>3, <3>1, <3>2, ClientStepNames DEF KeepsName
  <2> QED
    BY <1>3, <2>4, <2>5
<1> QED
  BY <1>1, <1>2, <1>3

\* The hello of loadSession: a PSK in it is bound to the name.
LEMMA LoadedNames ==
  ASSUME NEW conf, NEW s
  PROVE  LET hello == loadSession(conf, makeClientHello(conf), s)
         IN  /\ DOMAIN hello = HelloFields /\ hello.serverName = ServerName
             /\ hello.ech = IF conf.ech = None THEN NoECH ELSE InnerECH
             /\ hello.psk # None => BoundInside(hello.binder)
<1> DEFINE made == makeClientHello(conf)
           with == [made EXCEPT !.ticketSupported = conf.ech = None,
                                !.pskDHE = Head(made.supportedVersions) = TLS13]
           offered == [with EXCEPT !.psk = s.ticket]
           b == Binder(s.secret, offered, <<>>)
           bound == [offered EXCEPT !.binder = b]
           legacy == [with EXCEPT !.sessionTicket = s.ticket]
           hello == loadSession(conf, made, s)
<1>1. /\ DOMAIN made = HelloFields /\ made.serverName = ServerName /\ made.psk = None
      /\ made.ech = IF conf.ech = None THEN NoECH ELSE InnerECH
  BY DEF makeClientHello, HelloFields
<1>2. hello = made \/ hello = with \/ hello = legacy \/ hello = bound
  <2> HIDE DEF made
  <2> QED
    BY DEF loadSession
<1> HIDE DEF made
<1>3. /\ DOMAIN with = HelloFields /\ with.serverName = ServerName /\ with.psk = None
      /\ with.ech = made.ech
  BY <1>1 DEF HelloFields
<1> HIDE DEF with
<1>4. /\ DOMAIN legacy = HelloFields /\ legacy.serverName = ServerName /\ legacy.psk = None
      /\ legacy.ech = made.ech
  BY <1>3 DEF HelloFields
<1>5. /\ DOMAIN offered = HelloFields /\ offered.serverName = ServerName
      /\ offered.ech = made.ech
  BY <1>3 DEF HelloFields
<1> HIDE DEF offered, legacy
<1>6. b.prefix = <<>> /\ b.over.serverName = ServerName
  BY <1>5 DEF Binder, HelloFields
<1> HIDE DEF b
<1>7. /\ DOMAIN bound = HelloFields /\ bound.serverName = ServerName
      /\ bound.ech = made.ech /\ bound.binder = b
  BY <1>5 DEF HelloFields
<1>8. BoundInside(bound.binder)
  BY <1>6, <1>7 DEF BoundInside
<1> HIDE DEF bound
<1>9. /\ DOMAIN hello = HelloFields /\ hello.serverName = ServerName
      /\ hello.ech = IF conf.ech = None THEN NoECH ELSE InnerECH
      /\ hello.psk # None => BoundInside(hello.binder)
  BY <1>1, <1>2, <1>3, <1>4, <1>7, <1>8
<1> QED
  BY <1>9 DEF made

LEMMA ClientStartNames ==
  ASSUME ClientInv, TicketInv, NameInv, srv' = srv, ClientStart
  PROVE  NameInv'
<1> DEFINE conf == cli.conf
           made == makeClientHello(conf)
           s == IF UsesTickets(conf) /\ SessionUsable(conf, made, cache) THEN cache ELSE None
           hello == loadSession(conf, made, s)
           outer == OuterHello(conf, hello, hello)
           sent == IF conf.ech = None THEN hello ELSE outer
           inner == IF conf.ech = None THEN None ELSE hello
<1>0. DOMAIN cli = ClientFields /\ ClientTakes /\ cli.pc = "start"
  BY DEF ClientInv, Configured, ClientStart, ClientTakes
<1>1. \/ FailClient("config")
      \/ /\ cli' = [cli EXCEPT !.pc = "readServerHello", !.session = s, !.hello = sent,
                               !.inner = inner, !.serverName = sent.serverName]
         /\ toServer' = Append(toServer, sent)
  BY DEF ClientStart
<1>2. /\ DOMAIN hello = HelloFields /\ hello.serverName = ServerName
      /\ hello.ech = IF conf.ech = None THEN NoECH ELSE InnerECH
      /\ hello.psk # None => BoundInside(hello.binder)
  <2> HIDE DEF s
  <2> QED
    BY LoadedNames
<1> HIDE DEF hello, s
<1>3. /\ outer.serverName = PublicName /\ outer.ech = [config |-> conf.ech, inner |-> hello]
      /\ outer.psk = hello.psk /\ outer.binder = hello.binder
  BY <1>2 DEF OuterHello, HelloFields
<1> HIDE DEF outer
<1>4. UsesECH => outer.ech # NoECH /\ outer.ech.config = conf.ech /\ outer.ech.inner = hello
  BY <1>3 DEF NoECH, UsesECH
<1>5. /\ Named(sent)
      /\ UsesECH => sent.ech # NoECH /\ inner.serverName = ServerName
      /\ sent.serverName = IF UsesECH THEN PublicName ELSE ServerName
  BY <1>2, <1>3, <1>4 DEF Named, UsesECH
<1> HIDE DEF sent, inner
<1>6. CASE FailClient("config")
  BY <1>0, <1>6, FailClientNames
<1>7. CASE /\ cli' = [cli EXCEPT !.pc = "readServerHello", !.session = s, !.hello = sent,
                                 !.inner = inner, !.serverName = sent.serverName]
           /\ toServer' = Append(toServer, sent)
  <2>1. /\ cli'.pc = "readServerHello" /\ cli'.hello = sent /\ cli'.inner = inner
        /\ cli'.serverName = sent.serverName /\ cli'.conf = cli.conf /\ cli'.err = cli.err
        /\ cli'.echAccepted = cli.echAccepted /\ cli'.echRejected = cli.echRejected
        /\ cli'.didHRR = cli.didHRR
    BY <1>0, <1>7 DEF ClientFields
  <2>2. UsesECH' = UsesECH /\ Named(cli.hello)'
    BY <1>5, <2>1 DEF Named, BoundInside, UsesECH
  <2>3. ClientNames'
    BY <1>0, <1>5, <2>1, <2>2 DEF NameInv, ClientNames, Greeting, Late13, Verified13
  <2>4. toServer' = toServer \o <<sent>>
    BY <1>7 DEF TicketInv, Hellos
  <2>5. IsSequence(<<sent>>) /\ Elements(<<sent>>) = {sent}
    BY QueueOne DEF IsSequence
  <2> QED
    BY <1>0, <1>5, <2>1, <2>3, <2>4, <2>5, ClientStepNames
<1> QED
  BY <1>1, <1>6, <1>7

\* The client's next-state relation.
LEMMA ClientNextNames ==
  ASSUME ClientInv, TicketInv, LinkInv, NameInv, srv' = srv, ClientNext
  PROVE  NameInv'
<1>1. CASE ClientReadsAlert
  <2>1. FailClient("alert") /\ ClientTakes
    BY <1>1 DEF ClientReadsAlert, ClientTakes
  <2> QED
    BY <2>1, FailClientNames
<1>2. CASE ClientStart \/ ClientReadServerHello
  BY <1>2, ClientStartNames, ClientReadServerHelloNames
<1>3. CASE ClientStep13
  BY <1>3, checkServerHelloOrHRRNames, processHelloRetryRequestNames, ReadSecondServerHelloNames,
     processServerHello13Names, Reads13ClientNames, sendClientCertificateNames,
     sendClientFinishedNames, handleNewSessionTicketNames
  DEF ClientStep13
<1>4. CASE ClientStep12
  BY <1>4, Quiet12Names, ReadServerHelloDone12Names, readFinishedNames DEF ClientStep12
<1> QED
  BY <1>1, <1>2, <1>3, <1>4 DEF ClientNext

-----------------------------------------------------------------------------
(* The environment, and the theorems *)

\* Two fresh ends.
LEMMA NamesInit == Init => NameInv
<1> SUFFICES ASSUME Init
             PROVE  NameInv
  OBVIOUS
<1> DEFINE c == CHOOSE c \in ClientConfigs : TRUE
           s == CHOOSE s \in ServerConfigs : TRUE
<1>1. /\ cli = [NewClient(c) EXCEPT !.pc = "idle"] /\ srv = [NewServer(s) EXCEPT !.pc = "idle"]
      /\ toServer = <<>> /\ toClient = <<>>
  BY DEF Init
<1> HIDE DEF c, s
<1>2. /\ cli.pc = "idle" /\ cli.echAccepted = FALSE /\ cli.echRejected = FALSE
      /\ cli.didHRR = FALSE /\ cli.err = None
      /\ srv.pc = "idle" /\ srv.ech = None /\ srv.vers = 0
  BY <1>1 DEF NewClient, NewServer
<1>3. Elements(toServer) = {}
  BY <1>1, QueueNone
<1>4. ClientNames
  BY <1>2, ClientAssumption DEF ClientNames, Greeting, Late13, Verified13
<1>5. srv.vers # TLS13
  BY <1>2 DEF TLS13
<1>6. ServerNames
  BY <1>2, <1>5 DEF ServerNames, Before13, Unnamed
<1> QED
  BY <1>3, <1>4, <1>5, <1>6 DEF NameInv, NamedOut, NamedBack

\* A new connection.
LEMMA OpenNames ==
  ASSUME NEW c, NEW s, Open(c, s)
  PROVE  NameInv'
<1>1. /\ cli'.pc = "start" /\ cli'.echAccepted = FALSE /\ cli'.echRejected = FALSE
      /\ cli'.didHRR = FALSE /\ cli'.err = None
      /\ srv'.pc = "readClientHello" /\ srv'.ech = None /\ srv'.vers = 0
      /\ toServer' = <<>>
  BY DEF Open, NewClient, NewServer
<1>2. Elements(toServer') = {}
  BY <1>1, QueueNone
<1>3. ClientNames'
  BY <1>1, ClientAssumption DEF ClientNames, Greeting, Late13, Verified13
<1>4. srv'.vers # TLS13
  BY <1>1 DEF TLS13
<1>5. ServerNames'
  BY <1>1, <1>4 DEF ServerNames, Before13, Unnamed
<1> QED
  BY <1>2, <1>3, <1>4, <1>5 DEF NameInv, NamedOut, NamedBack

\* Both ends stand still.
LEMMA BothStillNames ==
  ASSUME NameInv, UNCHANGED <<cli, srv>>,
         \A msg \in Elements(toServer') : msg.type = "clientHello" => Named(msg),
         \A msg \in Elements(toClient') : msg.type = "finished" => msg \in Elements(toClient)
  PROVE  NameInv'
<1>1. NamedOut'
  BY ServerNamesStill DEF NamedOut
<1>2. NamedBack'
  BY ServerNamesStill DEF NameInv, NamedBack
<1>3. ClientNames'
  <2>1. UsesECH' = UsesECH /\ Named(cli.hello)' = Named(cli.hello)
    BY DEF UsesECH, Named, BoundInside
  <2>2. /\ OuterFirst(cli.transcript)' = OuterFirst(cli.transcript)
        /\ InnerFirst(cli.innerTranscript)' = InnerFirst(cli.innerTranscript)
        /\ ShownPublic' = ShownPublic /\ Unopened' = Unopened
    BY DEF OuterFirst, InnerFirst, ShownPublic, Unopened
  <2> QED
    BY <2>1, <2>2 DEF NameInv, ClientNames
<1> QED
  BY <1>1, <1>2, <1>3, ServerNamesStill DEF NameInv

\* A middlebox changes neither the name nor a binder.
LEMMA RewrittenNames ==
  ASSUME NEW hello, Offers(hello), Named(hello), NEW other \in Rewrites(hello)
  PROVE  Named(other)
<1>1. \/ \E v : other = [hello EXCEPT !.supportedVersions = v]
      \/ other = [hello EXCEPT !.ech = NoECH]
      \/ other = [hello EXCEPT !.alpn = <<>>]
  BY DEF Rewrites
<1>2. /\ other.serverName = hello.serverName /\ other.psk = hello.psk
      /\ other.binder = hello.binder /\ other.ech \in {hello.ech, NoECH}
  BY <1>1 DEF Offers, HelloFields
<1> QED
  BY <1>2 DEF Named

LEMMA EnvironmentNames ==
  ASSUME TicketInv, NameInv, Environment
  PROVE  NameInv'
<1>1. CASE Connect
  BY <1>1, OpenNames DEF Connect
<1>2. CASE RetryWithConfigs
  BY <1>2, OpenNames DEF RetryWithConfigs
<1>3. CASE Tick \/ SetSessionTicketKeys
  BY <1>3, BothStillNames DEF Tick, SetSessionTicketKeys, NameInv, NamedOut
<1>4. CASE Break
  <2>1. UNCHANGED <<cli, srv>> /\ toServer' = <<Alert>> /\ toClient' = <<Alert>>
    BY <1>4 DEF Break
  <2>2. Elements(toServer') = {Alert} /\ Elements(toClient') = {Alert}
    BY <2>1, QueueOne
  <2>3. Alert.type # "clientHello" /\ Alert.type # "finished"
    BY DEF Alert
  <2> QED
    BY <2>1, <2>2, <2>3, BothStillNames
<1>5. CASE RewriteHello
  <2>1. /\ UNCHANGED <<cli, srv, toClient>>
        /\ toServer # <<>> /\ FromClient.type = "clientHello"
    BY <1>5 DEF RewriteHello
  <2> PICK hello \in Rewrites(FromClient) : toServer' = <<hello>> \o Tail(toServer)
    BY <1>5 DEF RewriteHello
  <2>2. /\ FromClient \in Elements(toServer) /\ IsSequence(Tail(toServer))
        /\ Elements(Tail(toServer)) \subseteq Elements(toServer)
    BY <2>1, QueueTail DEF TicketInv, Hellos, FromClient, IsSequence
  <2>3. Named(FromClient) /\ Offers(FromClient)
    BY <2>1, <2>2 DEF NameInv, NamedOut, TicketInv, Hellos, HelloOk
  <2>4. Named(hello)
    BY <2>3, RewrittenNames
  <2>5. IsSequence(<<hello>>) /\ Elements(<<hello>>) = {hello}
    BY QueueOne DEF IsSequence
  <2>6. Elements(toServer') \subseteq {hello} \cup Elements(toServer)
    BY <2>2, <2>5, QueueConcat DEF IsSequence
  <2> QED
    BY <2>1, <2>4, <2>6, BothStillNames DEF NameInv, NamedOut
<1> QED
  BY <1>1, <1>2, <1>3, <1>4, <1>5 DEF Environment

\* Every step keeps the invariant.
LEMMA NamesStep ==
  ASSUME ClientInv, TicketInv, LinkInv, NameInv, [Next]_vars
  PROVE  NameInv'
<1>1. CASE ClientMoves
  BY <1>1, ClientNextNames DEF ClientMoves
<1>2. CASE ServerMoves
  BY <1>2, ServerNextNames DEF ServerMoves
<1>3. CASE Environment
  BY <1>3, EnvironmentNames
<1>4. CASE UNCHANGED vars
  BY <1>4, BothStillNames DEF vars, NameInv, NamedOut
<1> QED
  BY <1>1, <1>2, <1>3, <1>4 DEF Next

\* In every reachable state: either end knows the other by the name that the
\* hello in use carries, and the client takes its inner hello for answered
\* exactly when the server has opened it.
THEOREM NameInvariant == Spec => []NameInv
<1>1. ClientInv /\ TicketInv /\ LinkInv /\ NameInv /\ [Next]_vars => NameInv'
  BY NamesStep
<1> QED
  BY <1>1, NamesInit, ClientInvariant, TicketInvariant, LinkInvariant, PTL DEF Spec

\* Under Encrypted Client Hello the name of the server never travels in the
\* clear, a handshake completes only when the inner hello was answered, and an
\* ECHRejectionError comes only from a server without the key that has proved to
\* be the public name (clientHandshake, computeAndUpdateOuterECHExtension,
\* processECHClientHello and the end of handshake_client_tls13.go's handshake).
THEOREM HelloIsEncrypted == Spec => []EncryptedHello
<1>1. NameInv => EncryptedHello
  <2> SUFFICES ASSUME NameInv, cli.conf.ech # None
               PROVE  EncryptedHello
    BY DEF EncryptedHello
  <2>1. UsesECH
    BY DEF UsesECH
  <2>2. ASSUME NEW i \in DOMAIN toServer, toServer[i].type = "clientHello"
        PROVE  toServer[i].serverName = PublicName
    <3>1. toServer[i] \in Elements(toServer)
      BY DEF Elements
    <3> QED
      BY <2>1, <2>2, <3>1 DEF NameInv, NamedOut, Named
  <2>3. cli.pc = "complete" => cli.echAccepted /\ cli.serverName = ServerName
    BY <2>1 DEF NameInv, ClientNames
  <2>4. cli.echAccepted => cli.conf.ech \in srv.conf.echKeys
    BY DEF NameInv, ClientNames, ServerNames
  <2>5. cli.err = "ech" => /\ ~cli.didResume
                           /\ PublicName \in cli.cert.names
                           /\ cli.cert.issuer \in cli.conf.roots
                           /\ cli.conf.ech \notin srv.conf.echKeys
    BY <2>1 DEF NameInv, ClientNames, Unopened, ShownPublic
  <2> QED
    BY <2>2, <2>3, <2>4, <2>5 DEF EncryptedHello
<1> QED
  BY <1>1, NameInvariant, PTL

\* Two ends that have completed agree on everything that was negotiated, on the
\* name, on whether it was a resumption, on the certificate shown and on every
\* message, whatever the Configs, the sessions, the retries and the rewritten
\* hellos on the way (readServerFinished, readClientFinished and readFinished of
\* either side).
THEOREM EndsAgree == Spec => []Agreement
<1>1. LinkInv /\ NameInv => Agreement
  <2> SUFFICES ASSUME LinkInv, NameInv, cli.pc = "complete", srv.pc = "complete"
               PROVE  Agreement
    BY DEF Agreement
  <2>1. /\ cli.vers = srv.vers /\ Told(cli.sh) /\ ~Halted
        /\ cli.vers = TLS13 => Follows13
        /\ cli.vers # TLS13 => Follows12
    BY DEF LinkInv, Follows, Informed, Behind13, Behind12, Halted
  <2>2. ~cli.sh.hrr /\ Said(cli.sh) /\ cli.suite = cli.sh.suite
    BY <2>1 DEF Told, Follows13, Follows12
  <2>3. cli.serverName = srv.serverName
    <3>1. srv.serverName = Addressed
      BY DEF NameInv, ServerNames, Unnamed
    <3>2. /\ cli.serverName = IF UsesECH /\ ~cli.echAccepted THEN PublicName ELSE ServerName
          /\ UsesECH => cli.echAccepted /\ srv.ech # None
      BY DEF NameInv, ClientNames
    <3> QED
      BY <3>1, <3>2 DEF Addressed
  <2>4. CASE cli.vers = TLS13
    <3>1. /\ cli.curve = srv.curve /\ cli.alpn = srv.alpn /\ cli.ems = srv.ems
          /\ cli.didResume = srv.didResume /\ (~cli.didResume => cli.cert = srv.cert)
      BY <2>1, <2>2, <2>4 DEF Said, Follows13, LinkInv, Stands
    <3>2. cli.transcript = srv.transcript
      BY <2>1, <2>4 DEF LinkInv, Stands
    <3> QED
      BY <2>1, <2>2, <2>3, <3>1, <3>2 DEF Agreement, Said
  <2>5. CASE cli.vers # TLS13
    <3>1. cli.alpn = srv.alpn /\ cli.didResume = srv.didResume /\ cli.sh.ems = srv.sh.ems
      BY <2>1, <2>2, <2>5 DEF Said, Follows12
    <3>2. CASE cli.didResume
      <4>1. srv.didResume /\ srv.vers # TLS13
        BY <2>1, <2>5, <3>1, <3>2
      <4>2. /\ cli.session # None /\ srv.session = cli.session.ticket.state
            /\ srv.curve = srv.session.curve /\ srv.ems = srv.session.ems
            /\ cli.transcript = srv.transcript
        BY <4>1 DEF LinkInv, Stands
      <4>3. cli.curve = cli.session.curve /\ cli.ems = cli.session.ems
        BY <2>1, <2>5, <3>2 DEF Follows12
      <4>4. cli.curve = srv.curve /\ cli.ems = srv.ems
        BY <4>2, <4>3 DEF LinkInv, Matched, Matches
      <4> QED
        BY <2>1, <2>2, <2>3, <3>1, <3>2, <4>2, <4>4 DEF Agreement, Said
    <3>3. CASE ~cli.didResume
      <4>1. ~srv.didResume /\ srv.vers # TLS13
        BY <2>1, <2>5, <3>1, <3>3
      <4>2. srv.ems = srv.sh.ems
        BY <4>1 DEF LinkInv, Stands
      <4>3. /\ cli.ems = cli.sh.ems /\ cli.curve = srv.curve /\ cli.cert = srv.cert
            /\ cli.transcript = srv.transcript
        BY <2>1, <2>5, <3>3 DEF Follows12
      <4> QED
        BY <2>1, <2>2, <2>3, <3>1, <4>2, <4>3 DEF Agreement, Said
    <3> QED
      BY <3>2, <3>3
  <2> QED
    BY <2>4, <2>5
<1> QED
  BY <1>1, LinkInvariant, NameInvariant, PTL
=============================================================================
