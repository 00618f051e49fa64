--------------------------- MODULE TicketProofs ---------------------------
(***************************************************************************)
(* Proofs about Handshake, continued: which version a client goes on with, *)
(* what the tickets carry that go from the server to the client's cache    *)
(* and back, and which client a server completes with.                     *)
(***************************************************************************)
EXTENDS HandshakeProofs

-----------------------------------------------------------------------------
(* Versions *)

\* A version that a Config allows.
Speaks(c, isClient, v) == v \in Elements(SupportedVersions) /\ keepsVersion(c, isClient, v)

\* There are four versions.
LEMMA FourVersions == Elements(SupportedVersions) = 10..13
<1>1. DOMAIN SupportedVersions = 1..4
  BY DEF SupportedVersions
<1>2. Elements(SupportedVersions) = {SupportedVersions[1], SupportedVersions[2],
                                     SupportedVersions[3], SupportedVersions[4]}
  BY <1>1 DEF Elements
<1> QED
  BY <1>2 DEF SupportedVersions, TLS10, TLS11, TLS12, TLS13

\* A list of at most n versions, each above v, in descending order.
Descends(q, n, v) ==
  /\ q \in Seq(10..13) /\ Len(q) <= n
  /\ \A i, j \in 1..Len(q) : i < j => q[i] > q[j]
  /\ \A i \in 1..Len(q) : q[i] > v

\* A lower version behind such a list, or nothing.
LEMMA OneMore ==
  ASSUME NEW v \in 10..13, NEW S, NEW n \in Nat, NEW q, Descends(q, n, v)
  PROVE  LET r == q \o (IF v \in S THEN <<v>> ELSE <<>>)
         IN  Descends(r, n + 1, v - 1) /\ Elements(r) = Elements(q) \cup (S \cap {v})
<1> DEFINE T == 10..13
           r == q \o <<v>>
<1>1. q \in Seq(T) /\ Len(q) \in Nat /\ DOMAIN q = 1..Len(q)
  BY DEF Descends
<1>2. CASE v \in S
  <2>1. v \in T
    OBVIOUS
  <2> HIDE DEF T
  <2>2. /\ r \in Seq(T) /\ Len(r) = Len(q) + 1 /\ r[Len(q) + 1] = v
        /\ \A i \in 1..Len(q) : r[i] = q[i]
    BY <1>1, <2>1
  <2> HIDE DEF r
  <2>3. \A i \in 1..Len(r) : i \in 1..Len(q) \/ i = Len(q) + 1
    BY <1>1, <2>2
  <2>4. Descends(r, n + 1, v - 1)
    <3>1. \A i \in 1..Len(q) : q[i] \in T
      BY <1>1
    <3>2. \A i \in 1..Len(r) : r[i] > v - 1
      BY <2>2, <2>3, <3>1 DEF Descends, T
    <3>3. ASSUME NEW i \in 1..Len(r), NEW j \in 1..Len(r), i < j
          PROVE  r[i] > r[j]
      BY <1>1, <2>2, <2>3, <3>1, <3>3 DEF Descends, T
    <3> QED
      BY <1>1, <2>2, <3>2, <3>3 DEF Descends, T
  <2>5. Elements(r) = Elements(q) \cup {v}
    <3>1. DOMAIN r = 1..Len(r) /\ Len(q) + 1 \in 1..Len(r) /\ \A i \in 1..Len(q) : i \in 1..Len(r)
      BY <1>1, <2>2
    <3>2. Elements(r) \subseteq Elements(q) \cup {v}
      BY <1>1, <2>2, <2>3, <3>1 DEF Elements
    <3>3. Elements(q) \cup {v} \subseteq Elements(r)
      BY <1>1, <2>2, <3>1 DEF Elements
    <3> QED
      BY <3>2, <3>3
  <2> QED
    BY <1>2, <2>4, <2>5 DEF r
<1>3. CASE v \notin S
  <2>1. q \o <<>> = q
    BY <1>1
  <2>2. Descends(q, n + 1, v - 1)
    <3>1. \A i \in 1..Len(q) : q[i] \in T
      BY <1>1
    <3> QED
      BY <1>1, <3>1 DEF Descends
  <2> QED
    BY <1>3, <2>1, <2>2
<1> QED
  BY <1>2, <1>3

\* The loop of supportedVersions keeps what it should, the highest first.
LEMMA VersionsDescend ==
  ASSUME NEW S
  PROVE  /\ Descends(VersionsIn(S), 4, 9)
         /\ Elements(VersionsIn(S)) = S \cap 10..13
<1> DEFINE one(v) == IF v \in S THEN <<v>> ELSE <<>>
           e == <<>>
           a == e \o one(13)
           b == a \o one(12)
           c == b \o one(11)
           d == c \o one(10)
<1>0. Descends(e, 0, 13) /\ Elements(e) = {}
  BY DEF Descends, Elements
<1> HIDE DEF e
<1>1. Descends(a, 1, 12) /\ Elements(a) = S \cap {13}
  BY <1>0, OneMore
<1> HIDE DEF a
<1>2. Descends(b, 2, 11) /\ Elements(b) = S \cap {12, 13}
  BY <1>1, OneMore
<1> HIDE DEF b
<1>3. Descends(c, 3, 10) /\ Elements(c) = S \cap {11, 12, 13}
  BY <1>2, OneMore
<1> HIDE DEF c
<1>4. Descends(d, 4, 9) /\ Elements(d) = S \cap {10, 11, 12, 13}
  BY <1>3, OneMore
<1>5. VersionsIn(S) = d
  <2>1. a = one(13)
    BY DEF a, e
  <2> QED
    BY <2>1 DEF b, c, VersionsIn, TLS10, TLS11, TLS12, TLS13
<1>6. 10..13 = {10, 11, 12, 13}
  OBVIOUS
<1> QED
  BY <1>4, <1>5, <1>6
\* What such a list offers a Config that speaks some of it: the highest version
\* they share.
LEMMA MutualVersion ==
  ASSUME NEW c, NEW isClient \in BOOLEAN, NEW q, Descends(q, 4, 9)
  PROVE  LET x == mutualVersion(c, isClient, q)
         IN  /\ (\E v \in Elements(q) : Speaks(c, isClient, v)) =>
                  /\ x \in Elements(q) /\ Speaks(c, isClient, x)
                  /\ \A v \in Elements(q) : Speaks(c, isClient, v) => v <= x
             /\ (~\E v \in Elements(q) : Speaks(c, isClient, v)) => x = None
<1> DEFINE hits == {i \in DOMAIN q : Speaks(c, isClient, q[i])}
           k == CHOOSE i \in hits : \A j \in hits : i <= j
           x == mutualVersion(c, isClient, q)
<1>1. x = IF hits = {} THEN None ELSE q[k]
  BY DEF mutualVersion, First, Speaks
<1>2. DOMAIN q = 1..Len(q) /\ Len(q) \in 0..4 /\ \A i \in DOMAIN q : q[i] \in 10..13
  <2>1. q \in Seq(10..13) /\ Len(q) <= 4
    BY DEF Descends
  <2>2. DOMAIN q = 1..Len(q) /\ Len(q) \in Nat
    BY <2>1
  <2>3. \A i \in 1..Len(q) : q[i] \in 10..13
    BY <2>1
  <2> QED
    BY <2>1, <2>2, <2>3
<1>3. CASE hits = {}
  BY <1>1, <1>3 DEF Elements
<1>4. CASE hits # {}
  <2>1. \E i \in hits : \A j \in hits : i <= j
    <3>1. hits \subseteq {1, 2, 3, 4}
      BY <1>2
    <3> HIDE DEF hits
    <3>2. CASE 1 \in hits
      <4>1. \A j \in hits : 1 <= j
        BY <3>1
      <4> QED
        BY <3>2, <4>1
    <3>3. CASE 1 \notin hits /\ 2 \in hits
      <4>1. \A j \in hits : 2 <= j
        BY <3>1, <3>3
      <4> QED
        BY <3>3, <4>1
    <3>4. CASE 1 \notin hits /\ 2 \notin hits /\ 3 \in hits
      <4>1. \A j \in hits : 3 <= j
        BY <3>1, <3>4
      <4> QED
        BY <3>4, <4>1
    <3>5. CASE 1 \notin hits /\ 2 \notin hits /\ 3 \notin hits
      <4>1. \A j \in hits : j = 4
        BY <3>1, <3>5
      <4> QED
        BY <1>4, <4>1
    <3> QED
      BY <3>2, <3>3, <3>4, <3>5
  <2>2. k \in hits /\ \A j \in hits : k <= j
    BY <2>1
  <2> HIDE DEF k
  <2>3. x = q[k] /\ k \in DOMAIN q /\ Speaks(c, isClient, q[k])
    BY <1>1, <1>4, <2>2
  <2>4. ASSUME NEW v \in Elements(q), Speaks(c, isClient, v)
        PROVE  v <= x
    <3> PICK j \in DOMAIN q : v = q[j]
      BY DEF Elements
    <3>1. j \in hits
      BY <2>4
    <3> QED
      BY <1>2, <2>2, <2>3, <3>1 DEF Descends
  <2>5. x \in Elements(q) /\ Speaks(c, isClient, x)
    BY <2>3 DEF Elements
  <2> HIDE DEF x
  <2> QED
    BY <2>4, <2>5 DEF x
<1> QED
  BY <1>3, <1>4

\* The versions of a Config.
LEMMA Supported ==
  ASSUME NEW c, NEW isClient \in BOOLEAN
  PROVE  /\ Descends(supportedVersions(c, isClient), 4, 9)
         /\ Elements(supportedVersions(c, isClient)) = {v \in 10..13 : Speaks(c, isClient, v)}
<1> DEFINE S == {v \in Elements(SupportedVersions) : keepsVersion(c, isClient, v)}
<1>1. S \cap 10..13 = {v \in 10..13 : Speaks(c, isClient, v)}
  BY FourVersions DEF Speaks
<1> HIDE DEF S
<1>2. supportedVersions(c, isClient) = VersionsIn(S)
  BY DEF supportedVersions, S
<1> QED
  BY <1>1, <1>2, VersionsDescend

\* The best of them.
LEMMA MaxSupported ==
  ASSUME NEW c, NEW isClient \in BOOLEAN, NEW v, Speaks(c, isClient, v)
  PROVE  LET max == maxSupportedVersion(c, isClient)
         IN  max \in 10..13 /\ v \in 10..13 /\ v <= max
<1> DEFINE q == supportedVersions(c, isClient)
<1>1. Descends(q, 4, 9) /\ v \in Elements(q) /\ v \in 10..13
  BY Supported, FourVersions DEF Speaks
<1>2. maxSupportedVersion(c, isClient) = IF q = <<>> THEN 0 ELSE Head(q)
  BY DEF maxSupportedVersion
<1> HIDE DEF q
<1> PICK i \in DOMAIN q : v = q[i]
  BY <1>1 DEF Elements
<1>3. q \in Seq(10..13) /\ Len(q) \in Nat /\ i \in 1..Len(q)
  BY <1>1 DEF Descends
<1>4. q # <<>> /\ Head(q) = q[1] /\ 1 \in 1..Len(q)
  BY <1>3
<1>5. q[1] \in 10..13 /\ v <= q[1]
  BY <1>1, <1>3, <1>4 DEF Descends
<1> QED
  BY <1>1, <1>2, <1>4, <1>5

\* The best version that a client and a server share.
LEMMA BestOfBoth ==
  ASSUME NEW c, NEW s, NEW x, Speaks(c, TRUE, x), Speaks(s, FALSE, x),
         \A v \in 10..13 : Speaks(c, TRUE, v) /\ Speaks(s, FALSE, v) => v <= x
  PROVE  x = BestVersion(c, s)
<1> DEFINE q == supportedVersions(c, TRUE)
           y == mutualVersion(s, FALSE, q)
<1>1. Descends(q, 4, 9) /\ Elements(q) = {v \in 10..13 : Speaks(c, TRUE, v)}
  BY Supported
<1>2. y = BestVersion(c, s)
  BY DEF BestVersion
<1>3. x \in 10..13 /\ x \in Elements(q)
  BY <1>1, FourVersions DEF Speaks
<1> HIDE DEF q
<1>4. y \in Elements(q) /\ Speaks(s, FALSE, y) /\ x <= y
  BY <1>1, <1>3, MutualVersion
<1> HIDE DEF y
<1>5. y \in 10..13 /\ y <= x
  BY <1>1, <1>4
<1> QED
  BY <1>2, <1>3, <1>4, <1>5
\* A hello lists every version of its client, but for one that a middlebox
\* takes away.
Lists(c, hello) ==
  \E T \in SUBSET (10..13) :
    /\ hello.supportedVersions = VersionsIn(T)
    /\ \A v \in 10..13 : Speaks(c, TRUE, v) => v \in T \cup {TLS13}

\* A version that a server answers such a hello with: what it gave up, if
\* anything, is TLS 1.3.
Answer(c, s, v) ==
  /\ Speaks(s, FALSE, v)
  /\ \A w \in 10..13 : Speaks(c, TRUE, w) /\ Speaks(s, FALSE, w) => w <= v \/ w = TLS13

\* A ServerHello with such a version, marked if it is below the server's best.
Marked(c, s, sh) ==
  LET v == IF sh.supportedVersion # 0 THEN sh.supportedVersion ELSE sh.vers
  IN  /\ Answer(c, s, v)
      /\ v # TLS13 => sh.canary = downgradeCanary(s, v)

\* A list of one.
LEMMA OneVersion ==
  ASSUME NEW c, NEW isClient \in BOOLEAN, NEW v, mutualVersion(c, isClient, <<v>>) # None
  PROVE  mutualVersion(c, isClient, <<v>>) = v /\ Speaks(c, isClient, v)
<1> DEFINE q == <<v>>
           hits == {i \in DOMAIN q : Speaks(c, isClient, q[i])}
           k == CHOOSE i \in hits : \A j \in hits : i <= j
<1>1. mutualVersion(c, isClient, q) = IF hits = {} THEN None ELSE q[k]
  BY DEF mutualVersion, First, Speaks
<1>2. DOMAIN q = {1} /\ q[1] = v
  OBVIOUS
<1>3. hits = {1}
  BY <1>1, <1>2
<1>4. k = 1
  <2>1. k = CHOOSE i \in {1} : \A j \in {1} : i <= j
    BY <1>3
  <2> QED
    BY <2>1
<1>5. 1 \in hits
  BY <1>3
<1> QED
  BY <1>1, <1>2, <1>4, <1>5

\* readClientHello chooses such a version.
LEMMA AnswerChosen ==
  ASSUME NEW c, NEW s, NEW hello, Lists(c, hello),
         mutualVersion(s, FALSE, helloVersions(hello)) # None
  PROVE  Answer(c, s, mutualVersion(s, FALSE, helloVersions(hello)))
<1> DEFINE q == helloVersions(hello)
           x == mutualVersion(s, FALSE, q)
<1> PICK T \in SUBSET (10..13) :
           /\ hello.supportedVersions = VersionsIn(T)
           /\ \A v \in 10..13 : Speaks(c, TRUE, v) => v \in T \cup {TLS13}
  BY DEF Lists
<1>1. Descends(VersionsIn(T), 4, 9) /\ Elements(VersionsIn(T)) = T \cap 10..13
  BY VersionsDescend
<1>2. Descends(q, 4, 9)
  BY VersionsDescend, Zenon DEF helloVersions, supportedVersionsFromMax
<1>3. hello.supportedVersions # <<>> => q = VersionsIn(T)
  BY DEF helloVersions
<1>0. x # None
  OBVIOUS
<1> HIDE DEF q
<1>4. /\ Speaks(s, FALSE, x)
      /\ \A v \in Elements(q) : Speaks(s, FALSE, v) => v <= x
  BY <1>0, <1>2, MutualVersion
<1> HIDE DEF x
<1>5. ASSUME NEW w \in 10..13, Speaks(c, TRUE, w), Speaks(s, FALSE, w), w # TLS13
      PROVE  w <= x
  <2>1. w \in T \cap 10..13
    BY <1>5
  <2>2. Elements(<<>>) = {}
    BY DEF Elements
  <2>3. hello.supportedVersions # <<>>
    BY <1>1, <2>1, <2>2
  <2> QED
    BY <1>1, <1>3, <1>4, <1>5, <2>1, <2>3
<1> QED
  BY <1>4, <1>5 DEF Answer, x, q

\* A client that goes on after a marked ServerHello has the best version.
LEMMA NotTalkedDown ==
  ASSUME NEW s, NEW sh, Marked(cli.conf, s, sh), pickTLSVersion(sh) # None,
         ~downgradeDetected(pickTLSVersion(sh), sh.canary)
  PROVE  pickTLSVersion(sh) = BestVersion(cli.conf, s)
<1> DEFINE c == cli.conf
           x == IF sh.supportedVersion # 0 THEN sh.supportedVersion ELSE sh.vers
<1>1. pickTLSVersion(sh) = x /\ Speaks(c, TRUE, x)
  BY OneVersion DEF pickTLSVersion
<1>2. Answer(c, s, x) /\ (x # TLS13 => sh.canary = downgradeCanary(s, x))
  BY DEF Marked
<1> HIDE DEF x
<1>3. x \in 10..13
  BY <1>1, FourVersions DEF Speaks
<1>4. ASSUME NEW w \in 10..13, Speaks(c, TRUE, w), Speaks(s, FALSE, w)
      PROVE  w <= x
  <2>1. w <= x \/ w = 13
    BY <1>2, <1>4 DEF Answer, TLS13
  <2>2. ASSUME w = 13, x < 13
        PROVE  FALSE
    <3> DEFINE m == maxSupportedVersion(c, TRUE)
               n == maxSupportedVersion(s, FALSE)
               canary == CASE n >= TLS12 /\ x < n /\ x = TLS12 -> "TLS12"
                           [] n >= TLS12 /\ x < n /\ x # TLS12 -> "TLS11"
                           [] OTHER -> ""
    <3>1. m \in 10..13 /\ 13 <= m /\ n \in 10..13 /\ 13 <= n
      BY <1>4, <2>2, MaxSupported
    <3>2. x \in 10..12
      BY <1>3, <2>2
    <3>3. x # TLS13
      BY <3>2 DEF TLS13
    <3>4. sh.canary = canary
      BY <1>2, <3>3, Zenon DEF downgradeCanary
    <3>5. ~(m = TLS13 /\ x <= TLS12 /\ sh.canary \in {"TLS12", "TLS11"})
      BY <1>1, Zenon DEF downgradeDetected
    <3> HIDE DEF m, n
    <3>6. sh.canary \in {"TLS12", "TLS11"}
      <4>1. n = 13
        BY <3>1
      <4>2. CASE x = 12
        BY <3>4, <4>1, <4>2 DEF TLS12
      <4>3. CASE x # 12
        <5>1. n >= TLS12 /\ x < n /\ x # TLS12
          BY <3>2, <4>1, <4>3 DEF TLS12
        <5>2. canary = "TLS11"
          BY <5>1
        <5> QED
          BY <3>4, <5>2
      <4> QED
        BY <4>2, <4>3
    <3> QED
      BY <3>1, <3>2, <3>5, <3>6 DEF TLS12, TLS13
  <2> QED
    BY <1>3, <2>1, <2>2
<1> QED
  BY <1>1, <1>2, <1>4, BestOfBoth DEF Answer

-----------------------------------------------------------------------------
(* The invariant *)

ServerFields ==
  {"pc", "conf", "hello", "sh", "vers", "suite", "curve", "cert", "alpn", "ems", "peer",
   "verified", "session", "didResume", "didHRR", "ech", "outer", "sigAlg", "transcript",
   "secret", "keys", "serverName"}

ServerHelloFields ==
  {"type", "vers", "supportedVersion", "hrr", "canary", "sessionIdEcho", "suite", "ems", "alpn",
   "ticketSupported", "ocspStapling", "selectedGroup", "serverShare", "psk", "echAccept"}

\* A client certificate that a server verified was issued by a CA that some
\* server trusts.
Seen(peer, verified) ==
  peer # None /\ verified => \E s \in ServerConfigs : peer.issuer \in s.clientCAs

\* A ticket holds what its server had seen.
Sealed(ticket) == ticket # None => Seen(ticket.state.peer, ticket.state.verified)

HasTickets(hello) == Sealed(hello.sessionTicket) /\ Sealed(hello.psk)

Fits(hello) == HasTickets(hello) /\ Lists(cli.conf, hello)

Offers(hello) ==
  /\ DOMAIN hello = HelloFields
  /\ Fits(hello)
  /\ hello.ech \notin {NoECH, InnerECH} => Fits(hello.ech.inner)

HelloOk(msg) == msg.type = "clientHello" => Offers(msg)

ReplyOk(msg) ==
  /\ msg.type = "newSessionTicket" => Sealed(msg.ticket)
  /\ msg.type = "serverHello" => Marked(cli.conf, srv.conf, msg)

\* Queues are sequences, and carry such hellos and such replies.
Hellos(queue) ==
  queue \in Seq(Elements(queue)) /\ \A msg \in Elements(queue) : HelloOk(msg)

Replies(queue) ==
  queue \in Seq(Elements(queue)) /\ \A msg \in Elements(queue) : ReplyOk(msg)

\* The places of a client that may still send a hello.
Greeting == {"readServerHello", "check13", "retry13", "readSecondServerHello"}

\* The places of a client that has chosen a version.
Beyond(pc) == pc \notin {"idle", "start", "readServerHello", "failed"}

\* What a client keeps of the server's tickets, and of its own hellos.
Kept ==
  /\ cache # None => Sealed(cache.ticket)
  /\ Sealed(cli.ticket)
  /\ cli.pc \in Greeting => Offers(cli.hello) /\ (UsesECH => Fits(cli.inner))
  /\ Beyond(cli.pc) => cli.vers = BestVersion(cli.conf, srv.conf)

\* The places of a server with a ServerHello of TLS 1.0 to 1.2 at hand, and
\* those before it sends one of TLS 1.3.
ShMade == {"checkForResumption12", "doResumeHandshake12", "pickCipherSuite12", "sendFlight12"}

Before13 ==
  {"process13", "readSecondHello13", "negotiate13", "checkForResumption13", "pickCertificate13",
   "sendParameters13"}

\* What a server knows of its client.
Answered ==
  /\ DOMAIN srv = ServerFields /\ srv.conf \in ServerConfigs
  /\ Seen(srv.peer, srv.verified)
  /\ ~ServerDone /\ srv.pc # "readClientHello" => HasTickets(srv.hello)
  /\ srv.pc = "process12" => Answer(cli.conf, srv.conf, srv.vers)
  /\ srv.pc \in ShMade => /\ DOMAIN srv.sh = ServerHelloFields /\ srv.sh.type = "serverHello"
                          /\ Marked(cli.conf, srv.conf, srv.sh)
  /\ srv.pc \in Before13 => Speaks(srv.conf, FALSE, TLS13)

\* The places before a server has decided about resumption, those where it
\* has and may still ask for a certificate, and those behind that.
Undecided ==
  {"readClientHello", "process12", "checkForResumption12", "pickCipherSuite12", "sendFlight12",
   "process13", "readSecondHello13", "negotiate13", "checkForResumption13"}

Parameters == {"pickCertificate13", "sendParameters13", "sendCertificate13", "sendFinished13"}

Decided ==
  {"doResumeHandshake12", "readKeyExchange12", "readCertificateVerify12", "readFinished12",
   "readCertificateVerify13", "sendTickets13", "readFinished13"}

Judged ==
  /\ srv.pc \in Undecided => srv.peer = None /\ ~srv.didResume
  /\ srv.pc \in Parameters => IF srv.didResume THEN ClientAuthOk ELSE srv.peer = None
  /\ srv.pc \in {"readCertificate12", "readCertificate13"} =>
       srv.conf.clientAuth >= RequestClientCert
  /\ srv.pc \in Decided => ClientAuthOk

TicketInv == Hellos(toServer) /\ Replies(toClient) /\ Kept /\ Answered /\ Judged

-----------------------------------------------------------------------------
(* Queues *)

\* What is in a sequence.
LEMMA QueueOf ==
  ASSUME NEW S, NEW q \in Seq(S)
  PROVE  Elements(q) \subseteq S /\ q \in Seq(Elements(q))
<1>1. \A i \in DOMAIN q : q[i] \in S /\ q[i] \in Elements(q)
  BY DEF Elements
<1>2. Len(q) \in Nat /\ DOMAIN q = 1..Len(q) /\ q = [i \in 1..Len(q) |-> q[i]]
  OBVIOUS
<1>3. Elements(q) \subseteq S
  BY <1>1 DEF Elements
<1>4. q \in [1..Len(q) -> Elements(q)]
  BY <1>1, <1>2
<1> QED
  BY <1>2, <1>3, <1>4

\* The head of a queue is in it, and its tail holds nothing else.
LEMMA QueueTail ==
  ASSUME NEW q, q \in Seq(Elements(q)), q # <<>>
  PROVE  /\ Head(q) \in Elements(q)
         /\ Tail(q) \in Seq(Elements(Tail(q))) /\ Elements(Tail(q)) \subseteq Elements(q)
<1> DEFINE S == Elements(q)
<1>1. q \in Seq(S)
  OBVIOUS
<1> HIDE DEF S
<1>2. Head(q) \in S /\ Tail(q) \in Seq(S)
  BY <1>1
<1> QED
  BY <1>2, QueueOf DEF S

\* Two queues, one behind the other.
LEMMA QueueConcat ==
  ASSUME NEW q, NEW r, q \in Seq(Elements(q)), r \in Seq(Elements(r))
  PROVE  /\ q \o r \in Seq(Elements(q \o r))
         /\ Elements(q \o r) \subseteq Elements(q) \cup Elements(r)
<1> DEFINE S == Elements(q) \cup Elements(r)
<1>1. q \in Seq(S) /\ r \in Seq(S)
  OBVIOUS
<1> HIDE DEF S
<1>2. q \o r \in Seq(S)
  BY <1>1
<1> QED
  BY <1>2, QueueOf DEF S

\* A message behind a queue.
LEMMA QueueAppend ==
  ASSUME NEW q, NEW m, q \in Seq(Elements(q))
  PROVE  /\ Append(q, m) \in Seq(Elements(Append(q, m)))
         /\ Elements(Append(q, m)) \subseteq Elements(q) \cup {m}
<1> DEFINE S == Elements(q) \cup {m}
<1>1. q \in Seq(S) /\ m \in S
  OBVIOUS
<1> HIDE DEF S
<1>2. Append(q, m) \in Seq(S)
  BY <1>1
<1> QED
  BY <1>2, QueueOf DEF S

\* A queue of one.
LEMMA QueueOne ==
  ASSUME NEW m
  PROVE  <<m>> \in Seq(Elements(<<m>>)) /\ Elements(<<m>>) = {m}
<1>1. <<m>> \in Seq({m})
  OBVIOUS
<1>2. m \in Elements(<<m>>)
  <2>1. 1 \in DOMAIN <<m>> /\ <<m>>[1] = m
    OBVIOUS
  <2> QED
    BY <2>1 DEF Elements
<1> QED
  BY <1>1, <1>2, QueueOf

\* An empty queue.
LEMMA QueueNone == <<>> \in Seq(Elements(<<>>)) /\ Elements(<<>>) = {}
BY DEF Elements

\* What a queue of tickets is made of.
LEMMA ReplyQueues ==
  /\ Replies(<<>>)
  /\ \A m : ReplyOk(m) => Replies(<<m>>)
  /\ \A q, r : Replies(q) /\ Replies(r) => Replies(q \o r)
  /\ \A q, m : Replies(q) /\ ReplyOk(m) => Replies(Append(q, m))
  /\ \A q : Replies(q) /\ q # <<>> => ReplyOk(Head(q)) /\ Replies(Tail(q))
<1>1. Replies(<<>>)
  BY QueueNone DEF Replies
<1>2. ASSUME NEW m, ReplyOk(m) PROVE Replies(<<m>>)
  BY <1>2, QueueOne DEF Replies
<1>3. ASSUME NEW q, NEW r, Replies(q), Replies(r) PROVE Replies(q \o r)
  BY <1>3, QueueConcat DEF Replies
<1>4. ASSUME NEW q, NEW m, Replies(q), ReplyOk(m) PROVE Replies(Append(q, m))
  BY <1>4, QueueAppend DEF Replies
<1>5. ASSUME NEW q, Replies(q), q # <<>> PROVE ReplyOk(Head(q)) /\ Replies(Tail(q))
  BY <1>5, QueueTail DEF Replies
<1> QED
  BY <1>1, <1>2, <1>3, <1>4, <1>5

\* Flights of two and of three messages.
LEMMA ReplyLists ==
  ASSUME NEW a, NEW b, NEW c, ReplyOk(a), ReplyOk(b), ReplyOk(c)
  PROVE  Replies(<<a, b>>) /\ Replies(<<a, b, c>>)
<1> DEFINE S == {a, b, c}
<1>1. a \in S /\ b \in S /\ c \in S /\ \A m \in S : ReplyOk(m)
  OBVIOUS
<1> HIDE DEF S
<1>2. <<a, b>> \in Seq(S) /\ <<a, b, c>> \in Seq(S)
  BY <1>1
<1> QED
  BY <1>1, <1>2, QueueOf DEF Replies

\* What a queue of hellos is made of.
LEMMA HelloQueues ==
  /\ Hellos(<<>>)
  /\ \A m : HelloOk(m) => Hellos(<<m>>)
  /\ \A q, r : Hellos(q) /\ Hellos(r) => Hellos(q \o r)
  /\ \A q, m : Hellos(q) /\ HelloOk(m) => Hellos(Append(q, m))
  /\ \A q : Hellos(q) /\ q # <<>> => HelloOk(Head(q)) /\ Hellos(Tail(q))
<1>1. Hellos(<<>>)
  BY QueueNone DEF Hellos
<1>2. ASSUME NEW m, HelloOk(m) PROVE Hellos(<<m>>)
  BY <1>2, QueueOne DEF Hellos
<1>3. ASSUME NEW q, NEW r, Hellos(q), Hellos(r) PROVE Hellos(q \o r)
  BY <1>3, QueueConcat DEF Hellos
<1>4. ASSUME NEW q, NEW m, Hellos(q), HelloOk(m) PROVE Hellos(Append(q, m))
  BY <1>4, QueueAppend DEF Hellos
<1>5. ASSUME NEW q, Hellos(q), q # <<>> PROVE HelloOk(Head(q)) /\ Hellos(Tail(q))
  BY <1>5, QueueTail DEF Hellos
<1> QED
  BY <1>1, <1>2, <1>3, <1>4, <1>5

\* What a queue holds depends on the two Configs alone.
LEMMA HelloQueuesKept ==
  ASSUME cli'.conf = cli.conf, Hellos(toServer')
  PROVE  Hellos(toServer)'
BY DEF Hellos, HelloOk, Offers, Fits, HasTickets, Sealed, Seen

LEMMA ReplyQueuesKept ==
  ASSUME cli'.conf = cli.conf, srv'.conf = srv.conf, Replies(toClient')
  PROVE  Replies(toClient)'
BY DEF Replies, ReplyOk, Sealed, Seen

-----------------------------------------------------------------------------
(* The server's steps *)

\* The server has read a message, or not.
ServerTakes == toServer' = toServer \/ (toServer # <<>> /\ toServer' = Tail(toServer))

\* What the server sends, with tickets as they should be, leaves the queues
\* and the client as they should be.
LEMMA ServerSendsInv ==
  ASSUME TicketInv, NEW flight, NEW new, ServerSends(flight, new), Replies(flight), ServerTakes,
         srv'.conf = srv.conf
  PROVE  Hellos(toServer)' /\ Replies(toClient)' /\ Kept'
<1>1. Hellos(toServer')
  BY HelloQueues DEF TicketInv, ServerTakes
<1>2. Replies(toClient')
  BY ReplyQueues DEF TicketInv, ServerSends
<1>3. UNCHANGED <<cli, cache>>
  BY DEF ServerSends, ServerKeeps
<1>4. Kept'
  BY <1>3 DEF TicketInv, Kept, UsesECH, Offers, Fits
<1> QED
  BY <1>1, <1>2, <1>3, <1>4, HelloQueuesKept, ReplyQueuesKept

\* An error of the server.
LEMMA FailServerInv ==
  ASSUME TicketInv, NEW flight, FailServerAfter(flight), Replies(flight), ServerTakes
  PROVE  TicketInv' /\ srv'.pc = "failed"
<1>1. ReplyOk(Alert)
  BY DEF ReplyOk, Alert
<1>2. Replies(flight \o <<Alert>>)
  BY <1>1, ReplyQueues
<1>3. /\ DOMAIN srv' = ServerFields /\ srv'.pc = "failed" /\ srv'.conf = srv.conf
      /\ srv'.peer = srv.peer /\ srv'.verified = srv.verified
  BY DEF FailServerAfter, ServerSends, TicketInv, Answered, ServerFields
<1>4. Hellos(toServer)' /\ Replies(toClient)' /\ Kept'
  BY <1>2, <1>3, ServerSendsInv DEF FailServerAfter
<1>5. Answered' /\ Judged'
  BY <1>3 DEF TicketInv, Answered, Judged, Seen, ServerDone, Undecided, Parameters, Decided,
              ShMade, Before13
<1> QED
  BY <1>3, <1>4, <1>5 DEF TicketInv

\* A step after which the server knows of its client what it knew before.
SameClient ==
  /\ DOMAIN srv' = ServerFields /\ srv'.conf = srv.conf /\ srv'.peer = srv.peer
  /\ srv'.verified = srv.verified /\ srv'.didResume = srv.didResume /\ srv'.hello = srv.hello
  /\ UNCHANGED <<now, cli>>
  /\ ~ServerDone /\ srv.pc # "readClientHello"
  /\ srv'.pc \in Undecided => srv.pc \in Undecided
  /\ srv'.pc \in Parameters => srv.pc \in Parameters
  /\ srv'.pc \in {"readCertificate12", "readCertificate13"} =>
       srv.conf.clientAuth >= RequestClientCert
  /\ srv'.pc \in Decided => srv.pc \in Decided
  /\ srv'.pc # "process12"
  /\ srv'.pc \in ShMade => /\ DOMAIN srv'.sh = ServerHelloFields /\ srv'.sh.type = "serverHello"
                           /\ Marked(cli.conf, srv.conf, srv'.sh)
  /\ srv'.pc \in Before13 => srv.pc \in Before13
  /\ srv'.pc = "complete" => srv.pc \in Decided

\* Such a step keeps what a server knows.
LEMMA SameClientInv ==
  ASSUME TicketInv, SameClient
  PROVE  Answered' /\ Judged' /\ (srv'.pc = "complete" => ClientAuthOk')
<1>1. ClientAuthOk => ClientAuthOk'
  BY DEF SameClient, ClientAuthOk
<1>2. Answered'
  BY DEF TicketInv, SameClient, Answered, Seen
<1>3. Judged'
  BY <1>1 DEF TicketInv, SameClient, Judged
<1>4. srv'.pc = "complete" => ClientAuthOk'
  BY <1>1 DEF TicketInv, SameClient, Judged
<1> QED
  BY <1>2, <1>3, <1>4

\* A server that sends, or checks something, and goes on with the same client.
LEMMA ServerGoesOn ==
  ASSUME TicketInv, NEW flight, NEW new, ServerSends(flight, new), Replies(flight), ServerTakes,
         SameClient
  PROVE  TicketInv' /\ (srv'.pc = "complete" => ClientAuthOk')
BY ServerSendsInv, SameClientInv DEF TicketInv, SameClient

\* A ticket of this server is sealed.
LEMMA TicketSealed ==
  ASSUME TicketInv, NEW secret
  PROVE  ReplyOk(NewSessionTicket(secret))
BY DEF TicketInv, Answered, ReplyOk, Sealed, NewSessionTicket

-----------------------------------------------------------------------------
\* processClientHello makes the ServerHello.
LEMMA processClientHello12Inv ==
  ASSUME TicketInv, processClientHello12
  PROVE  TicketInv' /\ (srv'.pc = "complete" => ClientAuthOk')
<1>0. DOMAIN srv = ServerFields /\ srv.pc = "process12" /\ ServerTakes
  BY DEF TicketInv, Answered, processClientHello12, ServerTakes
<1>1. CASE FailServerAfter(<<>>)
  BY <1>0, <1>1, FailServerInv, ReplyQueues
<1> DEFINE v == srv.vers
           w == downgradeCanary(srv.conf, v)
<1>2. ASSUME NEW c, NEW a, NEW n, NEW e,
             ServerSends(<<>>, [srv EXCEPT !.cert = c, !.alpn = a, !.serverName = n,
                                           !.sh = LegacyServerHello(v, w, e, a),
                                           !.pc = "checkForResumption12"])
      PROVE  TicketInv' /\ (srv'.pc = "complete" => ClientAuthOk')
  <2> DEFINE sh == LegacyServerHello(v, w, e, a)
  <2> HIDE DEF w
  <2>1. /\ DOMAIN sh = ServerHelloFields /\ sh.type = "serverHello" /\ sh.supportedVersion = 0
        /\ sh.vers = v /\ sh.canary = w
    BY DEF LegacyServerHello, ServerHelloFields
  <2> HIDE DEF sh
  <2>2. Marked(cli.conf, srv.conf, sh)
    BY <1>0, <2>1 DEF Marked, w, TicketInv, Answered
  <2>3. SameClient
    BY <1>0, <1>2, <2>1, <2>2
    DEF SameClient, ServerSends, ServerKeeps, ServerFields, ServerDone, Undecided, Parameters,
        Decided, Before13, sh
  <2> QED
    BY <1>0, <1>2, <2>3, ServerGoesOn, ReplyQueues
<1> QED
  BY <1>1, <1>2, Zenon DEF processClientHello12, ServerChecks

\* The steps that choose something, or check what the client proves.
LEMMA PlainServerStepsInv ==
  ASSUME TicketInv,
         \/ pickCipherSuite12 \/ ReadClientKeyExchange12 \/ ServerReadCertificateVerify12
         \/ NegotiateProtocol13 \/ pickCertificate13 \/ ServerReadCertificateVerify13
         \/ readClientFinished
  PROVE  TicketInv' /\ (srv'.pc = "complete" => ClientAuthOk')
<1> USE DEF ServerFields, ServerDone, Undecided, Parameters, Decided, ShMade, Before13
<1>0. DOMAIN srv = ServerFields
  BY DEF TicketInv, Answered
<1>00. ServerTakes
  BY DEF ServerTakes, pickCipherSuite12, ReadClientKeyExchange12, ServerReadCertificateVerify12,
         NegotiateProtocol13, pickCertificate13, ServerReadCertificateVerify13,
         readClientFinished, ServerReads, ServerHasMessage
<1> SUFFICES \/ FailServerAfter(<<>>)
             \/ SameClient /\ \E new : ServerSends(<<>>, new)
  BY <1>00, FailServerInv, ServerGoesOn, ReplyQueues
<1>1. CASE pickCipherSuite12
  <2>1. /\ srv.pc = "pickCipherSuite12"
        /\ \/ FailServerAfter(<<>>)
           \/ \E u : ServerSends(<<>>, [srv EXCEPT !.suite = u, !.pc = "sendFlight12"])
    BY <1>1, Zenon DEF pickCipherSuite12, ServerChecks
  <2>2. ASSUME NEW u, ServerSends(<<>>, [srv EXCEPT !.suite = u, !.pc = "sendFlight12"])
        PROVE  SameClient
    BY <1>0, <2>1, <2>2 DEF SameClient, ServerSends, ServerKeeps, TicketInv, Answered
  <2> QED
    BY <2>1, <2>2
<1>2. CASE ReadClientKeyExchange12
  <2>1. /\ srv.pc = "readKeyExchange12"
        /\ \/ FailServerAfter(<<>>)
           \/ \E t, e, u, l :
                /\ l \in {"readFinished12", "readCertificateVerify12"}
                /\ ServerSends(<<>>, [srv EXCEPT !.transcript = t, !.ems = e, !.secret = u,
                                                 !.pc = l])
    BY <1>2, Zenon DEF ReadClientKeyExchange12, ServerReads, ServerChecks
  <2>2. ASSUME NEW t, NEW e, NEW u, NEW l \in {"readFinished12", "readCertificateVerify12"},
               ServerSends(<<>>, [srv EXCEPT !.transcript = t, !.ems = e, !.secret = u, !.pc = l])
        PROVE  SameClient
    BY <1>0, <2>1, <2>2 DEF SameClient, ServerSends, ServerKeeps
  <2> QED
    BY <2>1, <2>2
<1>3. CASE ServerReadCertificateVerify12
  <2>1. /\ srv.pc = "readCertificateVerify12"
        /\ \/ FailServerAfter(<<>>)
           \/ \E t : ServerSends(<<>>, [srv EXCEPT !.transcript = t, !.pc = "readFinished12"])
    BY <1>3, Zenon DEF ServerReadCertificateVerify12, ServerReads, ServerChecks
  <2>2. ASSUME NEW t, ServerSends(<<>>, [srv EXCEPT !.transcript = t, !.pc = "readFinished12"])
        PROVE  SameClient
    BY <1>0, <2>1, <2>2 DEF SameClient, ServerSends, ServerKeeps
  <2> QED
    BY <2>1, <2>2
<1>4. CASE NegotiateProtocol13
  <2>1. /\ srv.pc = "negotiate13"
        /\ \/ FailServerAfter(<<>>)
           \/ \E a, n : ServerSends(<<>>, [srv EXCEPT !.alpn = a, !.serverName = n,
                                                      !.pc = "checkForResumption13"])
    BY <1>4, Zenon DEF NegotiateProtocol13, ServerChecks
  <2>2. ASSUME NEW a, NEW n,
               ServerSends(<<>>, [srv EXCEPT !.alpn = a, !.serverName = n,
                                             !.pc = "checkForResumption13"])
        PROVE  SameClient
    BY <1>0, <2>1, <2>2 DEF SameClient, ServerSends, ServerKeeps
  <2> QED
    BY <2>1, <2>2
<1>5. CASE pickCertificate13
  <2> DEFINE next == [srv EXCEPT !.pc = "sendParameters13"]
  <2>1. /\ srv.pc = "pickCertificate13"
        /\ \/ FailServerAfter(<<>>)
           \/ ServerSends(<<>>, next)
           \/ \E c, a : ServerSends(<<>>, [next EXCEPT !.cert = c, !.sigAlg = a])
    BY <1>5, Zenon DEF pickCertificate13, ServerChecks
  <2>2. CASE ServerSends(<<>>, next)
    BY <1>0, <2>1, <2>2 DEF SameClient, ServerSends, ServerKeeps
  <2>3. ASSUME NEW c, NEW a, ServerSends(<<>>, [next EXCEPT !.cert = c, !.sigAlg = a])
        PROVE  SameClient
    BY <1>0, <2>1, <2>3 DEF SameClient, ServerSends, ServerKeeps
  <2> QED
    BY <2>1, <2>2, <2>3
<1>6. CASE ServerReadCertificateVerify13
  <2>1. /\ srv.pc = "readCertificateVerify13"
        /\ \/ FailServerAfter(<<>>)
           \/ \E t : ServerSends(<<>>, [srv EXCEPT !.transcript = t, !.pc = "sendTickets13"])
    BY <1>6, Zenon DEF ServerReadCertificateVerify13, ServerReads, ServerChecks
  <2>2. ASSUME NEW t, ServerSends(<<>>, [srv EXCEPT !.transcript = t, !.pc = "sendTickets13"])
        PROVE  SameClient
    BY <1>0, <2>1, <2>2 DEF SameClient, ServerSends, ServerKeeps
  <2> QED
    BY <2>1, <2>2
<1>7. CASE readClientFinished
  <2>1. /\ srv.pc = "readFinished13"
        /\ \/ FailServerAfter(<<>>)
           \/ ServerSends(<<>>, [srv EXCEPT !.pc = "complete"])
    BY <1>7, Zenon DEF readClientFinished, ServerReads, ServerChecks
  <2>2. CASE ServerSends(<<>>, [srv EXCEPT !.pc = "complete"])
    <3>1. SameClient
      BY <1>0, <2>1, <2>2 DEF SameClient, ServerSends, ServerKeeps
    <3> QED
      BY <2>2, <3>1
  <2> QED
    BY <2>1, <2>2
<1> QED
  BY <1>1, <1>2, <1>3, <1>4, <1>5, <1>6, <1>7

\* The abbreviated handshake of TLS 1.2 sends a ticket.
LEMMA doResumeHandshake12Inv ==
  ASSUME TicketInv, doResumeHandshake12
  PROVE  TicketInv' /\ (srv'.pc = "complete" => ClientAuthOk')
<1> DEFINE sh == [srv.sh EXCEPT !.suite = srv.suite, !.sessionIdEcho = TRUE, !.ticketSupported = TRUE]
           ticket == NewSessionTicket(srv.session.secret)
           finished == Finished(srv.session.secret, "server", Append(<<srv.hello, sh>>, ticket))
<1>0. DOMAIN srv = ServerFields /\ srv.pc = "doResumeHandshake12" /\ ServerTakes
  BY DEF TicketInv, Answered, doResumeHandshake12, ServerTakes
<1>2. ReplyOk(sh)
  <2>1. /\ DOMAIN srv.sh = ServerHelloFields /\ srv.sh.type = "serverHello"
        /\ Marked(cli.conf, srv.conf, srv.sh)
    BY <1>0 DEF TicketInv, Answered, ShMade
  <2>2. /\ sh.type = "serverHello" /\ sh.supportedVersion = srv.sh.supportedVersion
        /\ sh.vers = srv.sh.vers /\ sh.canary = srv.sh.canary
    BY <2>1 DEF ServerHelloFields
  <2> HIDE DEF sh
  <2> QED
    BY <2>1, <2>2 DEF ReplyOk, Marked
<1>3. ReplyOk(ticket) /\ ReplyOk(finished)
  BY TicketSealed DEF ReplyOk, Finished
<1>4. \E u, t : ServerSends(<<sh, ticket, finished>>,
                  [srv EXCEPT !.sh = sh, !.secret = u, !.pc = "readFinished12", !.transcript = t])
  BY Zenon DEF doResumeHandshake12
<1> HIDE DEF sh, ticket, finished
<1>5. Replies(<<sh, ticket, finished>>)
  BY <1>2, <1>3, ReplyLists
<1>6. ASSUME NEW u, NEW t,
             ServerSends(<<sh, ticket, finished>>,
               [srv EXCEPT !.sh = sh, !.secret = u, !.pc = "readFinished12", !.transcript = t])
      PROVE  TicketInv' /\ (srv'.pc = "complete" => ClientAuthOk')
  <2>1. SameClient
    BY <1>0, <1>6
    DEF SameClient, ServerSends, ServerKeeps, ServerFields, ServerDone, Undecided, Parameters,
        Decided, ShMade, Before13
  <2> QED
    BY <1>0, <1>5, <1>6, <2>1, ServerGoesOn
<1> QED
  BY <1>4, <1>6

\* A full handshake of TLS 1.2 ends with a ticket and our Finished.
LEMMA ServerReadFinished12Inv ==
  ASSUME TicketInv, ServerReadFinished12
  PROVE  TicketInv' /\ (srv'.pc = "complete" => ClientAuthOk')
<1> DEFINE ticket == IF srv.sh.ticketSupported THEN <<NewSessionTicket(conns)>> ELSE <<>>
           finished == Finished(srv.secret, "server",
                                transcriptMsg(srv.transcript, <<FromClient>>) \o ticket)
           flight == IF srv.didResume THEN <<>> ELSE Append(ticket, finished)
<1>0. DOMAIN srv = ServerFields /\ srv.pc = "readFinished12" /\ ServerTakes
  BY DEF TicketInv, Answered, ServerReadFinished12, ServerReads, ServerHasMessage, ServerTakes
<1>1. ReplyOk(NewSessionTicket(conns)) /\ ReplyOk(finished)
  BY TicketSealed DEF ReplyOk, Finished
<1>2. \/ FailServerAfter(<<>>)
      \/ \E t : ServerSends(flight, [srv EXCEPT !.transcript = t, !.pc = "complete"])
  BY Zenon DEF ServerReadFinished12
<1> HIDE DEF finished
<1>3. Replies(ticket)
  BY <1>1, ReplyQueues
<1> HIDE DEF ticket
<1>4. Replies(flight)
  BY <1>1, <1>3, ReplyQueues
<1> HIDE DEF flight
<1>5. ASSUME NEW t, ServerSends(flight, [srv EXCEPT !.transcript = t, !.pc = "complete"])
      PROVE  TicketInv' /\ (srv'.pc = "complete" => ClientAuthOk')
  <2>1. SameClient
    BY <1>0, <1>5
    DEF SameClient, ServerSends, ServerKeeps, ServerFields, ServerDone, Undecided, Parameters,
        Decided, ShMade, Before13
  <2> QED
    BY <1>0, <1>4, <1>5, <2>1, ServerGoesOn
<1> QED
  BY <1>0, <1>2, <1>5, FailServerInv, ReplyQueues

\* A ServerHello of TLS 1.3, whatever else is set in it, says so.
LEMMA ServerHello13Plain ==
  /\ DOMAIN ServerHello13 = ServerHelloFields /\ ServerHello13.type = "serverHello"
  /\ ServerHello13.supportedVersion = 13
BY DEF ServerHello13, LegacyServerHello, ServerHelloFields, TLS13

\* A server that speaks TLS 1.3 may answer with it.
LEMMA Answers13 ==
  ASSUME Speaks(srv.conf, FALSE, TLS13), NEW sh, sh.type = "serverHello", sh.supportedVersion = 13
  PROVE  ReplyOk(sh)
<1>1. Answer(cli.conf, srv.conf, 13)
  <2>1. \A w \in 10..13 : w <= 13
    OBVIOUS
  <2> QED
    BY <2>1, Zenon DEF Answer, TLS13
<1>2. Marked(cli.conf, srv.conf, sh)
  BY <1>1 DEF Marked, TLS13
<1> QED
  BY <1>2 DEF ReplyOk

\* processClientHello, with or without a HelloRetryRequest.
LEMMA processClientHello13Inv ==
  ASSUME TicketInv, processClientHello13
  PROVE  TicketInv' /\ (srv'.pc = "complete" => ClientAuthOk')
<1>0. DOMAIN srv = ServerFields /\ srv.pc = "process13" /\ ServerTakes
  BY DEF TicketInv, Answered, processClientHello13, ServerTakes
<1>1. \/ FailServerAfter(<<>>)
      \/ \E u, g : ServerSends(<<>>, [[srv EXCEPT !.suite = u, !.curve = g]
                                        EXCEPT !.pc = "negotiate13"])
      \/ \E u, g, a, t :
           ServerSends(<<[ServerHello13 EXCEPT !.suite = u, !.hrr = TRUE, !.selectedGroup = g,
                                               !.echAccept = a]>>,
                       [[srv EXCEPT !.suite = u, !.curve = g]
                          EXCEPT !.transcript = t, !.pc = "readSecondHello13"])
  BY Zenon DEF processClientHello13
<1> USE DEF SameClient, ServerSends, ServerKeeps, ServerFields, ServerDone, Undecided, Parameters,
            Decided, ShMade, Before13
<1>2. ASSUME NEW u, NEW g,
             ServerSends(<<>>, [[srv EXCEPT !.suite = u, !.curve = g] EXCEPT !.pc = "negotiate13"])
      PROVE  SameClient
  BY <1>0, <1>2
<1>3. ASSUME NEW u, NEW g, NEW t, NEW flight,
             ServerSends(flight, [[srv EXCEPT !.suite = u, !.curve = g]
                                    EXCEPT !.transcript = t, !.pc = "readSecondHello13"])
      PROVE  SameClient
  BY <1>0, <1>3
<1>4. ASSUME NEW u, NEW g, NEW a
      PROVE  Replies(<<[ServerHello13 EXCEPT !.suite = u, !.hrr = TRUE, !.selectedGroup = g,
                                             !.echAccept = a]>>)
  <2> DEFINE hrr == [ServerHello13 EXCEPT !.suite = u, !.hrr = TRUE, !.selectedGroup = g,
                                          !.echAccept = a]
  <2>1. hrr.type = "serverHello" /\ hrr.supportedVersion = 13
    BY ServerHello13Plain DEF ServerHelloFields
  <2>2. Speaks(srv.conf, FALSE, TLS13)
    BY <1>0 DEF TicketInv, Answered
  <2> HIDE DEF hrr
  <2>3. ReplyOk(hrr)
    BY <2>1, <2>2, Answers13
  <2> QED
    BY <2>3, ReplyQueues DEF hrr
<1>5. CASE FailServerAfter(<<>>)
  BY <1>0, <1>5, FailServerInv, ReplyQueues
<1>6. CASE \E u, g : ServerSends(<<>>, [[srv EXCEPT !.suite = u, !.curve = g]
                                          EXCEPT !.pc = "negotiate13"])
  BY <1>0, <1>2, <1>6, ServerGoesOn, ReplyQueues
<1>7. ASSUME NEW u, NEW g, NEW a, NEW t,
             ServerSends(<<[ServerHello13 EXCEPT !.suite = u, !.hrr = TRUE, !.selectedGroup = g,
                                                 !.echAccept = a]>>,
                         [[srv EXCEPT !.suite = u, !.curve = g]
                            EXCEPT !.transcript = t, !.pc = "readSecondHello13"])
      PROVE  TicketInv' /\ (srv'.pc = "complete" => ClientAuthOk')
  <2> DEFINE flight == <<[ServerHello13 EXCEPT !.suite = u, !.hrr = TRUE, !.selectedGroup = g,
                                               !.echAccept = a]>>
             new == [[srv EXCEPT !.suite = u, !.curve = g]
                       EXCEPT !.transcript = t, !.pc = "readSecondHello13"]
  <2>1. SameClient
    BY <1>3, <1>7
  <2>2. Replies(flight) /\ ServerSends(flight, new)
    BY <1>4, <1>7
  <2> HIDE DEF flight, new, SameClient, ServerSends
  <2> QED
    BY <1>0, <2>1, <2>2, ServerGoesOn
<1> QED
  BY <1>1, <1>5, <1>6, <1>7, Zenon

\* The ServerHello and the EncryptedExtensions.
LEMMA sendServerParametersInv ==
  ASSUME TicketInv, sendServerParameters
  PROVE  TicketInv' /\ (srv'.pc = "complete" => ClientAuthOk')
<1>0. DOMAIN srv = ServerFields /\ srv.pc = "sendParameters13" /\ ServerTakes
  BY DEF TicketInv, Answered, sendServerParameters, ServerTakes
<1> DEFINE hellos == Append(srv.transcript, srv.hello)
           sh == [ServerHello13 EXCEPT !.serverShare = srv.curve, !.psk = srv.didResume,
                                       !.echAccept = IF srv.ech # None THEN hellos ELSE None]
           ee == [type |-> "encryptedExtensions", alpn |-> srv.alpn,
                  retryConfigs |-> IF srv.hello.ech # NoECH /\ srv.ech = None
                                   THEN buildRetryConfigList(srv.conf) ELSE None]
<1>1. \E t, u : ServerSends(<<sh, ee>>, [srv EXCEPT !.sh = sh, !.transcript = t, !.secret = u,
                                                    !.pc = "sendCertificate13"])
  BY Zenon DEF sendServerParameters
<1>2. ReplyOk(sh) /\ ReplyOk(ee)
  <2>1. sh.type = "serverHello" /\ sh.supportedVersion = 13
    BY ServerHello13Plain DEF ServerHelloFields
  <2>2. Speaks(srv.conf, FALSE, TLS13)
    BY <1>0 DEF TicketInv, Answered, Before13
  <2>3. ReplyOk(ee)
    BY DEF ReplyOk
  <2> HIDE DEF sh
  <2> QED
    BY <2>1, <2>2, <2>3, Answers13
<1> HIDE DEF sh, ee
<1>3. Replies(<<sh, ee>>)
  BY <1>2, ReplyLists
<1>4. ASSUME NEW t, NEW u,
             ServerSends(<<sh, ee>>, [srv EXCEPT !.sh = sh, !.transcript = t, !.secret = u,
                                                 !.pc = "sendCertificate13"])
      PROVE  SameClient
  BY <1>0, <1>4
  DEF SameClient, ServerSends, ServerKeeps, ServerFields, ServerDone, Undecided, Parameters,
      Decided, ShMade, Before13
<1> QED
  BY <1>0, <1>1, <1>3, <1>4, ServerGoesOn

\* The server's Certificate and CertificateVerify, and its request.
LEMMA sendServerCertificateInv ==
  ASSUME TicketInv, sendServerCertificate
  PROVE  TicketInv' /\ (srv'.pc = "complete" => ClientAuthOk')
<1> DEFINE request == IF requestClientCert THEN <<CertificateRequest(TLS13, srv.conf)>> ELSE <<>>
           flight == Append(request, Certificate(srv.cert))
           verify == CertificateVerify(Signature(srv.cert, srv.sigAlg, srv.transcript \o flight))
           sent == IF srv.didResume THEN <<>> ELSE Append(flight, verify)
<1>0. DOMAIN srv = ServerFields /\ srv.pc = "sendCertificate13" /\ ServerTakes
  BY DEF TicketInv, Answered, sendServerCertificate, ServerTakes
<1>1. \E t : ServerSends(sent, [srv EXCEPT !.transcript = t, !.pc = "sendFinished13"])
  BY Zenon DEF sendServerCertificate
<1>2. /\ ReplyOk(CertificateRequest(TLS13, srv.conf)) /\ ReplyOk(Certificate(srv.cert))
      /\ ReplyOk(verify)
  BY DEF ReplyOk, CertificateRequest, Certificate, CertificateVerify
<1> HIDE DEF verify
<1>3. Replies(request)
  BY <1>2, ReplyQueues
<1> HIDE DEF request
<1>4. Replies(flight)
  BY <1>2, <1>3, ReplyQueues
<1> HIDE DEF flight
<1>5. Replies(sent)
  BY <1>2, <1>4, ReplyQueues
<1> HIDE DEF sent
<1>6. ASSUME NEW t, ServerSends(sent, [srv EXCEPT !.transcript = t, !.pc = "sendFinished13"])
      PROVE  SameClient
  BY <1>0, <1>6
  DEF SameClient, ServerSends, ServerKeeps, ServerFields, ServerDone, Undecided, Parameters,
      Decided, ShMade, Before13
<1> QED
  BY <1>0, <1>1, <1>5, <1>6, ServerGoesOn

\* The tickets of TLS 1.3.
LEMMA SessionTicketsSealed ==
  ASSUME TicketInv
  PROVE  Replies(SessionTickets)
BY TicketSealed, ReplyQueues DEF SessionTickets

\* The tickets behind a client certificate.
LEMMA sendSessionTicketsInv ==
  ASSUME TicketInv, sendSessionTickets
  PROVE  TicketInv' /\ (srv'.pc = "complete" => ClientAuthOk')
<1>0. DOMAIN srv = ServerFields /\ srv.pc = "sendTickets13" /\ ServerTakes
  BY DEF TicketInv, Answered, sendSessionTickets, ServerTakes
<1>1. \E t : ServerSends(SessionTickets, [srv EXCEPT !.transcript = t, !.pc = "readFinished13"])
  BY Zenon DEF sendSessionTickets
<1>2. ASSUME NEW t,
             ServerSends(SessionTickets, [srv EXCEPT !.transcript = t, !.pc = "readFinished13"])
      PROVE  SameClient
  BY <1>0, <1>2
  DEF SameClient, ServerSends, ServerKeeps, ServerFields, ServerDone, Undecided, Parameters,
      Decided, ShMade, Before13
<1> QED
  BY <1>0, <1>1, <1>2, ServerGoesOn, SessionTicketsSealed

\* The policies are the five of ClientAuthType.
LEMMA AuthType ==
  ASSUME TicketInv
  PROVE  srv.conf.clientAuth \in 0..4
BY HandshakeAssumption DEF TicketInv, Answered, NoClientCert, RequireAndVerifyClientCert

\* Without a client certificate, a policy that asks for none is met.
LEMMA NobodyAsked ==
  ASSUME TicketInv, srv.peer = None, ~(srv.conf.clientAuth >= RequestClientCert)
  PROVE  ClientAuthOk
BY AuthType
DEF ClientAuthOk, requiresClientCert, NoClientCert, RequestClientCert, RequireAnyClientCert,
    RequireAndVerifyClientCert

\* The Finished of TLS 1.3: a server that asked for a certificate waits for
\* it, any other is done with its client.
LEMMA sendServerFinishedInv ==
  ASSUME TicketInv, sendServerFinished
  PROVE  TicketInv' /\ (srv'.pc = "complete" => ClientAuthOk')
<1> DEFINE finished == Finished(srv.secret, "server", srv.transcript)
<1>0. DOMAIN srv = ServerFields /\ srv.pc = "sendFinished13" /\ ServerTakes
  BY DEF TicketInv, Answered, sendServerFinished, ServerTakes
<1>1. ReplyOk(finished)
  BY DEF ReplyOk, Finished
<1>2. \E t : IF requestClientCert
             THEN ServerSends(<<finished>>,
                              [srv EXCEPT !.transcript = t, !.pc = "readCertificate13"])
             ELSE ServerSends(<<finished>> \o SessionTickets,
                              [srv EXCEPT !.transcript = t, !.pc = "readFinished13"])
  BY Zenon DEF sendServerFinished
<1> PICK t : IF requestClientCert
             THEN ServerSends(<<finished>>,
                              [srv EXCEPT !.transcript = t, !.pc = "readCertificate13"])
             ELSE ServerSends(<<finished>> \o SessionTickets,
                              [srv EXCEPT !.transcript = t, !.pc = "readFinished13"])
  BY <1>2
<1> HIDE DEF finished
<1>3. CASE requestClientCert
  <2>1. ServerSends(<<finished>>, [srv EXCEPT !.transcript = t, !.pc = "readCertificate13"])
    BY <1>3
  <2>2. SameClient
    BY <1>0, <1>3, <2>1
    DEF requestClientCert, SameClient, ServerSends, ServerKeeps, ServerFields, ServerDone,
        Undecided, Parameters, Decided, ShMade, Before13
  <2> QED
    BY <1>0, <1>1, <2>1, <2>2, ServerGoesOn, ReplyQueues
<1>4. CASE ~requestClientCert
  <2>1. ServerSends(<<finished>> \o SessionTickets,
                    [srv EXCEPT !.transcript = t, !.pc = "readFinished13"])
    BY <1>4
  <2>2. Hellos(toServer)' /\ Replies(toClient)' /\ Kept'
    <3>1. Replies(<<finished>> \o SessionTickets)
      BY <1>1, SessionTicketsSealed, ReplyQueues
    <3>2. srv'.conf = srv.conf
      BY <1>0, <2>1 DEF ServerSends, ServerFields
    <3> QED
      BY <1>0, <2>1, <3>1, <3>2, ServerSendsInv
  <2>3. ClientAuthOk
    BY <1>0, <1>4, NobodyAsked DEF requestClientCert, TicketInv, Judged, Parameters
  <2>4. /\ DOMAIN srv' = ServerFields /\ srv'.conf = srv.conf /\ srv'.peer = srv.peer
        /\ srv'.verified = srv.verified /\ srv'.hello = srv.hello /\ now' = now
        /\ srv'.pc = "readFinished13"
    BY <1>0, <2>1 DEF ServerSends, ServerKeeps, ServerFields
  <2>5. Answered'
    BY <1>0, <2>4 DEF TicketInv, Answered, Seen, ServerDone, ShMade, Before13
  <2>6. Judged'
    BY <2>3, <2>4 DEF Judged, ClientAuthOk, Undecided, Parameters
  <2> QED
    BY <2>2, <2>4, <2>5, <2>6 DEF TicketInv
<1> QED
  BY <1>3, <1>4

\* The first flight of TLS 1.2: a server that asks for a certificate waits for
\* it, any other is done with its client.
LEMMA sendFlight12Inv ==
  ASSUME TicketInv, sendFlight12
  PROVE  TicketInv' /\ (srv'.pc = "complete" => ClientAuthOk')
<1> DEFINE sh == [srv.sh EXCEPT !.suite = srv.suite, !.ocspStapling = srv.cert.staple,
                    !.ticketSupported = srv.hello.ticketSupported /\ ~srv.conf.ticketsDisabled]
           status == IF srv.cert.staple THEN <<[type |-> "certificateStatus"]>> ELSE <<>>
           start == <<sh, Certificate(srv.cert)>> \o status
           ecdhe == "ECDHE" \in Flags(srv.suite)
           exchange == IF ~ecdhe THEN <<>>
                       ELSE <<[type |-> "serverKeyExchange", curve |-> keyExchangeCurve,
                               alg |-> keyExchangeAlg, signer |-> srv.cert]>>
           asks == srv.conf.clientAuth >= RequestClientCert
           request == IF asks THEN <<CertificateRequest(srv.vers, srv.conf)>> ELSE <<>>
           done == <<[type |-> "serverHelloDone"]>>
           flight == start \o exchange \o (request \o done)
           seen == <<srv.hello>> \o flight
           curve == IF ecdhe THEN keyExchangeCurve ELSE srv.curve
<1>0. DOMAIN srv = ServerFields /\ srv.pc = "sendFlight12" /\ ServerTakes
  BY DEF TicketInv, Answered, sendFlight12, ServerTakes
<1>1. /\ ReplyOk(sh) /\ ReplyOk(Certificate(srv.cert)) /\ ReplyOk([type |-> "certificateStatus"])
      /\ ReplyOk(CertificateRequest(srv.vers, srv.conf)) /\ ReplyOk([type |-> "serverHelloDone"])
  <2>1. /\ DOMAIN srv.sh = ServerHelloFields /\ srv.sh.type = "serverHello"
        /\ Marked(cli.conf, srv.conf, srv.sh)
    BY <1>0 DEF TicketInv, Answered, ShMade
  <2>2. ReplyOk(sh)
    <3>1. /\ sh.type = "serverHello" /\ sh.supportedVersion = srv.sh.supportedVersion
          /\ sh.vers = srv.sh.vers /\ sh.canary = srv.sh.canary
      BY <2>1 DEF ServerHelloFields
    <3> HIDE DEF sh
    <3> QED
      BY <2>1, <3>1 DEF ReplyOk, Marked
  <2> QED
    BY <2>2 DEF ReplyOk, Certificate, CertificateRequest
<1>2. ReplyOk([type |-> "serverKeyExchange", curve |-> keyExchangeCurve,
                alg |-> keyExchangeAlg, signer |-> srv.cert])
  BY DEF ReplyOk
<1>3. \/ FailServerAfter(start)
      \/ ServerSends(flight,
           [srv EXCEPT !.sh = sh, !.transcript = seen, !.curve = curve,
                       !.pc = IF asks THEN "readCertificate12" ELSE "readKeyExchange12"])
  BY Zenon DEF sendFlight12
<1>4. Replies(status) /\ Replies(exchange) /\ Replies(request) /\ Replies(done)
  BY <1>1, <1>2, ReplyQueues
<1> HIDE DEF sh, status, exchange, request, done, seen, curve
<1>5. Replies(start)
  BY <1>1, <1>4, ReplyLists, ReplyQueues
<1> HIDE DEF start
<1>6. Replies(flight)
  BY <1>4, <1>5, ReplyQueues
<1> HIDE DEF flight
<1>7. CASE FailServerAfter(start)
  BY <1>0, <1>5, <1>7, FailServerInv
<1>8. CASE ServerSends(flight,
             [srv EXCEPT !.sh = sh, !.transcript = seen, !.curve = curve,
                         !.pc = IF asks THEN "readCertificate12" ELSE "readKeyExchange12"])
  <2>0. srv'.conf = srv.conf /\ cli' = cli
    BY <1>0, <1>8 DEF ServerSends, ServerKeeps, ServerFields, WithClientCert
  <2>1. Hellos(toServer)' /\ Replies(toClient)' /\ Kept'
    BY <2>0, <1>0, <1>6, <1>8, ServerSendsInv
  <2>2. /\ DOMAIN srv' = ServerFields /\ srv'.conf = srv.conf /\ srv'.peer = srv.peer
        /\ srv'.verified = srv.verified /\ srv'.hello = srv.hello /\ now' = now
        /\ srv'.pc = IF asks THEN "readCertificate12" ELSE "readKeyExchange12"
    BY <1>0, <1>8 DEF ServerSends, ServerKeeps, ServerFields
  <2>3. Answered'
    BY <1>0, <2>0, <2>2 DEF TicketInv, Answered, Seen, ServerDone, ShMade, Before13
  <2>4. ~asks => ClientAuthOk
    BY <1>0, NobodyAsked DEF TicketInv, Judged, Undecided
  <2>5. Judged'
    BY <2>2, <2>4 DEF Judged, ClientAuthOk, Undecided, Parameters, Decided
  <2> QED
    BY <2>1, <2>2, <2>3, <2>5 DEF TicketInv
<1> QED
  BY <1>3, <1>7, <1>8

\* The session in a ticket that we could open holds what we had seen.
LEMMA DecryptedSeen ==
  ASSUME NEW ticket, Sealed(ticket), decryptTicket(ticket) # None
  PROVE  Seen(decryptTicket(ticket).peer, decryptTicket(ticket).verified)
BY DEF Sealed, decryptTicket

\* A session that is taken up meets the policy of this server.
LEMMA AcceptableMeets ==
  ASSUME TicketInv, NEW s, ClientCertAcceptable(s), Seen(s.peer, s.verified),
         srv'.conf = srv.conf, now' = now, srv'.peer = s.peer, srv'.verified = s.verified
  PROVE  ClientAuthOk'
BY AuthType
DEF ClientAuthOk, ClientCertAcceptable, Seen, requiresClientCert, NoClientCert,
    RequireAnyClientCert, VerifyClientCertIfGiven, RequireAndVerifyClientCert

\* checkForResumption of TLS 1.2.
LEMMA checkForResumption12Inv ==
  ASSUME TicketInv, checkForResumption12
  PROVE  TicketInv' /\ (srv'.pc = "complete" => ClientAuthOk')
<1> DEFINE s == IF srv.conf.ticketsDisabled THEN None ELSE decryptTicket(srv.hello.sessionTicket)
           full == [srv EXCEPT !.pc = "pickCipherSuite12"]
           resumed == [srv EXCEPT !.pc = "doResumeHandshake12", !.session = s, !.didResume = TRUE,
                         !.suite = s.suite, !.peer = s.peer, !.verified = s.verified,
                         !.ems = s.ems, !.curve = s.curve]
<1>0. DOMAIN srv = ServerFields /\ srv.pc = "checkForResumption12" /\ ServerTakes
  BY DEF TicketInv, Answered, checkForResumption12, ServerTakes
<1>1. \/ FailServerAfter(<<>>)
      \/ ServerSends(<<>>, full)
      \/ Resumable12(s) /\ ServerSends(<<>>, resumed)
  BY Zenon DEF checkForResumption12, ServerChecks
<1>2. s # None => Seen(s.peer, s.verified)
  BY <1>0, DecryptedSeen DEF TicketInv, Answered, ServerDone, HasTickets
<1> HIDE DEF s
<1>3. CASE FailServerAfter(<<>>)
  BY <1>0, <1>3, FailServerInv, ReplyQueues
<1>4. CASE ServerSends(<<>>, full)
  <2>1. SameClient
    BY <1>0, <1>4
    DEF SameClient, ServerSends, ServerKeeps, ServerFields, ServerDone, Undecided, Parameters,
        Decided, ShMade, Before13, TicketInv, Answered
  <2> QED
    BY <1>0, <1>4, <2>1, ServerGoesOn, ReplyQueues
<1>5. CASE Resumable12(s) /\ ServerSends(<<>>, resumed)
  <2>0. srv'.conf = srv.conf /\ cli' = cli
    BY <1>0, <1>5 DEF ServerSends, ServerKeeps, ServerFields, WithClientCert
  <2>1. Hellos(toServer)' /\ Replies(toClient)' /\ Kept'
    BY <2>0, <1>0, <1>5, ServerSendsInv, ReplyQueues
  <2>2. /\ DOMAIN srv' = ServerFields /\ srv'.conf = srv.conf /\ srv'.peer = s.peer
        /\ srv'.verified = s.verified /\ srv'.hello = srv.hello /\ srv'.sh = srv.sh
        /\ now' = now /\ srv'.pc = "doResumeHandshake12"
    BY <1>0, <1>5 DEF ServerSends, ServerKeeps, ServerFields
  <2>3. Seen(s.peer, s.verified) /\ ClientCertAcceptable(s)
    BY <1>2, <1>5 DEF Resumable12
  <2>4. Answered'
    BY <1>0, <2>0, <2>2, <2>3 DEF TicketInv, Answered, Seen, ServerDone, ShMade, Before13
  <2>5. ClientAuthOk'
    BY <2>2, <2>3, AcceptableMeets
  <2>6. Judged'
    BY <2>2, <2>5 DEF Judged, Undecided, Parameters
  <2> QED
    BY <2>1, <2>2, <2>4, <2>6 DEF TicketInv
<1> QED
  BY <1>1, <1>3, <1>4, <1>5

\* checkForResumption of TLS 1.3.
LEMMA checkForResumption13Inv ==
  ASSUME TicketInv, checkForResumption13
  PROVE  TicketInv' /\ (srv'.pc = "complete" => ClientAuthOk')
<1> DEFINE s == IF srv.conf.ticketsDisabled \/ ~srv.hello.pskDHE THEN None
                ELSE decryptTicket(srv.hello.psk)
           full == [srv EXCEPT !.pc = "pickCertificate13"]
           resumed == [full EXCEPT !.session = s, !.didResume = TRUE, !.peer = s.peer,
                                   !.verified = s.verified]
<1>0. DOMAIN srv = ServerFields /\ srv.pc = "checkForResumption13" /\ ServerTakes
  BY DEF TicketInv, Answered, checkForResumption13, ServerTakes
<1>1. \/ FailServerAfter(<<>>)
      \/ ServerSends(<<>>, full)
      \/ Resumable13(s) /\ ServerSends(<<>>, resumed)
  BY Zenon DEF checkForResumption13, ServerChecks
<1>2. s # None => Seen(s.peer, s.verified)
  BY <1>0, DecryptedSeen DEF TicketInv, Answered, ServerDone, HasTickets
<1> HIDE DEF s
<1>3. CASE FailServerAfter(<<>>)
  BY <1>0, <1>3, FailServerInv, ReplyQueues
<1>4. CASE ServerSends(<<>>, full)
  <2>0. srv'.conf = srv.conf /\ cli' = cli
    BY <1>0, <1>4 DEF ServerSends, ServerKeeps, ServerFields, WithClientCert
  <2>1. Hellos(toServer)' /\ Replies(toClient)' /\ Kept'
    BY <2>0, <1>0, <1>4, ServerSendsInv, ReplyQueues
  <2>2. /\ DOMAIN srv' = ServerFields /\ srv'.conf = srv.conf /\ srv'.peer = srv.peer
        /\ srv'.verified = srv.verified /\ srv'.hello = srv.hello
        /\ srv'.didResume = srv.didResume /\ srv'.pc = "pickCertificate13"
    BY <1>0, <1>4 DEF ServerSends, ServerFields
  <2>3. Answered'
    BY <1>0, <2>0, <2>2 DEF TicketInv, Answered, Seen, ServerDone, ShMade, Before13
  <2>4. Judged'
    BY <1>0, <2>2 DEF TicketInv, Judged, Undecided, Parameters, Decided
  <2> QED
    BY <2>1, <2>2, <2>3, <2>4 DEF TicketInv
<1>5. CASE Resumable13(s) /\ ServerSends(<<>>, resumed)
  <2>0. srv'.conf = srv.conf /\ cli' = cli
    BY <1>0, <1>5 DEF ServerSends, ServerKeeps, ServerFields, WithClientCert
  <2>1. Hellos(toServer)' /\ Replies(toClient)' /\ Kept'
    BY <2>0, <1>0, <1>5, ServerSendsInv, ReplyQueues
  <2>2. /\ DOMAIN srv' = ServerFields /\ srv'.conf = srv.conf /\ srv'.peer = s.peer
        /\ srv'.verified = s.verified /\ srv'.hello = srv.hello /\ srv'.didResume = TRUE
        /\ now' = now /\ srv'.pc = "pickCertificate13"
    BY <1>0, <1>5 DEF ServerSends, ServerKeeps, ServerFields
  <2>3. Seen(s.peer, s.verified) /\ ClientCertAcceptable(s)
    BY <1>2, <1>5 DEF Resumable13
  <2>4. Answered'
    BY <1>0, <2>0, <2>2, <2>3 DEF TicketInv, Answered, Seen, ServerDone, ShMade, Before13
  <2>5. ClientAuthOk'
    BY <2>2, <2>3, AcceptableMeets
  <2>6. Judged'
    BY <2>2, <2>5 DEF Judged, Undecided, Decided
  <2> QED
    BY <2>1, <2>2, <2>4, <2>6 DEF TicketInv
<1> QED
  BY <1>1, <1>3, <1>4, <1>5

\* A certificate that processCertsFromClient took meets the policy, once the
\* server asked for one.
LEMMA CertMeets ==
  ASSUME TicketInv, NEW cert, ClientCertOk(cert), srv.conf.clientAuth >= RequestClientCert,
         srv'.conf = srv.conf, now' = now, srv'.peer = cert,
         srv'.verified = (cert # None /\ srv.conf.clientAuth >= VerifyClientCertIfGiven)
  PROVE  ClientAuthOk' /\ Seen(srv.peer, srv.verified)'
<1>1. srv.conf \in ServerConfigs
  BY DEF TicketInv, Answered
<1>2. cert # None /\ srv.conf.clientAuth >= VerifyClientCertIfGiven =>
        /\ \E s \in ServerConfigs : cert.issuer \in s.clientCAs
        /\ now <= cert.notAfter
  BY <1>1 DEF ClientCertOk
<1>3. srv.conf.clientAuth # NoClientCert
  BY AuthType DEF NoClientCert, RequestClientCert
<1>4. ClientAuthOk'
  BY <1>2, <1>3 DEF ClientAuthOk, ClientCertOk
<1>5. Seen(srv.peer, srv.verified)'
  BY <1>2 DEF Seen
<1> QED
  BY <1>4, <1>5

\* The client's Certificate, in either version.
LEMMA ClientCertificateInv ==
  ASSUME TicketInv,
         \/ ServerReadCertificate12
         \/ ServerReadCertificate13
  PROVE  TicketInv' /\ (srv'.pc = "complete" => ClientAuthOk')
<1> DEFINE cert == FromClient.cert
           verified == cert # None /\ srv.conf.clientAuth >= VerifyClientCertIfGiven
           places == {"readKeyExchange12", "sendTickets13", "readCertificateVerify13"}
<1>0. DOMAIN srv = ServerFields /\ ServerTakes
      /\ srv.pc \in {"readCertificate12", "readCertificate13"}
  BY DEF TicketInv, Answered, ServerReadCertificate12, ServerReadCertificate13, ServerReads,
         ServerHasMessage, ServerTakes
<1>1. \/ FailServerAfter(<<>>)
      \/ /\ ClientCertOk(cert)
         /\ \E l \in places : ServerSends(<<>>, [WithClientCert(cert) EXCEPT !.pc = l])
  <2>1. CASE ServerReadCertificate12
    BY <2>1, Zenon DEF ServerReadCertificate12, ServerChecks
  <2>2. CASE ServerReadCertificate13
    BY <2>2, Zenon DEF ServerReadCertificate13, ServerChecks
  <2> QED
    BY <2>1, <2>2
<1>2. CASE FailServerAfter(<<>>)
  BY <1>0, <1>2, FailServerInv, ReplyQueues
<1>3. ASSUME ClientCertOk(cert), NEW l \in places,
             ServerSends(<<>>, [WithClientCert(cert) EXCEPT !.pc = l])
      PROVE  TicketInv' /\ (srv'.pc = "complete" => ClientAuthOk')
  <2>0. srv'.conf = srv.conf /\ cli' = cli
    BY <1>0, <1>3 DEF ServerSends, ServerKeeps, ServerFields, WithClientCert
  <2>1. Hellos(toServer)' /\ Replies(toClient)' /\ Kept'
    BY <2>0, <1>0, <1>3, ServerSendsInv, ReplyQueues
  <2>2. /\ DOMAIN srv' = ServerFields /\ srv'.conf = srv.conf /\ srv'.peer = cert
        /\ srv'.verified = verified /\ srv'.hello = srv.hello /\ now' = now /\ srv'.pc = l
    BY <1>0, <1>3 DEF WithClientCert, ServerSends, ServerKeeps, ServerFields
  <2>3. srv.conf.clientAuth >= RequestClientCert
    BY <1>0 DEF TicketInv, Judged
  <2> HIDE DEF cert
  <2>4. ClientAuthOk' /\ Seen(srv.peer, srv.verified)'
    BY <1>3, <2>2, <2>3, CertMeets
  <2>5. Answered'
    BY <1>0, <2>0, <2>2, <2>4 DEF TicketInv, Answered, ServerDone, ShMade, Before13
  <2>6. Judged'
    BY <2>2, <2>4 DEF Judged, Undecided, Parameters
  <2> QED
    BY <2>1, <2>2, <2>5, <2>6 DEF TicketInv
<1> QED
  BY <1>1, <1>2, <1>3

\* The first hello: the inner one, if a key of ours opens it.
LEMMA readClientHelloInv ==
  ASSUME TicketInv, readClientHello
  PROVE  TicketInv' /\ (srv'.pc = "complete" => ClientAuthOk')
<1> DEFINE hello == processECHClientHello(FromClient)
           vers == mutualVersion(srv.conf, FALSE, helloVersions(hello))
           place == IF vers = TLS13 THEN "process13" ELSE "process12"
<1>0. /\ DOMAIN srv = ServerFields /\ srv.pc = "readClientHello" /\ ServerTakes
      /\ HelloOk(FromClient)
  BY HelloQueues
  DEF TicketInv, Answered, readClientHello, ServerReads, ServerHasMessage, ServerTakes, FromClient
<1>1. \/ FailServerAfter(<<>>)
      \/ /\ FromClient.type = "clientHello"
         /\ vers # None
         /\ \E e : ServerSends(<<>>,
                     [srv EXCEPT !.hello = hello, !.outer = FromClient, !.vers = vers,
                                 !.keys = ticketKey, !.ech = e, !.pc = place])
  BY Zenon DEF readClientHello, ServerChecks
<1>2. FromClient.type = "clientHello" => Fits(hello)
  BY <1>0 DEF HelloOk, Offers, processECHClientHello
<1> HIDE DEF hello
<1>20. FromClient.type = "clientHello" /\ vers # None =>
         Answer(cli.conf, srv.conf, vers) /\ (place = "process13" => Speaks(srv.conf, FALSE, TLS13))
  <2>1. FromClient.type = "clientHello" /\ vers # None => Answer(cli.conf, srv.conf, vers)
    BY <1>2, AnswerChosen DEF Fits
  <2>2. place = "process13" => vers = TLS13
    OBVIOUS
  <2> HIDE DEF vers, place
  <2> QED
    BY <2>1, <2>2, Zenon DEF Answer
<1>21. place \in {"process12", "process13"}
  OBVIOUS
<1> HIDE DEF vers, place
<1>3. CASE FailServerAfter(<<>>)
  BY <1>0, <1>3, FailServerInv, ReplyQueues
<1>4. ASSUME FromClient.type = "clientHello", vers # None, NEW e,
             ServerSends(<<>>, [srv EXCEPT !.hello = hello, !.outer = FromClient, !.vers = vers,
                                           !.keys = ticketKey, !.ech = e, !.pc = place])
      PROVE  TicketInv' /\ (srv'.pc = "complete" => ClientAuthOk')
  <2>0. srv'.conf = srv.conf /\ cli' = cli
    BY <1>0, <1>4 DEF ServerSends, ServerKeeps, ServerFields, WithClientCert
  <2>1. Hellos(toServer)' /\ Replies(toClient)' /\ Kept'
    BY <2>0, <1>0, <1>4, ServerSendsInv, ReplyQueues
  <2>2. /\ DOMAIN srv' = ServerFields /\ srv'.conf = srv.conf /\ srv'.peer = srv.peer
        /\ srv'.verified = srv.verified /\ srv'.hello = hello
        /\ srv'.didResume = srv.didResume /\ srv'.pc = place /\ srv'.vers = vers
    BY <1>0, <1>4 DEF ServerSends, ServerFields
  <2>3. Answered'
    BY <1>2, <1>4, <1>20, <1>21, <2>0, <2>2 DEF TicketInv, Answered, Seen, Fits, ShMade, Before13
  <2>4. Judged'
    BY <1>0, <1>21, <2>2 DEF TicketInv, Judged, Undecided, Parameters, Decided
  <2> QED
    BY <1>21, <2>1, <2>2, <2>3, <2>4 DEF TicketInv
<1> QED
  BY <1>1, <1>3, <1>4, Zenon

\* The second hello, after a HelloRetryRequest.
LEMMA ReadSecondClientHello13Inv ==
  ASSUME TicketInv, ReadSecondClientHello13
  PROVE  TicketInv' /\ (srv'.pc = "complete" => ClientAuthOk')
<1> DEFINE hello == IF srv.ech = None THEN FromClient ELSE FromClient.ech.inner
<1>0. /\ DOMAIN srv = ServerFields /\ srv.pc = "readSecondHello13" /\ ServerTakes
      /\ HelloOk(FromClient)
  BY HelloQueues
  DEF TicketInv, Answered, ReadSecondClientHello13, ServerReads, ServerHasMessage, ServerTakes,
      FromClient
<1>1. \/ FailServerAfter(<<>>)
      \/ /\ FromClient.type = "clientHello"
         /\ srv.ech # None => FromClient.ech \notin {NoECH, InnerECH}
         /\ ServerSends(<<>>, [srv EXCEPT !.hello = hello, !.didHRR = TRUE, !.pc = "negotiate13"])
  BY Zenon DEF ReadSecondClientHello13, ServerChecks
<1>2. CASE FailServerAfter(<<>>)
  BY <1>0, <1>2, FailServerInv, ReplyQueues
<1>3. CASE /\ FromClient.type = "clientHello"
           /\ srv.ech # None => FromClient.ech \notin {NoECH, InnerECH}
           /\ ServerSends(<<>>, [srv EXCEPT !.hello = hello, !.didHRR = TRUE, !.pc = "negotiate13"])
  <2>1. HasTickets(hello)
    BY <1>0, <1>3 DEF HelloOk, Offers, Fits
  <2> HIDE DEF hello
  <2>0. srv'.conf = srv.conf /\ cli' = cli
    BY <1>0, <1>3 DEF ServerSends, ServerKeeps, ServerFields, WithClientCert
  <2>2. Hellos(toServer)' /\ Replies(toClient)' /\ Kept'
    BY <2>0, <1>0, <1>3, ServerSendsInv, ReplyQueues
  <2>3. /\ DOMAIN srv' = ServerFields /\ srv'.conf = srv.conf /\ srv'.peer = srv.peer
        /\ srv'.verified = srv.verified /\ srv'.hello = hello
        /\ srv'.didResume = srv.didResume /\ srv'.pc = "negotiate13"
    BY <1>0, <1>3 DEF ServerSends, ServerFields
  <2>4. Answered'
    BY <1>0, <2>0, <2>1, <2>3 DEF TicketInv, Answered, Seen, ShMade, Before13
  <2>5. Judged'
    BY <1>0, <2>3 DEF TicketInv, Judged, Undecided, Parameters, Decided
  <2> QED
    BY <2>2, <2>3, <2>4, <2>5 DEF TicketInv
<1> QED
  BY <1>1, <1>2, <1>3

\* The server's next-state relation keeps the invariant, and a server that
\* completes has had its policy met.
LEMMA ServerNextInv ==
  ASSUME TicketInv, ServerNext
  PROVE  TicketInv' /\ (srv'.pc = "complete" => ClientAuthOk')
<1>1. CASE ServerReadsAlert
  <2>1. FailServerAfter(<<>>) /\ ServerTakes
    BY <1>1 DEF ServerReadsAlert, ServerTakes
  <2> QED
    BY <2>1, FailServerInv, ReplyQueues
<1>2. CASE readClientHello
  BY <1>2, readClientHelloInv
<1>3. CASE ServerStep12
  BY <1>3, processClientHello12Inv, checkForResumption12Inv, doResumeHandshake12Inv,
     PlainServerStepsInv, sendFlight12Inv, ClientCertificateInv, ServerReadFinished12Inv
  DEF ServerStep12
<1>4. CASE ServerStep13
  BY <1>4, processClientHello13Inv, ReadSecondClientHello13Inv, checkForResumption13Inv,
     PlainServerStepsInv, sendServerParametersInv, sendServerCertificateInv,
     sendServerFinishedInv, ClientCertificateInv, sendSessionTicketsInv
  DEF ServerStep13
<1> QED
  BY <1>1, <1>2, <1>3, <1>4 DEF ServerNext

-----------------------------------------------------------------------------
(* The client's steps *)

\* The client has read a message, or not.
ClientTakes == toClient' = toClient \/ (toClient # <<>> /\ toClient' = Tail(toClient))

\* What a client leaves alone: the server, the clock and its Config.
Apart == UNCHANGED <<srv, now>> /\ cli'.conf = cli.conf

\* A step that takes nothing from a ticket and sends no hello.
ClientQuiet ==
  /\ cli'.ticket = cli.ticket
  /\ cache' \in {cache, None}
  /\ cli'.conf = cli.conf
  /\ Beyond(cli'.pc) => Beyond(cli.pc) /\ cli'.vers = cli.vers
  /\ cli'.pc \in Greeting => /\ cli.pc \in Greeting /\ cli'.hello = cli.hello
                             /\ cli'.inner = cli.inner
  /\ Hellos(toServer)'

\* The server's side of the invariant needs the server and the clock.
LEMMA ApartInv ==
  ASSUME TicketInv, Apart
  PROVE  Answered' /\ Judged'
<1>1. Answered'
  BY DEF TicketInv, Apart, Answered, Seen, ServerDone, HasTickets, Sealed, ShMade, Before13
<1>2. ClientAuthOk => ClientAuthOk'
  BY DEF Apart, ClientAuthOk
<1>3. Judged'
  BY <1>2 DEF TicketInv, Apart, Judged
<1> QED
  BY <1>1, <1>3

\* What a client reads leaves a queue as it should be.
LEMMA ClientTakesInv ==
  ASSUME TicketInv, ClientTakes, Apart
  PROVE  Replies(toClient)'
<1>1. Replies(toClient')
  BY ReplyQueues DEF TicketInv, ClientTakes
<1> QED
  BY <1>1, ReplyQueuesKept DEF Apart

\* A quiet step.
LEMMA ClientQuietInv ==
  ASSUME TicketInv, ClientQuiet, ClientTakes, Apart
  PROVE  TicketInv'
<1>1. Kept'
  BY DEF TicketInv, Kept, ClientQuiet, UsesECH, Offers, Fits, Apart
<1> QED
  BY <1>1, ApartInv, ClientTakesInv DEF TicketInv, ClientQuiet

\* Messages of the client that are no hello.
LEMMA PlainFromClient ==
  /\ HelloOk(Alert)
  /\ \A c : HelloOk(Certificate(c))
  /\ \A s : HelloOk(CertificateVerify(s))
  /\ \A e : HelloOk(ClientKeyExchange(e))
  /\ \A s, f, t : HelloOk(Finished(s, f, t))
BY DEF HelloOk, Alert, Certificate, CertificateVerify, ClientKeyExchange, Finished

\* An error of the client.
LEMMA ClientFailsInv ==
  ASSUME ClientInv, TicketInv, NEW e, FailClient(e), ClientTakes, srv' = srv
  PROVE  TicketInv'
<1>1. Hellos(toServer')
  BY HelloQueues, PlainFromClient DEF TicketInv, FailClient
<1>2. /\ cli'.ticket = cli.ticket /\ cli'.pc = "failed" /\ cache' \in {cache, None} /\ now' = now
      /\ cli'.conf = cli.conf
  BY DEF FailClient, ClientInv, Configured, ClientFields
<1>3. ClientQuiet
  BY <1>1, <1>2, HelloQueuesKept DEF ClientQuiet, Greeting, Beyond
<1> QED
  BY <1>2, <1>3, ClientQuietInv DEF Apart

\* A client that goes on and sends nothing.
GoesQuietly ==
  /\ UNCHANGED <<toServer, cache, now>>
  /\ cli'.ticket = cli.ticket
  /\ cli'.conf = cli.conf
  /\ Beyond(cli'.pc) => Beyond(cli.pc) /\ cli'.vers = cli.vers
  /\ cli'.pc \in Greeting => /\ cli.pc \in Greeting /\ cli'.hello = cli.hello
                             /\ cli'.inner = cli.inner

\* Such a step keeps the invariant.
LEMMA GoesQuietlyInv ==
  ASSUME TicketInv, GoesQuietly, ClientTakes, srv' = srv
  PROVE  TicketInv'
<1>1. ClientQuiet
  BY HelloQueuesKept DEF ClientQuiet, GoesQuietly, TicketInv
<1> QED
  BY <1>1, ClientQuietInv DEF GoesQuietly, Apart

\* The steps of TLS 1.3 that only read, check and go on.
LEMMA QuietSteps13 ==
  ASSUME ClientInv, TicketInv, srv' = srv,
         \/ checkServerHelloOrHRR \/ ReadSecondServerHello
         \/ processServerHello13 \/ readServerParameters \/ ReadCertificateRequest13
         \/ ReadServerCertificate13 \/ ReadCertificateVerify13 \/ readServerFinished
  PROVE  TicketInv'
<1>0. DOMAIN cli = ClientFields
  BY DEF ClientInv, Configured
<1>00. ClientTakes
  BY DEF ClientTakes, checkServerHelloOrHRR, ReadSecondServerHello,
         processServerHello13, readServerParameters, ReadCertificateRequest13,
         ReadServerCertificate13, ReadCertificateVerify13, readServerFinished, ClientReads,
         ClientHasMessage
<1> SUFFICES FailClient("refused") \/ GoesQuietly
  BY <1>00, ClientFailsInv, GoesQuietlyInv
<1> USE DEF ClientFields, Greeting, Beyond
<1>1. CASE checkServerHelloOrHRR
  <2>1. /\ cli.pc = "check13"
        /\ \/ FailClient("refused")
           \/ \E u, t, i, l : 
                /\ l \in {"retry13", "process13"}
                /\ ClientGoes([cli EXCEPT !.suite = u, !.transcript = t, !.innerTranscript = i,
                                      !.pc = l])
    BY <1>1, Zenon DEF checkServerHelloOrHRR, ClientReads, ClientChecks
  <2>2. ASSUME NEW u, NEW t, NEW i, NEW l \in {"retry13", "process13"},
               ClientGoes([cli EXCEPT !.suite = u, !.transcript = t, !.innerTranscript = i,
                                      !.pc = l])
        PROVE  GoesQuietly
    BY <1>0, <2>1, <2>2 DEF ClientGoes, GoesQuietly
  <2> QED
    BY <2>1, <2>2
<1>2. CASE ReadSecondServerHello
  <2>1. /\ cli.pc = "readSecondServerHello"
        /\ \/ FailClient("refused")
           \/ \E m : 
                ClientGoes([cli EXCEPT !.sh = m, !.pc = "check13"])
    BY <1>2, Zenon DEF ReadSecondServerHello, ClientReads, ClientChecks
  <2>2. ASSUME NEW m,
               ClientGoes([cli EXCEPT !.sh = m, !.pc = "check13"])
        PROVE  GoesQuietly
    BY <1>0, <2>1, <2>2 DEF ClientGoes, GoesQuietly
  <2> QED
    BY <2>1, <2>2
<1>3. CASE processServerHello13
  <2> DEFINE sh == cli.sh
             accepted == UsesECH /\ ConfirmsECH(sh)
             hello == IF accepted THEN cli.inner ELSE cli.hello
             resumes == sh.psk
             cert == IF resumes THEN cli.session.cert ELSE cli.cert
             verified == IF resumes THEN cli.session.verified ELSE cli.verified
             a == cli.echAccepted \/ accepted
             b == UsesECH /\ ~accepted
             seen == Append(IF accepted THEN cli.innerTranscript ELSE cli.transcript, sh)
             name == IF accepted THEN ServerName ELSE cli.serverName
             u == Secret13(IF resumes THEN cli.session.secret ELSE None, sh.serverShare)
             c == sh.serverShare
  <2>1. \/ FailClient("refused")
        \/ ClientGoes([cli EXCEPT !.pc = "readEncryptedExtensions", !.hello = hello,
                         !.transcript = seen, !.serverName = name, !.echAccepted = a,
                         !.echRejected = b, !.curve = c, !.secret = u,
                         !.usingPSK = resumes, !.didResume = resumes,
                         !.cert = cert, !.verified = verified])
    BY <1>3 DEF processServerHello13, ClientChecks
  <2> HIDE DEF hello, cert, verified, a, b, seen, name, u, c, resumes
  <2>2. CASE ClientGoes([cli EXCEPT !.pc = "readEncryptedExtensions", !.hello = hello,
                          !.transcript = seen, !.serverName = name, !.echAccepted = a,
                          !.echRejected = b, !.curve = c, !.secret = u,
                          !.usingPSK = resumes, !.didResume = resumes,
                          !.cert = cert, !.verified = verified])
    <3>1. /\ cli'.ticket = cli.ticket /\ cli'.pc = "readEncryptedExtensions"
          /\ cli'.conf = cli.conf /\ cli'.vers = cli.vers /\ cli.pc = "process13"
      BY <1>0, <1>3, <2>2 DEF ClientGoes, processServerHello13
    <3> QED
      BY <2>2, <3>1 DEF ClientGoes, GoesQuietly
  <2> QED
    BY <2>1, <2>2
<1>4. CASE readServerParameters
  <2>1. /\ cli.pc = "readEncryptedExtensions"
        /\ \/ FailClient("refused")
           \/ \E a, r, t, l : 
                /\ l \in {"readFinished13", "readCertificate13"}
                /\ ClientGoes([cli EXCEPT !.alpn = a, !.retryConfigs = r, !.transcript = t,
                                      !.pc = l])
    BY <1>4, Zenon DEF readServerParameters, ClientReads, ClientChecks
  <2>2. ASSUME NEW a, NEW r, NEW t, NEW l \in {"readFinished13", "readCertificate13"},
               ClientGoes([cli EXCEPT !.alpn = a, !.retryConfigs = r, !.transcript = t,
                                      !.pc = l])
        PROVE  GoesQuietly
    BY <1>0, <2>1, <2>2 DEF ClientGoes, GoesQuietly
  <2> QED
    BY <2>1, <2>2
<1>5. CASE ReadCertificateRequest13
  <2>1. /\ cli.pc = "readCertificate13"
        /\ \E c, t : 
                ClientGoes([cli EXCEPT !.certReq = c, !.transcript = t])
    BY <1>5, Zenon DEF ReadCertificateRequest13, ClientReads
  <2>2. ASSUME NEW c, NEW t,
               ClientGoes([cli EXCEPT !.certReq = c, !.transcript = t])
        PROVE  GoesQuietly
    BY <1>0, <2>1, <2>2 DEF ClientGoes, GoesQuietly
  <2> QED
    BY <2>1, <2>2
<1>6. CASE ReadServerCertificate13
  <2>1. /\ cli.pc = "readCertificate13"
        /\ \/ FailClient("refused")
           \/ \E c, v, t : 
                ClientGoes([cli EXCEPT !.cert = c, !.verified = v, !.transcript = t,
                                      !.pc = "readCertificateVerify13"])
    BY <1>6, Zenon DEF ReadServerCertificate13, ClientReads, ClientChecks
  <2>2. ASSUME NEW c, NEW v, NEW t,
               ClientGoes([cli EXCEPT !.cert = c, !.verified = v, !.transcript = t,
                                      !.pc = "readCertificateVerify13"])
        PROVE  GoesQuietly
    BY <1>0, <2>1, <2>2 DEF ClientGoes, GoesQuietly
  <2> QED
    BY <2>1, <2>2
<1>7. CASE ReadCertificateVerify13
  <2>1. /\ cli.pc = "readCertificateVerify13"
        /\ \/ FailClient("refused")
           \/ \E t : 
                ClientGoes([cli EXCEPT !.transcript = t, !.pc = "readFinished13"])
    BY <1>7, Zenon DEF ReadCertificateVerify13, ClientReads, ClientChecks
  <2>2. ASSUME NEW t,
               ClientGoes([cli EXCEPT !.transcript = t, !.pc = "readFinished13"])
        PROVE  GoesQuietly
    BY <1>0, <2>1, <2>2 DEF ClientGoes, GoesQuietly
  <2> QED
    BY <2>1, <2>2
<1>8. CASE readServerFinished
  <2>1. /\ cli.pc = "readFinished13"
        /\ \/ FailClient("refused")
           \/ \E t : 
                ClientGoes([cli EXCEPT !.transcript = t, !.pc = "sendCertificate13"])
    BY <1>8, Zenon DEF readServerFinished, ClientReads, ClientChecks
  <2>2. ASSUME NEW t,
               ClientGoes([cli EXCEPT !.transcript = t, !.pc = "sendCertificate13"])
        PROVE  GoesQuietly
    BY <1>0, <2>1, <2>2 DEF ClientGoes, GoesQuietly
  <2> QED
    BY <2>1, <2>2
<1> QED
  BY <1>1, <1>2, <1>3, <1>4, <1>5, <1>6, <1>7, <1>8

\* The ServerHello: the version that the client takes from it is the best one.
LEMMA ServerHelloInv ==
  ASSUME ClientInv, TicketInv, srv' = srv, ClientReadServerHello
  PROVE  TicketInv'
<1> DEFINE vers == pickTLSVersion(FromServer)
           place == IF vers = TLS13 THEN "check13" ELSE "process12"
<1>0. /\ DOMAIN cli = ClientFields /\ cli.pc = "readServerHello" /\ ClientTakes
      /\ ReplyOk(FromServer)
  BY ReplyQueues
  DEF ClientInv, Configured, ClientReadServerHello, ClientReads, ClientHasMessage, ClientTakes,
      TicketInv, FromServer
<1>1. \/ FailClient("refused")
      \/ /\ FromServer.type = "serverHello" /\ vers # None
         /\ ~downgradeDetected(vers, FromServer.canary)
         /\ ClientGoes([cli EXCEPT !.sh = FromServer, !.vers = vers, !.pc = place])
  BY Zenon DEF ClientReadServerHello, ClientChecks
<1>2. CASE FailClient("refused")
  BY <1>0, <1>2, ClientFailsInv
<1>3. CASE /\ FromServer.type = "serverHello" /\ vers # None
           /\ ~downgradeDetected(vers, FromServer.canary)
           /\ ClientGoes([cli EXCEPT !.sh = FromServer, !.vers = vers, !.pc = place])
  <2>1. vers = BestVersion(cli.conf, srv.conf)
    BY <1>0, <1>3, NotTalkedDown DEF ReplyOk
  <2> HIDE DEF vers
  <2>2. /\ cli'.conf = cli.conf /\ cli'.vers = vers /\ cli'.ticket = cli.ticket
        /\ cli'.hello = cli.hello /\ cli'.inner = cli.inner
        /\ UNCHANGED <<toServer, cache, now>>
    BY <1>0, <1>3 DEF ClientGoes, ClientFields
  <2>3. Kept'
    BY <1>0, <2>1, <2>2 DEF TicketInv, Kept, Greeting, Offers, Fits, UsesECH
  <2> QED
    BY <1>0, <2>2, <2>3, ApartInv, ClientTakesInv, HelloQueuesKept DEF TicketInv, Apart
<1> QED
  BY <1>1, <1>2, <1>3

\* The steps of TLS 1.0 to 1.2 that only read, check and go on.
LEMMA QuietSteps12 ==
  ASSUME ClientInv, TicketInv, srv' = srv,
         \/ processServerHello12 \/ ReadServerCertificate12 \/ ReadCertificateStatus12
         \/ VerifyServerCertificate12 \/ ReadServerKeyExchange12 \/ ReadCertificateRequest12
  PROVE  TicketInv'
<1>0. DOMAIN cli = ClientFields
  BY DEF ClientInv, Configured
<1>00. ClientTakes
  BY DEF ClientTakes, processServerHello12, ReadServerCertificate12, ReadCertificateStatus12,
         VerifyServerCertificate12, ReadServerKeyExchange12, ReadCertificateRequest12,
         ClientReads, ClientHasMessage
<1> SUFFICES FailClient("refused") \/ GoesQuietly
  BY <1>00, ClientFailsInv, GoesQuietlyInv
<1> USE DEF ClientFields, Greeting, Beyond
<1>1. CASE processServerHello12
  <2> DEFINE sh == cli.sh
             first == <<cli.hello, sh>>
             full == [cli EXCEPT !.suite = sh.suite, !.alpn = sh.alpn, !.pc = "readCertificate12",
                                 !.transcript = first]
             again == [full EXCEPT !.didResume = TRUE, !.pc = "readTicket12",
                         !.secret = cli.session.secret, !.ems = cli.session.ems,
                         !.cert = cli.session.cert, !.verified = cli.session.verified,
                         !.curve = cli.session.curve]
  <2>1. FailClient("refused") \/ ClientGoes(full) \/ ClientGoes(again)
    BY <1>1, Zenon DEF processServerHello12, ClientChecks
  <2> HIDE DEF first
  <2>2. /\ DOMAIN full = ClientFields /\ full.ticket = cli.ticket /\ full.pc = "readCertificate12"
        /\ full.conf = cli.conf /\ full.vers = cli.vers
    BY <1>0
  <2> HIDE DEF full
  <2>3. /\ again.ticket = cli.ticket /\ again.pc = "readTicket12"
        /\ again.conf = cli.conf /\ again.vers = cli.vers
    BY <2>2
  <2> HIDE DEF again
  <2>4. cli.pc = "process12"
    BY <1>1 DEF processServerHello12
  <2> QED
    BY <2>1, <2>2, <2>3, <2>4 DEF ClientGoes, GoesQuietly
<1>2. CASE ReadServerCertificate12
  <2>1. /\ cli.pc = "readCertificate12"
        /\ \/ FailClient("refused")
           \/ \E c, t : 
                ClientGoes([cli EXCEPT !.cert = c, !.transcript = t, !.pc = "readStatus12"])
    BY <1>2, Zenon DEF ReadServerCertificate12, ClientReads, ClientChecks
  <2>2. ASSUME NEW c, NEW t,
               ClientGoes([cli EXCEPT !.cert = c, !.transcript = t, !.pc = "readStatus12"])
        PROVE  GoesQuietly
    BY <1>0, <2>1, <2>2 DEF ClientGoes, GoesQuietly
  <2> QED
    BY <2>1, <2>2
<1>3. CASE ReadCertificateStatus12
  <2>1. /\ cli.pc = "readStatus12"
        /\ \/ FailClient("refused")
           \/ ClientGoes([cli EXCEPT !.pc = "verify12"])
           \/ \E t : ClientGoes([cli EXCEPT !.transcript = t, !.pc = "verify12"])
    BY <1>3 DEF ReadCertificateStatus12, ClientChecks
  <2>2. CASE ClientGoes([cli EXCEPT !.pc = "verify12"])
    BY <1>0, <2>1, <2>2 DEF ClientGoes, GoesQuietly
  <2>3. ASSUME NEW t,
               ClientGoes([cli EXCEPT !.transcript = t, !.pc = "verify12"])
        PROVE  GoesQuietly
    BY <1>0, <2>1, <2>3 DEF ClientGoes, GoesQuietly
  <2> QED
    BY <2>1, <2>2, <2>3
<1>4. CASE VerifyServerCertificate12
  <2>1. /\ cli.pc = "verify12"
        /\ \/ FailClient("refused")
           \/ \E v : ClientGoes([cli EXCEPT !.verified = v, !.pc = "readKeyExchange12"])
    BY <1>4, Zenon DEF VerifyServerCertificate12, ClientChecks
  <2>2. ASSUME NEW v, ClientGoes([cli EXCEPT !.verified = v, !.pc = "readKeyExchange12"])
        PROVE  GoesQuietly
    BY <1>0, <2>1, <2>2 DEF ClientGoes, GoesQuietly
  <2> QED
    BY <2>1, <2>2
<1>5. CASE ReadServerKeyExchange12
  <2>1. /\ cli.pc = "readKeyExchange12"
        /\ \/ FailClient("refused")
           \/ ClientGoes([cli EXCEPT !.pc = "readRequest12"])
           \/ \E c, t : ClientGoes([cli EXCEPT !.curve = c, !.transcript = t, !.pc = "readRequest12"])
    BY <1>5 DEF ReadServerKeyExchange12, ClientChecks
  <2>2. CASE ClientGoes([cli EXCEPT !.pc = "readRequest12"])
    BY <1>0, <2>1, <2>2 DEF ClientGoes, GoesQuietly
  <2>3. ASSUME NEW c, NEW t,
               ClientGoes([cli EXCEPT !.curve = c, !.transcript = t, !.pc = "readRequest12"])
        PROVE  GoesQuietly
    BY <1>0, <2>1, <2>3 DEF ClientGoes, GoesQuietly
  <2> QED
    BY <2>1, <2>2, <2>3
<1>6. CASE ReadCertificateRequest12
  <2>1. /\ cli.pc = "readRequest12"
        /\ \/ ClientGoes([cli EXCEPT !.pc = "readHelloDone12"])
           \/ \E c, t : ClientGoes([cli EXCEPT !.certReq = c, !.transcript = t, !.pc = "readHelloDone12"])
    BY <1>6 DEF ReadCertificateRequest12
  <2>2. CASE ClientGoes([cli EXCEPT !.pc = "readHelloDone12"])
    BY <1>0, <2>1, <2>2 DEF ClientGoes, GoesQuietly
  <2>3. ASSUME NEW c, NEW t,
               ClientGoes([cli EXCEPT !.certReq = c, !.transcript = t, !.pc = "readHelloDone12"])
        PROVE  GoesQuietly
    BY <1>0, <2>1, <2>3 DEF ClientGoes, GoesQuietly
  <2> QED
    BY <2>1, <2>2, <2>3
<1> QED
  BY <1>1, <1>2, <1>3, <1>4, <1>5, <1>6

\* The steps that send messages other than hellos.
LEMMA sendClientCertificateInv ==
  ASSUME ClientInv, TicketInv, srv' = srv, sendClientCertificate
  PROVE  TicketInv'
<1> DEFINE req == cli.certReq
           cert == IF cli.echRejected THEN None
                   ELSE getClientCertificate(cli.conf, TLS13, req.algs, req.cas)
           before == Append(cli.transcript, Certificate(cert))
           verify == CertificateVerify(
                       Signature(cert, selectSignatureScheme(TLS13, cert, req.algs), before))
           rest == IF cert = None THEN <<>> ELSE <<verify>>
           flight == <<Certificate(cert)>> \o rest
           seen == transcriptMsg(cli.transcript, flight)
<1>0. DOMAIN cli = ClientFields /\ ClientTakes /\ cli.pc = "sendCertificate13"
  BY DEF ClientInv, Configured, sendClientCertificate, ClientTakes
<1>1. \/ ClientGoes([cli EXCEPT !.pc = "sendFinished13"])
      \/ /\ cli' = [cli EXCEPT !.transcript = seen, !.pc = "sendFinished13"]
         /\ toServer' = toServer \o flight
         /\ UNCHANGED <<cache, now>>
  BY Zenon DEF sendClientCertificate
<1>2. Hellos(flight)
  <2>1. HelloOk(Certificate(cert)) /\ HelloOk(verify)
    BY PlainFromClient
  <2> HIDE DEF cert, verify
  <2>2. Hellos(rest)
    BY <2>1, HelloQueues
  <2> HIDE DEF rest
  <2> QED
    BY <2>1, <2>2, HelloQueues
<1> HIDE DEF flight, seen
<1>3. CASE ClientGoes([cli EXCEPT !.pc = "sendFinished13"])
  <2>1. GoesQuietly
    BY <1>0, <1>3 DEF ClientGoes, GoesQuietly, ClientFields, Greeting, Beyond
  <2> QED
    BY <1>0, <2>1, GoesQuietlyInv
<1>4. CASE /\ cli' = [cli EXCEPT !.transcript = seen, !.pc = "sendFinished13"]
           /\ toServer' = toServer \o flight
           /\ UNCHANGED <<cache, now>>
  <2>1. Hellos(toServer')
    BY <1>2, <1>4, HelloQueues DEF TicketInv
  <2>2. /\ cli'.ticket = cli.ticket /\ cli'.pc = "sendFinished13"
        /\ cli'.conf = cli.conf /\ cli'.vers = cli.vers
    BY <1>0, <1>4 DEF ClientFields
  <2>3. ClientQuiet
    BY <1>0, <1>4, <2>1, <2>2, HelloQueuesKept DEF ClientQuiet, Greeting, Beyond
  <2> QED
    BY <1>0, <1>4, <2>2, <2>3, ClientQuietInv DEF Apart
<1> QED
  BY <1>1, <1>3, <1>4

\* The Finished of a TLS 1.3 client.
LEMMA ClientFinishedInv ==
  ASSUME ClientInv, TicketInv, srv' = srv, sendClientFinished
  PROVE  TicketInv'
<1> DEFINE msg == Finished(cli.secret, "client", cli.transcript)
           seen == transcriptMsg(cli.transcript, <<msg>>)
<1>0. DOMAIN cli = ClientFields /\ ClientTakes /\ now' = now /\ cli.pc = "sendFinished13"
  BY DEF ClientInv, Configured, sendClientFinished, ClientTakes
<1>1. \/ /\ cli' = [cli EXCEPT !.transcript = seen, !.pc = "failed", !.err = "ech"]
         /\ toServer' = toServer \o <<msg, Alert>>
         /\ cache' \in {cache, None}
      \/ /\ cli' = [cli EXCEPT !.transcript = seen, !.pc = "complete"]
         /\ toServer' = Append(toServer, msg)
         /\ cache' = cache
  BY DEF sendClientFinished
<1>2. HelloOk(msg) /\ HelloOk(Alert)
  BY PlainFromClient
<1> HIDE DEF msg, seen
<1>3. Hellos(<<msg, Alert>>)
  <2> DEFINE S == {msg, Alert}
  <2>1. msg \in S /\ Alert \in S /\ \A m \in S : HelloOk(m)
    BY <1>2
  <2> HIDE DEF S
  <2>2. <<msg, Alert>> \in Seq(S)
    BY <2>1
  <2> QED
    BY <2>1, <2>2, QueueOf DEF Hellos
<1>4. Hellos(toServer')
  <2>1. Hellos(toServer \o <<msg, Alert>>)
    BY <1>3, HelloQueues DEF TicketInv
  <2>2. Hellos(Append(toServer, msg))
    BY <1>2, HelloQueues DEF TicketInv
  <2>3. toServer' = toServer \o <<msg, Alert>> \/ toServer' = Append(toServer, msg)
    BY <1>1
  <2> QED
    BY <2>1, <2>2, <2>3, Zenon
<1>5. /\ cli'.ticket = cli.ticket /\ cli'.pc \in {"failed", "complete"}
      /\ cli'.conf = cli.conf /\ cli'.vers = cli.vers
  BY <1>0, <1>1 DEF ClientFields
<1>6. ClientQuiet
  BY <1>0, <1>1, <1>4, <1>5, HelloQueuesKept DEF ClientQuiet, Greeting, Beyond
<1> QED
  BY <1>0, <1>5, <1>6, ClientQuietInv DEF Apart

\* The second flight of a TLS 1.0-1.2 client.
LEMMA HelloDoneInv ==
  ASSUME ClientInv, TicketInv, srv' = srv, ReadServerHelloDone12
  PROVE  TicketInv'
<1> DEFINE req == cli.certReq
           cert == IF req = None THEN None
                   ELSE getClientCertificate(cli.conf, cli.vers, requestedSchemes(req), req.cas)
           exchange == IF "ECDHE" \in Flags(cli.suite) THEN cli.curve ELSE "RSA"
           afterDone == Append(cli.transcript, FromServer)
           shown == IF req = None THEN <<>> ELSE <<Certificate(cert)>>
           key == <<ClientKeyExchange(exchange)>>
           first == shown \o key
           secret == masterSecret(cli.sh.ems, exchange, afterDone \o first)
           alg == CASE cert = None -> None
                    [] cert # None /\ cli.vers >= TLS12 ->
                         selectSignatureScheme(cli.vers, cert, req.algs)
                    [] OTHER -> legacySigType(cert.key)
           sig == CertificateVerify(Signature(cert, alg, afterDone \o first))
           verify == IF cert = None THEN <<>> ELSE <<sig>>
           signed == transcriptMsg(afterDone \o first, verify)
           finished == Finished(secret, "client", signed)
           seen == transcriptMsg(signed, <<finished>>)
<1>0. DOMAIN cli = ClientFields /\ ClientTakes /\ cli.pc = "readHelloDone12"
  BY DEF ClientInv, Configured, ReadServerHelloDone12, ClientReads, ClientHasMessage, ClientTakes
<1>1. \/ FailClient("refused")
      \/ /\ cli' = [cli EXCEPT !.secret = secret, !.ems = cli.sh.ems, !.transcript = seen,
                               !.pc = "readTicket12"]
         /\ toServer' = toServer \o first \o verify \o <<finished>>
         /\ UNCHANGED <<cache, now>>
  BY Zenon DEF ReadServerHelloDone12
<1>2. /\ HelloOk(Certificate(cert)) /\ HelloOk(ClientKeyExchange(exchange))
      /\ HelloOk(sig) /\ HelloOk(finished)
  BY PlainFromClient
<1> HIDE DEF cert, exchange, sig, finished, secret, seen
<1>3. Hellos(shown) /\ Hellos(key) /\ Hellos(verify) /\ Hellos(<<finished>>)
  BY <1>2, HelloQueues
<1> HIDE DEF shown, key, verify
<1>4. Hellos(first)
  BY <1>3, HelloQueues
<1> HIDE DEF first
<1>5. CASE FailClient("refused")
  BY <1>0, <1>5, ClientFailsInv
<1>6. CASE /\ cli' = [cli EXCEPT !.secret = secret, !.ems = cli.sh.ems, !.transcript = seen,
                                 !.pc = "readTicket12"]
           /\ toServer' = toServer \o first \o verify \o <<finished>>
           /\ UNCHANGED <<cache, now>>
  <2>1. Hellos(toServer')
    <3>1. Hellos(toServer \o first)
      BY <1>4, HelloQueues DEF TicketInv
    <3>2. Hellos(toServer \o first \o verify)
      BY <1>3, <3>1, HelloQueues
    <3> QED
      BY <1>3, <1>6, <3>2, HelloQueues
  <2>2. /\ cli'.ticket = cli.ticket /\ cli'.pc = "readTicket12"
        /\ cli'.conf = cli.conf /\ cli'.vers = cli.vers
    BY <1>0, <1>6 DEF ClientFields
  <2>3. ClientQuiet
    BY <1>0, <1>6, <2>1, <2>2, HelloQueuesKept DEF ClientQuiet, Greeting, Beyond
  <2> QED
    BY <1>0, <1>6, <2>2, <2>3, ClientQuietInv DEF Apart
<1> QED
  BY <1>1, <1>5, <1>6

-----------------------------------------------------------------------------
(* Tickets and hellos *)

\* The ticket of TLS 1.0 to 1.2.
LEMMA TicketReadInv ==
  ASSUME ClientInv, TicketInv, srv' = srv, readSessionTicket
  PROVE  TicketInv'
<1>0. DOMAIN cli = ClientFields /\ ClientTakes /\ cli.pc = "readTicket12"
  BY DEF ClientInv, Configured, readSessionTicket, ClientReads, ClientHasMessage, ClientTakes
<1>1. \/ FailClient("refused")
      \/ ClientGoes([cli EXCEPT !.pc = "readFinished12"])
      \/ /\ toClient # <<>> /\ FromServer.type = "newSessionTicket"
         /\ \E t : ClientGoes([cli EXCEPT !.ticket = FromServer.ticket, !.transcript = t,
                                          !.pc = "readFinished12"])
  BY Zenon DEF readSessionTicket, ClientReads, ClientHasMessage, ClientChecks
<1>2. CASE FailClient("refused")
  BY <1>0, <1>2, ClientFailsInv
<1>3. CASE ClientGoes([cli EXCEPT !.pc = "readFinished12"])
  <2>1. GoesQuietly
    BY <1>0, <1>3 DEF ClientGoes, GoesQuietly, ClientFields, Greeting, Beyond
  <2> QED
    BY <1>0, <2>1, GoesQuietlyInv
<1>4. ASSUME toClient # <<>>, FromServer.type = "newSessionTicket", NEW t,
             ClientGoes([cli EXCEPT !.ticket = FromServer.ticket, !.transcript = t,
                                    !.pc = "readFinished12"])
      PROVE  TicketInv'
  <2>1. Sealed(FromServer.ticket)
    BY <1>4, ReplyQueues DEF TicketInv, FromServer, ReplyOk
  <2>2. /\ cli'.ticket = FromServer.ticket /\ cli'.pc = "readFinished12"
        /\ cli'.conf = cli.conf /\ cli'.vers = cli.vers
        /\ UNCHANGED <<toServer, cache, now>>
    BY <1>0, <1>4 DEF ClientGoes, ClientFields
  <2>3. Kept'
    BY <1>0, <2>1, <2>2 DEF TicketInv, Kept, Greeting, Beyond
  <2>4. Hellos(toServer)'
    BY <2>2, HelloQueuesKept DEF TicketInv
  <2> QED
    BY <1>0, <2>2, <2>3, <2>4, ApartInv, ClientTakesInv DEF TicketInv, Apart
<1> QED
  BY <1>1, <1>2, <1>3, <1>4

\* The session that a TLS 1.3 ticket goes into.
LEMMA TicketHandledInv ==
  ASSUME TicketInv, srv' = srv, handleNewSessionTicket
  PROVE  TicketInv'
<1>0. /\ ClientTakes /\ toClient # <<>> /\ FromServer.type = "newSessionTicket"
      /\ UNCHANGED <<cli, toServer, now>>
  BY DEF handleNewSessionTicket, ClientReads, ClientHasMessage, ClientTakes
<1>1. Sealed(FromServer.ticket)
  BY <1>0, ReplyQueues DEF TicketInv, FromServer, ReplyOk
<1>2. cache' = cache \/ cache'.ticket = FromServer.ticket
  BY DEF handleNewSessionTicket, sessionState
<1>3. Kept'
  BY <1>0, <1>1, <1>2 DEF TicketInv, Kept, UsesECH, Offers, Fits
<1>4. Hellos(toServer)'
  BY <1>0, HelloQueuesKept DEF TicketInv
<1> QED
  BY <1>0, <1>3, <1>4, ApartInv, ClientTakesInv DEF TicketInv, Apart

\* The end of a TLS 1.0-1.2 handshake, which saves the ticket.
LEMMA TicketSavedInv ==
  ASSUME ClientInv, TicketInv, srv' = srv, readFinished
  PROVE  TicketInv'
<1>0. DOMAIN cli = ClientFields /\ ClientTakes /\ cli.pc = "readFinished12"
  BY DEF ClientInv, Configured, readFinished, ClientReads, ClientHasMessage, ClientTakes
<1>1. \/ FailClient("refused")
      \/ \E t, u, f : /\ cli' = [cli EXCEPT !.pc = "complete", !.transcript = t]
                      /\ toServer' \in {toServer, Append(toServer, Finished(cli.secret, "client", f))}
                      /\ cache' = IF cli.ticket = None THEN cache
                                  ELSE sessionState(u, 0, cli.ticket)
                      /\ now' = now
  BY Zenon DEF readFinished
<1>2. CASE FailClient("refused")
  BY <1>0, <1>2, ClientFailsInv
<1>3. ASSUME NEW t, NEW u, NEW f, cli' = [cli EXCEPT !.pc = "complete", !.transcript = t],
             toServer' \in {toServer, Append(toServer, Finished(cli.secret, "client", f))},
             cache' = IF cli.ticket = None THEN cache ELSE sessionState(u, 0, cli.ticket),
             now' = now
      PROVE  TicketInv'
  <2>1. Hellos(toServer')
    BY <1>3, HelloQueues, PlainFromClient DEF TicketInv
  <2>2. /\ cli'.ticket = cli.ticket /\ cli'.pc = "complete"
        /\ cli'.conf = cli.conf /\ cli'.vers = cli.vers
    BY <1>0, <1>3 DEF ClientFields
  <2>3. sessionState(u, 0, cli.ticket).ticket = cli.ticket
    BY DEF sessionState
  <2>4. Kept'
    BY <1>0, <1>3, <2>2, <2>3 DEF TicketInv, Kept, Greeting, Beyond
  <2>5. Hellos(toServer)'
    BY <2>1, <2>2, HelloQueuesKept
  <2> QED
    BY <1>0, <1>3, <2>2, <2>4, <2>5, ApartInv, ClientTakesInv DEF TicketInv, Apart
<1> QED
  BY <1>1, <1>2, <1>3

\* loadSession puts in no ticket but that of the session it was given, and
\* leaves the versions alone.
LEMMA LoadedTickets ==
  ASSUME NEW conf, NEW s, s # None => Sealed(s.ticket)
  PROVE  LET hello == loadSession(conf, makeClientHello(conf), s)
         IN  /\ HasTickets(hello) /\ hello.ech \in {NoECH, InnerECH}
             /\ hello.supportedVersions = supportedVersions(conf, TRUE)
<1> DEFINE made == makeClientHello(conf)
           with == [made EXCEPT !.ticketSupported = conf.ech = None,
                                !.pskDHE = Head(made.supportedVersions) = TLS13]
           offered == [with EXCEPT !.psk = s.ticket]
           bound == [offered EXCEPT !.binder = Binder(s.secret, offered, <<>>)]
           legacy == [with EXCEPT !.sessionTicket = s.ticket]
<1>1. /\ DOMAIN made = HelloFields /\ made.psk = None /\ made.sessionTicket = None
      /\ made.ech \in {NoECH, InnerECH} /\ made.supportedVersions = supportedVersions(conf, TRUE)
  BY DEF makeClientHello, HelloFields
<1>2. \/ loadSession(conf, made, s) = made
      \/ loadSession(conf, made, s) = with
      \/ s # None /\ loadSession(conf, made, s) = legacy
      \/ s # None /\ loadSession(conf, made, s) = bound
  <2> HIDE DEF made
  <2> QED
    BY DEF loadSession
<1> HIDE DEF made
<1>3. /\ DOMAIN with = HelloFields /\ with.psk = None /\ with.sessionTicket = None
      /\ with.ech = made.ech /\ with.supportedVersions = made.supportedVersions
  BY <1>1 DEF HelloFields
<1> HIDE DEF with
<1>4. /\ legacy.psk = None /\ legacy.sessionTicket = s.ticket /\ legacy.ech = made.ech
      /\ legacy.supportedVersions = made.supportedVersions
  BY <1>3 DEF HelloFields
<1>5. /\ DOMAIN offered = HelloFields /\ offered.psk = s.ticket /\ offered.sessionTicket = None
      /\ offered.ech = made.ech /\ offered.supportedVersions = made.supportedVersions
  BY <1>3 DEF HelloFields
<1> HIDE DEF offered, legacy
<1>6. /\ bound.psk = s.ticket /\ bound.sessionTicket = None /\ bound.ech = made.ech
      /\ bound.supportedVersions = made.supportedVersions
  BY <1>5 DEF HelloFields
<1> HIDE DEF bound
<1>7. Sealed(None)
  BY DEF Sealed
<1> DEFINE hello == loadSession(conf, made, s)
<1>8. /\ HasTickets(hello) /\ hello.ech \in {NoECH, InnerECH}
      /\ hello.supportedVersions = supportedVersions(conf, TRUE)
  BY <1>1, <1>2, <1>3, <1>4, <1>6, <1>7 DEF HasTickets
<1> QED
  BY <1>8 DEF made

\* A hello lists the versions of its client.
LEMMA ListsSupported ==
  ASSUME NEW conf, NEW hello, hello.supportedVersions = supportedVersions(conf, TRUE)
  PROVE  Lists(conf, hello)
<1> DEFINE T == {v \in Elements(SupportedVersions) : keepsVersion(conf, TRUE, v)}
<1>1. T \in SUBSET (10..13) /\ \A v \in 10..13 : Speaks(conf, TRUE, v) => v \in T
  BY FourVersions DEF Speaks
<1>2. hello.supportedVersions = VersionsIn(T)
  BY DEF supportedVersions
<1> HIDE DEF T
<1> QED
  BY <1>1, <1>2 DEF Lists

\* An outer hello carries the tickets and the versions of the hello it is made
\* from, and seals the inner one.
LEMMA OuterTickets ==
  ASSUME NEW conf, NEW inner, NEW outer, DOMAIN outer = HelloFields, Fits(outer),
         Fits(inner)
  PROVE  Offers(OuterHello(conf, inner, outer))
<1> DEFINE sent == OuterHello(conf, inner, outer)
<1>1. /\ DOMAIN sent = HelloFields /\ sent.psk = outer.psk
      /\ sent.sessionTicket = outer.sessionTicket /\ sent.ech.inner = inner
      /\ sent.supportedVersions = outer.supportedVersions
  BY DEF OuterHello, HelloFields
<1> HIDE DEF sent
<1>2. Offers(sent)
  BY <1>1 DEF Offers, Fits, HasTickets, Lists
<1> QED
  BY <1>2 DEF sent

\* The first hello.
LEMMA FirstHelloInv ==
  ASSUME ClientInv, TicketInv, srv' = srv, ClientStart
  PROVE  TicketInv'
<1> DEFINE conf == cli.conf
           made == makeClientHello(conf)
           s == IF UsesTickets(conf) /\ SessionUsable(conf, made, cache) THEN cache ELSE None
           hello == loadSession(conf, made, s)
           sent == IF conf.ech = None THEN hello ELSE OuterHello(conf, hello, hello)
           inner == IF conf.ech = None THEN None ELSE hello
<1>0. DOMAIN cli = ClientFields /\ ClientTakes
  BY DEF ClientInv, Configured, ClientStart, ClientTakes
<1>1. \/ FailClient("config")
      \/ /\ cli' = [cli EXCEPT !.pc = "readServerHello", !.session = s, !.hello = sent,
                               !.inner = inner, !.serverName = sent.serverName]
         /\ toServer' = Append(toServer, sent)
         /\ cache' \in {cache, None} /\ now' = now
  BY DEF ClientStart
<1>2. s # None => Sealed(s.ticket)
  BY DEF TicketInv, Kept
<1>3. DOMAIN hello = HelloFields /\ Fits(hello) /\ hello.ech \in {NoECH, InnerECH}
  <2>1. DOMAIN made = HelloFields /\ made.psk = None
    BY MadeHello
  <2> HIDE DEF s
  <2>2. /\ HasTickets(hello) /\ hello.ech \in {NoECH, InnerECH}
        /\ hello.supportedVersions = supportedVersions(conf, TRUE)
    BY <1>2, LoadedTickets
  <2> HIDE DEF made
  <2>3. DOMAIN hello = HelloFields
    BY <2>1, LoadedHello
  <2> HIDE DEF hello
  <2> QED
    BY <2>2, <2>3, ListsSupported DEF Fits
<1> HIDE DEF hello, s
<1>4. Offers(sent)
  BY <1>3, OuterTickets DEF Offers
<1>5. conf.ech # None => Fits(inner)
  BY <1>3
<1> HIDE DEF sent, inner
<1>6. CASE FailClient("config")
  BY <1>0, <1>6, ClientFailsInv
<1>7. CASE /\ cli' = [cli EXCEPT !.pc = "readServerHello", !.session = s, !.hello = sent,
                                 !.inner = inner, !.serverName = sent.serverName]
           /\ toServer' = Append(toServer, sent)
           /\ cache' \in {cache, None} /\ now' = now
  <2>1. Hellos(toServer')
    BY <1>4, <1>7, HelloQueues DEF TicketInv, HelloOk
  <2>2. /\ cli'.ticket = cli.ticket /\ cli'.hello = sent /\ cli'.inner = inner
        /\ cli'.conf = cli.conf /\ cli'.pc = "readServerHello"
    BY <1>0, <1>7 DEF ClientFields
  <2>3. Kept'
    BY <1>4, <1>5, <1>7, <2>2 DEF TicketInv, Kept, UsesECH, Offers, Fits, Beyond
  <2>4. Hellos(toServer)'
    BY <2>1, <2>2, HelloQueuesKept
  <2> QED
    BY <1>0, <1>7, <2>2, <2>3, <2>4, ApartInv, ClientTakesInv DEF TicketInv, Apart
<1> QED
  BY <1>1, <1>6, <1>7

\* The PSK of a second hello is that of the first, or none.
LEMMA RetriedTickets ==
  ASSUME NEW hello, NEW prefix, DOMAIN hello = HelloFields, Fits(hello)
  PROVE  LET second == RetryPSK(hello, prefix)
         IN  DOMAIN second = HelloFields /\ Fits(second) /\ second.ech = hello.ech
<1> DEFINE second == RetryPSK(hello, prefix)
           bare == [hello EXCEPT !.binder = None]
           binder == Binder(cli.session.secret, bare, prefix)
           bound == [hello EXCEPT !.binder = binder]
           none == [bare EXCEPT !.psk = None]
<1>1. second = hello \/ second = bound \/ second = none
  BY DEF RetryPSK
<1> HIDE DEF second, binder
<1>2. /\ DOMAIN bound = HelloFields /\ bound.psk = hello.psk
      /\ bound.sessionTicket = hello.sessionTicket /\ bound.ech = hello.ech
      /\ bound.supportedVersions = hello.supportedVersions
  BY DEF HelloFields
<1>3. /\ DOMAIN bare = HelloFields /\ bare.sessionTicket = hello.sessionTicket
      /\ bare.ech = hello.ech /\ bare.supportedVersions = hello.supportedVersions
  BY DEF HelloFields
<1> HIDE DEF bare, bound
<1>4. /\ DOMAIN none = HelloFields /\ none.psk = None
      /\ none.sessionTicket = hello.sessionTicket /\ none.ech = hello.ech
      /\ none.supportedVersions = hello.supportedVersions
  BY <1>3 DEF HelloFields
<1> HIDE DEF none
<1>5. DOMAIN second = HelloFields /\ Fits(second) /\ second.ech = hello.ech
  BY <1>1, <1>2, <1>4 DEF Fits, Lists, HasTickets, Sealed
<1> QED
  BY <1>5 DEF second

\* The second hello.
LEMMA SecondHelloInv ==
  ASSUME ClientInv, TicketInv, srv' = srv, processHelloRetryRequest
  PROVE  TicketInv'
<1> DEFINE sh == cli.sh
           accepted == UsesECH /\ ConfirmsECH(sh)
           hello == IF accepted THEN cli.inner ELSE cli.hello
           prefix == Append(IF UsesECH THEN cli.innerTranscript ELSE cli.transcript, sh)
           retry == [hello EXCEPT !.keyShares = {sh.selectedGroup}]
           second == RetryPSK(retry, prefix)
           shared == [cli.hello EXCEPT !.keyShares = second.keyShares]
           sent == IF accepted THEN OuterHello(cli.conf, second, shared) ELSE second
           inner == IF accepted THEN second ELSE cli.inner
           name == IF accepted THEN ServerName ELSE cli.serverName
           seen == cli.transcript \o <<sh, sent>>
           rest == IF ~UsesECH THEN <<>> ELSE Append(cli.innerTranscript, sh)
           innerSeen == IF accepted THEN Append(rest, second) ELSE rest
<1>0. DOMAIN cli = ClientFields /\ cli.pc = "retry13" /\ ClientTakes
  BY DEF ClientInv, Configured, processHelloRetryRequest, ClientTakes
<1>1. \/ FailClient("refused")
      \/ /\ cli' = [cli EXCEPT !.pc = "readSecondServerHello", !.didHRR = TRUE, !.hello = sent,
                               !.inner = inner, !.echAccepted = accepted,
                               !.serverName = name, !.transcript = seen,
                               !.innerTranscript = innerSeen]
         /\ toServer' = Append(toServer, sent)
         /\ UNCHANGED <<cache, now>>
  BY DEF processHelloRetryRequest
<1>2. /\ Offers(cli.hello) /\ (UsesECH => Fits(cli.inner))
      /\ DOMAIN cli.hello = HelloFields /\ (UsesECH => DOMAIN cli.inner = HelloFields)
  BY <1>0 DEF ClientInv, Greeted, Started, ClientDone, Binds, TicketInv, Kept, Greeting
<1>3. DOMAIN hello = HelloFields /\ Fits(hello)
  BY <1>2 DEF Offers
<1>4. ~accepted => hello = cli.hello
  OBVIOUS
<1>5. accepted => UsesECH
  OBVIOUS
<1> HIDE DEF hello, accepted
<1>6. DOMAIN retry = HelloFields /\ Fits(retry) /\ retry.ech = hello.ech
  BY <1>3 DEF HelloFields, Fits, HasTickets, Lists
<1> HIDE DEF retry, prefix
<1>7. DOMAIN second = HelloFields /\ Fits(second) /\ second.ech = hello.ech
  BY <1>6, RetriedTickets
<1> HIDE DEF second
<1>8. DOMAIN shared = HelloFields /\ Fits(shared)
  BY <1>2 DEF HelloFields, Fits, HasTickets, Lists, Offers
<1> HIDE DEF shared
<1>9. Offers(sent)
  <2>1. CASE accepted
    BY <1>7, <1>8, <2>1, OuterTickets
  <2>2. CASE ~accepted
    BY <1>2, <1>4, <1>7, <2>2 DEF Offers
  <2> QED
    BY <2>1, <2>2
<1>10. UsesECH => Fits(inner)
  BY <1>2, <1>7
<1> HIDE DEF sent, inner, name, seen, innerSeen
<1>11. CASE FailClient("refused")
  BY <1>0, <1>11, ClientFailsInv
<1>12. CASE /\ cli' = [cli EXCEPT !.pc = "readSecondServerHello", !.didHRR = TRUE, !.hello = sent,
                                  !.inner = inner, !.echAccepted = accepted,
                                  !.serverName = name, !.transcript = seen,
                                  !.innerTranscript = innerSeen]
            /\ toServer' = Append(toServer, sent)
            /\ UNCHANGED <<cache, now>>
  <2>1. Hellos(toServer')
    BY <1>9, <1>12, HelloQueues DEF TicketInv, HelloOk
  <2>2. /\ cli'.ticket = cli.ticket /\ cli'.hello = sent /\ cli'.inner = inner
        /\ cli'.conf = cli.conf /\ cli'.vers = cli.vers /\ cli'.pc = "readSecondServerHello"
    BY <1>0, <1>12 DEF ClientFields
  <2>3. Kept'
    BY <1>0, <1>9, <1>10, <1>12, <2>2 DEF TicketInv, Kept, UsesECH, Offers, Fits, Beyond
  <2>4. Hellos(toServer)'
    BY <2>1, <2>2, HelloQueuesKept
  <2> QED
    BY <1>0, <1>12, <2>2, <2>3, <2>4, ApartInv, ClientTakesInv DEF TicketInv, Apart
<1> QED
  BY <1>1, <1>11, <1>12

\* The client's next-state relation.
LEMMA ClientTicketsInv ==
  ASSUME ClientInv, TicketInv, srv' = srv, ClientNext
  PROVE  TicketInv'
<1>1. CASE ClientReadsAlert
  <2>1. FailClient("alert") /\ ClientTakes
    BY <1>1 DEF ClientReadsAlert, ClientTakes
  <2> QED
    BY <2>1, ClientFailsInv
<1>2. CASE ClientStart \/ ClientReadServerHello
  BY <1>2, FirstHelloInv, ServerHelloInv
<1>3. CASE ClientStep13
  BY <1>3, QuietSteps13, SecondHelloInv, sendClientCertificateInv, ClientFinishedInv,
     TicketHandledInv
  DEF ClientStep13
<1>4. CASE ClientStep12
  BY <1>4, QuietSteps12, HelloDoneInv, TicketReadInv, TicketSavedInv DEF ClientStep12
<1> QED
  BY <1>1, <1>2, <1>3, <1>4 DEF ClientNext

-----------------------------------------------------------------------------
(* The environment, and the theorem *)

\* A new connection begins with empty queues; the cache stays.
LEMMA OpenTickets ==
  ASSUME TicketInv, NEW c, NEW s \in ServerConfigs, Open(c, s)
  PROVE  TicketInv' /\ srv'.pc # "complete"
<1>1. /\ cli'.ticket = None /\ cli'.pc = "start" /\ cache' = cache
      /\ toServer' = <<>> /\ toClient' = <<>>
  BY DEF Open, NewClient
<1>2. /\ DOMAIN srv' = ServerFields /\ srv'.pc = "readClientHello" /\ srv'.conf = s
      /\ srv'.peer = None /\ srv'.didResume = FALSE
  BY DEF Open, NewServer, ServerFields
<1>3. Kept'
  BY <1>1 DEF TicketInv, Kept, Sealed, Greeting, Beyond
<1>4. Answered' /\ Judged'
  BY <1>2 DEF Answered, Judged, Seen, Undecided, Parameters, Decided, ShMade, Before13
<1>5. Hellos(toServer)' /\ Replies(toClient)'
  BY <1>1, QueueNone DEF Hellos, Replies
<1> QED
  BY <1>2, <1>3, <1>4, <1>5 DEF TicketInv

\* A middlebox rewrites no ticket, and takes away no version but TLS 1.3.
LEMMA RewrittenHello ==
  ASSUME NEW hello, Offers(hello), NEW other \in Rewrites(hello)
  PROVE  Offers(other)
<1> DEFINE rest == Elements(hello.supportedVersions) \ {TLS13}
           versions == VersionsIn(rest)
<1>1. \/ other = [hello EXCEPT !.supportedVersions = versions]
      \/ other = [hello EXCEPT !.ech = NoECH]
      \/ other = [hello EXCEPT !.alpn = <<>>]
  BY DEF Rewrites
<1>2. /\ rest \in SUBSET (10..13)
      /\ \A v \in 10..13 : Speaks(cli.conf, TRUE, v) => v \in rest \cup {TLS13}
  <2> PICK T \in SUBSET (10..13) :
             /\ hello.supportedVersions = VersionsIn(T)
             /\ \A v \in 10..13 : Speaks(cli.conf, TRUE, v) => v \in T \cup {TLS13}
    BY DEF Offers, Fits, Lists
  <2>1. Elements(hello.supportedVersions) = T
    BY VersionsDescend
  <2> QED
    BY <2>1
<1> HIDE DEF rest
<1> DEFINE fewer == versions
<1>3. fewer = VersionsIn(rest)
  OBVIOUS
<1> HIDE DEF fewer
<1>4. /\ DOMAIN other = HelloFields /\ other.psk = hello.psk
      /\ other.sessionTicket = hello.sessionTicket /\ other.ech \in {hello.ech, NoECH}
      /\ other.supportedVersions \in {fewer, hello.supportedVersions}
  BY <1>1 DEF Offers, HelloFields, fewer
<1>5. Lists(cli.conf, other)
  BY <1>2, <1>3, <1>4 DEF Lists, Offers, Fits
<1> QED
  BY <1>4, <1>5 DEF Offers, Fits, HasTickets

\* The steps of the environment.
LEMMA EnvironmentTickets ==
  ASSUME TicketInv, Environment
  PROVE  TicketInv' /\ (srv' = srv \/ srv'.pc # "complete")
<1>1. CASE Connect
  BY <1>1, OpenTickets DEF Connect
<1>2. CASE RetryWithConfigs
  BY <1>2, OpenTickets DEF RetryWithConfigs, TicketInv, Answered
<1>3. CASE Tick \/ SetSessionTicketKeys
  <2>1. /\ UNCHANGED <<cli, toServer, toClient, cache, srv>>
        /\ ServerDone
    BY <1>3 DEF Tick, SetSessionTicketKeys, BetweenConnections
  <2>2. Hellos(toServer)' /\ Replies(toClient)' /\ Kept'
    BY <2>1, HelloQueuesKept, ReplyQueuesKept DEF TicketInv, Kept, UsesECH, Offers, Fits
  <2>3. Answered'
    BY <2>1 DEF TicketInv, Answered, Seen, ServerDone, HasTickets, Sealed, ShMade, Before13
  <2>4. Judged'
    BY <2>1 DEF Judged, ServerDone, Undecided, Parameters, Decided
  <2> QED
    BY <2>1, <2>2, <2>3, <2>4 DEF TicketInv
<1>4. CASE Break
  <2>1. /\ UNCHANGED <<cli, cache, srv, now>>
        /\ toServer' = <<Alert>> /\ toClient' = <<Alert>>
    BY <1>4 DEF Break
  <2>2. ReplyOk(Alert) /\ HelloOk(Alert)
    BY DEF ReplyOk, HelloOk, Alert
  <2>3. Hellos(toServer') /\ Replies(toClient')
    BY <2>1, <2>2, HelloQueues, ReplyQueues
  <2>4. Kept'
    BY <2>1 DEF TicketInv, Kept, UsesECH, Offers, Fits
  <2> QED
    BY <2>1, <2>3, <2>4, ApartInv, HelloQueuesKept, ReplyQueuesKept DEF TicketInv, Apart
<1>5. CASE RewriteHello
  <2>1. /\ UNCHANGED <<cli, toClient, cache, srv, now>>
        /\ toServer # <<>> /\ FromClient.type = "clientHello"
    BY <1>5 DEF RewriteHello
  <2> PICK hello \in Rewrites(FromClient) : toServer' = <<hello>> \o Tail(toServer)
    BY <1>5 DEF RewriteHello
  <2>2. HelloOk(FromClient) /\ Hellos(Tail(toServer))
    BY <2>1, HelloQueues DEF TicketInv, FromClient
  <2>3. HelloOk(hello)
    BY <2>1, <2>2, RewrittenHello DEF HelloOk
  <2>4. Hellos(toServer')
    <3>1. Hellos(<<hello>>)
      BY <2>3, HelloQueues
    <3> QED
      BY <2>2, <3>1, HelloQueues
  <2>5. Kept' /\ Replies(toClient)'
    BY <2>1, ReplyQueuesKept DEF TicketInv, Kept, UsesECH, Offers, Fits
  <2> QED
    BY <2>1, <2>4, <2>5, ApartInv, HelloQueuesKept DEF TicketInv, Apart
<1> QED
  BY <1>1, <1>2, <1>3, <1>4, <1>5 DEF Environment

\* Every step keeps the invariant, and one that completes the server's
\* handshake finds its policy met.
LEMMA TicketStep ==
  ASSUME ClientInv, TicketInv, [Next]_vars
  PROVE  /\ TicketInv'
         /\ srv.pc # "complete" /\ srv'.pc = "complete" => ClientAuthOk'
<1>1. CASE ClientMoves
  BY <1>1, ClientTicketsInv DEF ClientMoves
<1>2. CASE ServerMoves
  BY <1>2, ServerNextInv DEF ServerMoves
<1>3. CASE Environment
  BY <1>3, EnvironmentTickets
<1>4. CASE UNCHANGED vars
  <2>1. Apart /\ UNCHANGED <<cli, cache, toServer, toClient>>
    BY <1>4 DEF vars, Apart
  <2>2. Hellos(toServer)' /\ Replies(toClient)' /\ Kept'
    BY <2>1, HelloQueuesKept, ReplyQueuesKept DEF TicketInv, Kept, UsesECH, Offers, Fits, Apart
  <2> QED
    BY <2>1, <2>2, ApartInv DEF TicketInv, Apart
<1> QED
  BY <1>1, <1>2, <1>3, <1>4 DEF Next

\* The first state.
LEMMA TicketInit == Init => TicketInv
<1> SUFFICES ASSUME Init
             PROVE  TicketInv
  OBVIOUS
<1> DEFINE c == CHOOSE c \in ClientConfigs : TRUE
           s == CHOOSE s \in ServerConfigs : TRUE
<1>1. s \in ServerConfigs
  BY HandshakeAssumption
<1> HIDE DEF c, s
<1>2. /\ cli = [NewClient(c) EXCEPT !.pc = "idle"] /\ srv = [NewServer(s) EXCEPT !.pc = "idle"]
      /\ toServer = <<>> /\ toClient = <<>> /\ cache = None
  BY DEF Init, c, s
<1>3. cli.ticket = None /\ cli.pc = "idle"
  BY <1>2 DEF NewClient
<1>4. /\ DOMAIN srv = ServerFields /\ srv.pc = "idle" /\ srv.conf = s /\ srv.peer = None
  BY <1>2 DEF NewServer, ServerFields
<1>5. Hellos(toServer) /\ Replies(toClient)
  BY <1>2, HelloQueues, ReplyQueues
<1> QED
  BY <1>1, <1>2, <1>3, <1>4, <1>5
  DEF TicketInv, Kept, Sealed, Greeting, Beyond, Answered, Seen, ServerDone, Judged, Undecided,
      Parameters, Decided, ShMade, Before13

\* In every reachable state: a ticket, on its way, in the cache or in a hello,
\* sealed or not, holds a verified client certificate only if some server's
\* CAs issued it; a hello lists all its client's versions but perhaps TLS 1.3,
\* and a ServerHello below the server's best version is marked; and the
\* server's places are what they say.
THEOREM TicketInvariant == Spec => []TicketInv
<1>1. ClientInv /\ TicketInv /\ [Next]_vars => TicketInv'
  BY TicketStep
<1> QED
  BY <1>1, TicketInit, ClientInvariant, PTL DEF Spec

\* A server completes a handshake, full or resumed, of any version, only with
\* a client that meets its ClientAuth: with a certificate where it requires
\* one, verified and valid where it says so, with none where it asks for none,
\* whatever policy the session was made under (processCertsFromClient and the
\* checks of both checkForResumption).
THEOREM ClientAuthIsHonoured == Spec => ClientAuthHonoured
<1>1. ClientInv /\ TicketInv /\ [Next]_vars =>
        [srv.pc # "complete" /\ srv'.pc = "complete" => ClientAuthOk']_vars
  BY TicketStep
<1> QED
  BY <1>1, ClientInvariant, TicketInvariant, PTL DEF Spec, ClientAuthHonoured

\* A client goes on after a ServerHello only with the best version that both
\* Configs allow, whoever took TLS 1.3 out of its hello on the way: the server
\* marks its random (processClientHello) and the client looks at the mark
\* (clientHandshake), for every set of Configs.
THEOREM NeverDowngraded == Spec => []NoDowngrade
<1>1. TicketInv => NoDowngrade
  BY DEF TicketInv, Kept, Beyond, NoDowngrade
<1> QED
  BY <1>1, TicketInvariant, PTL
=============================================================================
