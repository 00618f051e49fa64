-------------------------- MODULE HandshakeProofs --------------------------
(***************************************************************************)
(* Proofs about Handshake: which server a client completes with, for any   *)
(* Configs on either side, any number of connections and faults and any    *)
(* history of the session cache.                                           *)
(***************************************************************************)
EXTENDS Handshake, TLAPS

ClientFields ==
  {"pc", "conf", "hello", "inner", "session", "sh", "vers", "suite", "curve", "alpn", "cert",
   "verified", "didResume", "usingPSK", "echAccepted", "echRejected", "didHRR", "transcript",
   "innerTranscript", "secret", "ems", "certReq", "ticket", "serverName", "retryConfigs", "err"}

ConfigFields ==
  {"minVersion", "maxVersion", "cipherSuites", "curvePreferences", "nextProtos",
   "certificates", "ticketsDisabled", "roots", "insecureSkipVerify", "sessionCache", "pin",
   "ech"}

HelloFields ==
  {"type", "vers", "supportedVersions", "cipherSuites", "curves", "keyShares", "sigAlgs",
   "alpn", "serverName", "ems", "ticketSupported", "sessionTicket", "pskDHE", "psk", "binder",
   "ech"}

\* The places of a client that has sent a hello and is not done.
Started == ~ClientDone /\ cli.pc # "start"

Places12 ==
  {"process12", "readCertificate12", "readStatus12", "verify12", "readKeyExchange12",
   "readRequest12", "readHelloDone12", "readTicket12", "readFinished12"}

\* The places behind the verification of the server's certificate.
Verified13 ==
  {"readCertificateVerify13", "readFinished13", "sendCertificate13", "sendFinished13"}

Verified12 ==
  {"readKeyExchange12", "readRequest12", "readHelloDone12", "readTicket12", "readFinished12"}

\* A certificate that is there, and of a root of some client if it says so.
Known(cert, verified) ==
  cert # None /\ (verified => \E c \in ClientConfigs : cert.issuer \in c.roots)

\* A certificate that this client takes for the server's.
Trusted(cert, verified) ==
  /\ Known(cert, verified)
  /\ ~cli.conf.insecureSkipVerify =>
       verified /\ ServerName \in cert.names /\ now <= cert.notAfter

\* The client was made from one of the Configs, but for its ECH configuration.
Configured ==
  /\ DOMAIN cli = ClientFields /\ DOMAIN cli.conf = ConfigFields
  /\ \E c \in ClientConfigs : cli.conf.roots = c.roots

Cached == cache # None => Known(cache.cert, cache.verified)

\* The session that a client offers is good for this client, now.
Offered == ~ClientDone /\ cli.session # None => Trusted(cli.session.cert, cli.session.verified)

\* A hello has a PSK only when there is a session.
Binds(hello) == DOMAIN hello = HelloFields /\ (hello.psk # None => cli.session # None)

Greeted == Started => Binds(cli.hello) /\ (UsesECH => Binds(cli.inner))

\* Encrypted Client Hello is accepted, or known to be rejected, or the
\* handshake has not come so far; and never before TLS 1.3.
Encrypted ==
  /\ cli.pc \in Places12 => ~UsesECH
  /\ cli.pc \in {"readEncryptedExtensions", "readCertificate13"} /\ UsesECH =>
       cli.echAccepted \/ cli.echRejected

\* What is known of the server at each place.
Shown ==
  /\ cli.pc = "readEncryptedExtensions" /\ cli.usingPSK => Trusted(cli.cert, cli.verified)
  /\ cli.pc \in Verified13 /\ ~cli.echRejected =>
       Trusted(cli.cert, cli.verified) /\ VerifyConnection(cli.cert)
  /\ cli.pc \in {"readStatus12", "verify12"} => cli.cert # None
  /\ cli.pc \in Verified12 =>
       Trusted(cli.cert, cli.verified) /\ (cli.didResume \/ VerifyConnection(cli.cert))
  /\ cli.pc = "complete" => Known(cli.cert, cli.verified)

ClientInv == Configured /\ Cached /\ Offered /\ Greeted /\ Encrypted /\ Shown
-----------------------------------------------------------------------------
(* The client's steps *)

\* What a client keeps while its handshake goes on.
Keeps ==
  /\ DOMAIN cli' = ClientFields
  /\ cli'.conf = cli.conf /\ cli'.session = cli.session
  /\ UNCHANGED <<cache, now>>

\* Nothing of what is known of the server changes, and the place is not one
\* where more is known.
Stays ==
  /\ Keeps
  /\ Started /\ cli'.pc \notin {"start", "complete", "idle"}
  /\ cli'.hello = cli.hello /\ cli'.inner = cli.inner
  /\ cli'.verified = cli.verified /\ cli'.didResume = cli.didResume
  /\ cli'.usingPSK = cli.usingPSK /\ cli'.cert = cli.cert
  /\ cli'.echAccepted = cli.echAccepted /\ cli'.echRejected = cli.echRejected
  /\ cli'.pc \in Places12 => cli.pc \in Places12
  /\ cli'.pc = "readEncryptedExtensions" => cli.pc = "readEncryptedExtensions"
  /\ cli'.pc = "readCertificate13" => cli.pc = "readCertificate13"
  /\ cli'.pc \in Verified13 => cli.pc \in Verified13
  /\ cli'.pc \in {"readStatus12", "verify12"} => cli.pc \in {"readStatus12", "verify12"}
  /\ cli'.pc \in Verified12 => cli.pc \in Verified12

\* A handshake that goes on keeps the session and the Config.
LEMMA KeepsInv ==
  ASSUME ClientInv, Keeps, ~ClientDone
  PROVE  Configured' /\ Cached' /\ Offered'
<1>1. Configured'
  BY DEF ClientInv, Configured, Keeps
<1>2. Cached'
  BY DEF ClientInv, Cached, Keeps, Known
<1>3. Offered'
  BY DEF ClientInv, Offered, Keeps, Trusted, Known
<1> QED
  BY <1>1, <1>2, <1>3

\* A step that stays.
LEMMA StaysInv ==
  ASSUME ClientInv, Stays
  PROVE  ClientInv' /\ cli'.pc # "complete"
<1>1. Configured' /\ Cached' /\ Offered'
  BY KeepsInv DEF Stays, Started
<1>2. Greeted'
  BY DEF ClientInv, Greeted, Binds, Started, Stays, Keeps, UsesECH
<1>3. Encrypted'
  BY DEF ClientInv, Encrypted, Stays, Keeps, UsesECH
<1>4. Shown'
  BY DEF ClientInv, Shown, Stays, Keeps, Trusted, Known, VerifyConnection, Verified12, Verified13
<1> QED
  BY <1>1, <1>2, <1>3, <1>4 DEF ClientInv, Stays

\* An error.
LEMMA FailClientInv ==
  ASSUME ClientInv, NEW e, FailClient(e)
  PROVE  ClientInv' /\ cli'.pc # "complete"
<1>1. DOMAIN cli' = ClientFields /\ cli'.pc = "failed" /\ cli'.conf = cli.conf
  BY DEF FailClient, ClientInv, Configured, ClientFields
<1>2. cache' \in {cache, None} /\ now' = now
  BY DEF FailClient
<1> QED
  BY <1>1, <1>2
  DEF ClientInv, Configured, Cached, Known, Offered, ClientDone, Greeted, Started, Encrypted,
      Shown, Places12, Verified12, Verified13

\* The steps that tell the client nothing new about who the server is.
LEMMA PlainStepsInv ==
  ASSUME ClientInv,
         \/ checkServerHelloOrHRR \/ ReadSecondServerHello \/ ReadCertificateRequest13
         \/ ReadCertificateVerify13 \/ readServerFinished \/ sendClientCertificate
         \/ ReadCertificateStatus12 \/ ReadServerKeyExchange12 \/ ReadCertificateRequest12
         \/ readSessionTicket
  PROVE  ClientInv' /\ cli'.pc # "complete"
<1> SUFFICES Stays \/ FailClient("refused")
  BY StaysInv, FailClientInv
<1> USE DEF ClientFields, Places12, Verified12, Verified13
<1>0. DOMAIN cli = ClientFields
  BY DEF ClientInv, Configured
<1>1. CASE checkServerHelloOrHRR
  <2>1. /\ cli.pc = "check13"
        /\ \/ FailClient("refused")
           \/ \E u, t, i, l : /\ l \in {"retry13", "process13"}
                              /\ ClientGoes([cli EXCEPT !.suite = u, !.transcript = t,
                                                        !.innerTranscript = i, !.pc = l])
    BY <1>1, Zenon DEF checkServerHelloOrHRR, ClientChecks
  <2>2. ASSUME NEW u, NEW t, NEW i, NEW l \in {"retry13", "process13"},
               ClientGoes([cli EXCEPT !.suite = u, !.transcript = t, !.innerTranscript = i,
                                      !.pc = l])
        PROVE  Stays
    BY <1>0, <2>1, <2>2 DEF ClientGoes, Stays, Keeps, Started, ClientDone
  <2> QED
    BY <2>1, <2>2
<1>2. CASE ReadSecondServerHello
  <2>1. /\ cli.pc = "readSecondServerHello"
        /\ \/ FailClient("refused")
           \/ \E m : ClientGoes([cli EXCEPT !.sh = m, !.pc = "check13"])
    BY <1>2, Zenon DEF ReadSecondServerHello, ClientReads, ClientChecks
  <2>2. ASSUME NEW m,
               ClientGoes([cli EXCEPT !.sh = m, !.pc = "check13"])
        PROVE  Stays
    BY <1>0, <2>1, <2>2 DEF ClientGoes, Stays, Keeps, Started, ClientDone
  <2> QED
    BY <2>1, <2>2
<1>3. CASE ReadCertificateRequest13
  <2>1. /\ cli.pc = "readCertificate13"
        /\ \E c, t : ClientGoes([cli EXCEPT !.certReq = c, !.transcript = t])
    BY <1>3, Zenon DEF ReadCertificateRequest13, ClientReads
  <2>2. ASSUME NEW c, NEW t,
               ClientGoes([cli EXCEPT !.certReq = c, !.transcript = t])
        PROVE  Stays
    BY <1>0, <2>1, <2>2 DEF ClientGoes, Stays, Keeps, Started, ClientDone
  <2> QED
    BY <2>1, <2>2
<1>4. CASE ReadCertificateVerify13
  <2>1. /\ cli.pc = "readCertificateVerify13"
        /\ \/ FailClient("refused")
           \/ \E t : ClientGoes([cli EXCEPT !.transcript = t, !.pc = "readFinished13"])
    BY <1>4, Zenon DEF ReadCertificateVerify13, ClientReads, ClientChecks
  <2>2. ASSUME NEW t,
               ClientGoes([cli EXCEPT !.transcript = t, !.pc = "readFinished13"])
        PROVE  Stays
    BY <1>0, <2>1, <2>2 DEF ClientGoes, Stays, Keeps, Started, ClientDone
  <2> QED
    BY <2>1, <2>2
<1>5. CASE readServerFinished
  <2>1. /\ cli.pc = "readFinished13"
        /\ \/ FailClient("refused")
           \/ \E t : ClientGoes([cli EXCEPT !.transcript = t, !.pc = "sendCertificate13"])
    BY <1>5, Zenon DEF readServerFinished, ClientReads, ClientChecks
  <2>2. ASSUME NEW t,
               ClientGoes([cli EXCEPT !.transcript = t, !.pc = "sendCertificate13"])
        PROVE  Stays
    BY <1>0, <2>1, <2>2 DEF ClientGoes, Stays, Keeps, Started, ClientDone
  <2> QED
    BY <2>1, <2>2
<1>6. CASE sendClientCertificate
  <2>1. /\ cli.pc = "sendCertificate13"
        /\ \/ cli' = [cli EXCEPT !.pc = "sendFinished13"]
           \/ \E t : cli' = [cli EXCEPT !.transcript = t, !.pc = "sendFinished13"]
        /\ UNCHANGED <<cache, now>>
    BY <1>6 DEF sendClientCertificate, ClientGoes
  <2>2. CASE cli' = [cli EXCEPT !.pc = "sendFinished13"]
    BY <1>0, <2>1, <2>2 DEF Stays, Keeps, Started, ClientDone
  <2>3. ASSUME NEW t,
               cli' = [cli EXCEPT !.transcript = t, !.pc = "sendFinished13"]
        PROVE  Stays
    BY <1>0, <2>1, <2>3 DEF Stays, Keeps, Started, ClientDone
  <2> QED
    BY <2>1, <2>2, <2>3
<1>7. CASE ReadCertificateStatus12
  <2>1. /\ cli.pc = "readStatus12"
        /\ \/ FailClient("refused")
           \/ ClientGoes([cli EXCEPT !.pc = "verify12"])
           \/ \E t : ClientGoes([cli EXCEPT !.transcript = t, !.pc = "verify12"])
    BY <1>7 DEF ReadCertificateStatus12, ClientChecks
  <2>2. CASE ClientGoes([cli EXCEPT !.pc = "verify12"])
    BY <1>0, <2>1, <2>2 DEF ClientGoes, Stays, Keeps, Started, ClientDone
  <2>3. ASSUME NEW t,
               ClientGoes([cli EXCEPT !.transcript = t, !.pc = "verify12"])
        PROVE  Stays
    BY <1>0, <2>1, <2>3 DEF ClientGoes, Stays, Keeps, Started, ClientDone
  <2> QED
    BY <2>1, <2>2, <2>3
<1>8. CASE ReadServerKeyExchange12
  <2>1. /\ cli.pc = "readKeyExchange12"
        /\ \/ FailClient("refused")
           \/ ClientGoes([cli EXCEPT !.pc = "readRequest12"])
           \/ \E c, t : ClientGoes([cli EXCEPT !.curve = c, !.transcript = t,
                                               !.pc = "readRequest12"])
    BY <1>8 DEF ReadServerKeyExchange12, ClientChecks
  <2>2. CASE ClientGoes([cli EXCEPT !.pc = "readRequest12"])
    BY <1>0, <2>1, <2>2 DEF ClientGoes, Stays, Keeps, Started, ClientDone
  <2>3. ASSUME NEW c, NEW t,
               ClientGoes([cli EXCEPT !.curve = c, !.transcript = t, !.pc = "readRequest12"])
        PROVE  Stays
    BY <1>0, <2>1, <2>3 DEF ClientGoes, Stays, Keeps, Started, ClientDone
  <2> QED
    BY <2>1, <2>2, <2>3
<1>9. CASE ReadCertificateRequest12
  <2>1. /\ cli.pc = "readRequest12"
        /\ \/ ClientGoes([cli EXCEPT !.pc = "readHelloDone12"])
           \/ \E c, t : ClientGoes([cli EXCEPT !.certReq = c, !.transcript = t,
                                               !.pc = "readHelloDone12"])
    BY <1>9 DEF ReadCertificateRequest12
  <2>2. CASE ClientGoes([cli EXCEPT !.pc = "readHelloDone12"])
    BY <1>0, <2>1, <2>2 DEF ClientGoes, Stays, Keeps, Started, ClientDone
  <2>3. ASSUME NEW c, NEW t,
               ClientGoes([cli EXCEPT !.certReq = c, !.transcript = t, !.pc = "readHelloDone12"])
        PROVE  Stays
    BY <1>0, <2>1, <2>3 DEF ClientGoes, Stays, Keeps, Started, ClientDone
  <2> QED
    BY <2>1, <2>2, <2>3
<1>10. CASE readSessionTicket
  <2>1. /\ cli.pc = "readTicket12"
        /\ \/ FailClient("refused")
           \/ ClientGoes([cli EXCEPT !.pc = "readFinished12"])
           \/ \E c, t : ClientGoes([cli EXCEPT !.ticket = c, !.transcript = t,
                                               !.pc = "readFinished12"])
    BY <1>10 DEF readSessionTicket, ClientChecks
  <2>2. CASE ClientGoes([cli EXCEPT !.pc = "readFinished12"])
    BY <1>0, <2>1, <2>2 DEF ClientGoes, Stays, Keeps, Started, ClientDone
  <2>3. ASSUME NEW c, NEW t,
               ClientGoes([cli EXCEPT !.ticket = c, !.transcript = t, !.pc = "readFinished12"])
        PROVE  Stays
    BY <1>0, <2>1, <2>3 DEF ClientGoes, Stays, Keeps, Started, ClientDone
  <2> QED
    BY <2>1, <2>2, <2>3
<1> QED
  BY <1>1, <1>2, <1>3, <1>4, <1>5, <1>6, <1>7, <1>8, <1>9, <1>10

\* The first index of a set of one.
LEMMA ChooseOne ==
  ASSUME NEW S, \A i \in S : i = 1, S # {}
  PROVE  1 \in S /\ (CHOOSE i \in S : \A j \in S : i <= j) = 1
<1>1. 1 \in S /\ \A j \in S : 1 <= j
  OBVIOUS
<1>2. \E i : i \in S /\ \A j \in S : i <= j
  BY <1>1
<1>3. (CHOOSE i \in S : \A j \in S : i <= j) \in S
  BY <1>2
<1> QED
  BY <1>1, <1>3

\* The ServerHello of a version that the Config allows: TLS 1.3 under
\* Encrypted Client Hello.
LEMMA ClientReadServerHelloInv ==
  ASSUME ClientInv, ClientReadServerHello
  PROVE  ClientInv' /\ cli'.pc # "complete"
<1> DEFINE vers == pickTLSVersion(FromServer)
<1>0. DOMAIN cli = ClientFields /\ cli.pc = "readServerHello" /\ UNCHANGED <<now>>
  BY DEF ClientInv, Configured, ClientReadServerHello, ClientReads, ClientChecks, ClientGoes,
         FailClient
<1>1. vers # None /\ UsesECH => vers = TLS13
  <2> DEFINE x == IF FromServer.supportedVersion # 0 THEN FromServer.supportedVersion
                                                      ELSE FromServer.vers
  <2>1. vers # None => /\ vers = x /\ x \in Elements(SupportedVersions)
                       /\ keepsVersion(cli.conf, TRUE, x)
    <3> DEFINE hits == {i \in DOMAIN <<x>> : /\ <<x>>[i] \in Elements(SupportedVersions)
                                            /\ keepsVersion(cli.conf, TRUE, <<x>>[i])}
    <3>1. vers = IF hits = {} THEN None ELSE <<x>>[CHOOSE i \in hits : \A j \in hits : i <= j]
      BY DEF pickTLSVersion, mutualVersion, First
    <3>2. \A i \in hits : i = 1
      OBVIOUS
    <3>3. <<x>>[1] = x
      OBVIOUS
    <3>4. 1 \in hits => x \in Elements(SupportedVersions) /\ keepsVersion(cli.conf, TRUE, x)
      BY <3>3
    <3> HIDE DEF hits, vers
    <3>5. hits # {} => 1 \in hits /\ (CHOOSE i \in hits : \A j \in hits : i <= j) = 1
      BY <3>2, ChooseOne
    <3> QED
      BY <3>1, <3>3, <3>4, <3>5
  <2>2. Elements(SupportedVersions) = {TLS10, TLS11, TLS12, TLS13}
    BY DEF Elements, SupportedVersions
  <2> QED
    BY <2>1, <2>2 DEF keepsVersion, UsesECH, TLS10, TLS11, TLS12, TLS13
<1>2. CASE FailClient("refused")
  BY <1>2, FailClientInv
<1>3. CASE /\ vers # None
           /\ ClientGoes([cli EXCEPT !.sh = FromServer, !.vers = vers,
                            !.pc = IF vers = TLS13 THEN "check13" ELSE "process12"])
  <2>1. /\ Keeps /\ Started /\ cli'.hello = cli.hello /\ cli'.inner = cli.inner
        /\ cli'.pc = IF vers = TLS13 THEN "check13" ELSE "process12"
    BY <1>0, <1>3 DEF ClientGoes, Keeps, Started, ClientDone, ClientFields
  <2>2. Configured' /\ Cached' /\ Offered'
    BY <2>1, KeepsInv DEF Started
  <2>3. Greeted'
    BY <2>1 DEF ClientInv, Greeted, Binds, Started, Keeps, UsesECH
  <2>4. Encrypted'
    BY <1>1, <1>3, <2>1 DEF Encrypted, Keeps, UsesECH, Places12
  <2>5. Shown'
    BY <2>1 DEF Shown, Verified12, Verified13
  <2> QED
    BY <2>1, <2>2, <2>3, <2>4, <2>5 DEF ClientInv
<1> QED
  BY <1>2, <1>3 DEF ClientReadServerHello, ClientChecks

\* makeClientHello puts no session into a hello.
LEMMA MadeHello ==
  ASSUME NEW conf
  PROVE  DOMAIN makeClientHello(conf) = HelloFields /\ makeClientHello(conf).psk = None
BY DEF makeClientHello, HelloFields

\* loadSession adds a PSK only when it has a session.
LEMMA LoadedHello ==
  ASSUME NEW conf, NEW hello, NEW s, DOMAIN hello = HelloFields, hello.psk = None
  PROVE  /\ DOMAIN loadSession(conf, hello, s) = HelloFields
         /\ loadSession(conf, hello, s).psk # None => s # None
<1> DEFINE with == [hello EXCEPT !.ticketSupported = conf.ech = None,
                                 !.pskDHE = Head(hello.supportedVersions) = TLS13]
           offered == [with EXCEPT !.psk = s.ticket]
           bound == [offered EXCEPT !.binder = Binder(s.secret, offered, <<>>)]
           legacy == [with EXCEPT !.sessionTicket = s.ticket]
<1>1. DOMAIN with = HelloFields /\ with.psk = None
  BY DEF HelloFields
<1>2. \/ loadSession(conf, hello, s) = hello
      \/ loadSession(conf, hello, s) = with
      \/ s # None /\ loadSession(conf, hello, s) = legacy
      \/ s # None /\ loadSession(conf, hello, s) = bound
  BY DEF loadSession
<1> HIDE DEF with
<1>3. DOMAIN legacy = HelloFields /\ legacy.psk = None
  BY <1>1 DEF HelloFields
<1>4. DOMAIN offered = HelloFields
  BY <1>1
<1> HIDE DEF offered, legacy
<1>5. DOMAIN bound = HelloFields
  BY <1>4
<1> QED
  BY <1>1, <1>2, <1>3, <1>5

\* The first hello offers a session that loadSession found usable.
LEMMA ClientStartInv ==
  ASSUME ClientInv, ClientStart
  PROVE  ClientInv' /\ cli'.pc # "complete"
<1> DEFINE conf == cli.conf
           made == makeClientHello(conf)
           s == IF UsesTickets(conf) /\ SessionUsable(conf, made, cache) THEN cache ELSE None
           hello == loadSession(conf, made, s)
           sent == IF conf.ech = None THEN hello ELSE OuterHello(conf, hello, hello)
           inner == IF conf.ech = None THEN None ELSE hello
<1>0. DOMAIN cli = ClientFields /\ cli.pc = "start"
  BY DEF ClientInv, Configured, ClientStart
<1>1. CASE FailClient("config")
  BY <1>1, FailClientInv
<1>2. CASE /\ cli' = [cli EXCEPT !.pc = "readServerHello", !.session = s, !.hello = sent,
                                 !.inner = inner, !.serverName = sent.serverName]
           /\ cache' \in {cache, None} /\ now' = now
  <2>1. /\ DOMAIN cli' = ClientFields /\ cli'.pc = "readServerHello" /\ cli'.session = s
        /\ cli'.hello = sent /\ cli'.inner = inner /\ cli'.conf = conf
    <3> HIDE DEF s, sent, inner
    <3> QED
      BY <1>0, <1>2 DEF ClientFields
  <2>2. Configured'
    BY <2>1 DEF ClientInv, Configured
  <2>3. Cached'
    BY <1>2 DEF ClientInv, Cached, Known
  <2>4. Offered'
    <3>1. s # None => /\ cache # None /\ s = cache /\ now <= s.cert.notAfter
                      /\ ~conf.insecureSkipVerify => s.verified /\ ServerName \in s.cert.names
      BY DEF SessionUsable
    <3>2. s # None => Trusted(s.cert, s.verified)
      BY <3>1 DEF ClientInv, Cached, Trusted, Known
    <3> HIDE DEF s
    <3> QED
      BY <1>2, <2>1, <3>2 DEF Offered, Trusted, Known
  <2>5. Greeted'
    <3>1. DOMAIN hello = HelloFields /\ (hello.psk # None => s # None)
      BY MadeHello, LoadedHello
    <3> HIDE DEF hello, s
    <3>2. DOMAIN sent = HelloFields /\ sent.psk = hello.psk
      BY <3>1 DEF OuterHello, HelloFields
    <3>3. conf.ech # None => inner = hello
      OBVIOUS
    <3> HIDE DEF sent, inner
    <3> QED
      BY <2>1, <3>1, <3>2, <3>3 DEF Greeted, Binds, UsesECH
  <2>6. Encrypted' /\ Shown'
    BY <2>1 DEF Encrypted, Shown, Places12, Verified12, Verified13
  <2> QED
    BY <2>1, <2>2, <2>3, <2>4, <2>5, <2>6 DEF ClientInv
<1> QED
  BY <1>1, <1>2 DEF ClientStart

\* The answer to a HelloRetryRequest has a PSK only if the first hello had.
LEMMA RetriedHello ==
  ASSUME NEW hello, NEW prefix, DOMAIN hello = HelloFields
  PROVE  /\ DOMAIN RetryPSK(hello, prefix) = HelloFields
         /\ RetryPSK(hello, prefix).psk # None => hello.psk # None
<1> DEFINE bare == [hello EXCEPT !.binder = None]
<1>1. DOMAIN bare = HelloFields
  OBVIOUS
<1>2. \/ RetryPSK(hello, prefix) = hello
      \/ /\ hello.psk # None
         /\ \E b : RetryPSK(hello, prefix) = [hello EXCEPT !.binder = b]
      \/ RetryPSK(hello, prefix) = [bare EXCEPT !.psk = None]
  BY DEF RetryPSK
<1> HIDE DEF bare
<1>3. [bare EXCEPT !.psk = None].psk = None /\ DOMAIN [bare EXCEPT !.psk = None] = HelloFields
  BY <1>1 DEF HelloFields
<1> QED
  BY <1>2, <1>3

\* The second hello.
LEMMA processHelloRetryRequestInv ==
  ASSUME ClientInv, processHelloRetryRequest
  PROVE  ClientInv' /\ cli'.pc # "complete"
<1> DEFINE sh == cli.sh
           accepted == UsesECH /\ ConfirmsECH(sh)
           hello == IF accepted THEN cli.inner ELSE cli.hello
           prefix == Append(IF UsesECH THEN cli.innerTranscript ELSE cli.transcript, sh)
           retry == [hello EXCEPT !.keyShares = {sh.selectedGroup}]
           second == RetryPSK(retry, prefix)
           shared == [cli.hello EXCEPT !.keyShares = second.keyShares]
           sent == IF accepted THEN OuterHello(cli.conf, second, shared) ELSE second
           inner == IF accepted THEN second ELSE cli.inner
           name == IF accepted THEN ServerName ELSE cli.serverName
           seen == cli.transcript \o <<sh, sent>>
           rest == IF ~UsesECH THEN <<>> ELSE Append(cli.innerTranscript, sh)
           innerSeen == IF accepted THEN Append(rest, second) ELSE rest
<1>0. DOMAIN cli = ClientFields /\ cli.pc = "retry13"
  BY DEF ClientInv, Configured, processHelloRetryRequest
<1>1. CASE FailClient("refused")
  BY <1>1, FailClientInv
<1>2. CASE /\ cli' = [cli EXCEPT !.pc = "readSecondServerHello", !.didHRR = TRUE, !.hello = sent,
                                 !.inner = inner, !.echAccepted = accepted,
                                 !.serverName = name, !.transcript = seen,
                                 !.innerTranscript = innerSeen]
           /\ UNCHANGED <<cache, now>>
  <2>1. /\ Keeps /\ Started /\ cli'.pc = "readSecondServerHello"
        /\ cli'.hello = sent /\ cli'.inner = inner
    <3> HIDE DEF accepted, sent, inner, name, seen, innerSeen
    <3> QED
      BY <1>0, <1>2 DEF ClientFields, Keeps, Started, ClientDone
  <2>2. Configured' /\ Cached' /\ Offered'
    BY <2>1, KeepsInv DEF Started
  <2>3. Greeted'
    <3>1. Binds(cli.hello) /\ (UsesECH => Binds(cli.inner))
      BY <2>1 DEF ClientInv, Greeted
    <3>2. DOMAIN hello = HelloFields /\ (hello.psk # None => cli.session # None)
      BY <3>1 DEF Binds
    <3> HIDE DEF hello
    <3>3. DOMAIN retry = HelloFields /\ retry.psk = hello.psk
      BY <3>2 DEF HelloFields
    <3> HIDE DEF retry, prefix
    <3>4. Binds(second)
      BY <3>2, <3>3, RetriedHello DEF Binds
    <3> HIDE DEF second
    <3>5. DOMAIN shared = HelloFields /\ shared.psk = cli.hello.psk
      BY <3>1 DEF HelloFields, Binds
    <3> HIDE DEF shared
    <3>6. Binds(OuterHello(cli.conf, second, shared))
      BY <3>1, <3>5 DEF Binds, OuterHello, HelloFields
    <3>7. Binds(sent) /\ (UsesECH => Binds(inner))
      BY <3>1, <3>4, <3>6
    <3> HIDE DEF sent, inner
    <3> QED
      BY <2>1, <3>7 DEF Greeted, Binds, Keeps, UsesECH
  <2>4. Encrypted' /\ Shown'
    BY <2>1 DEF Encrypted, Shown, Places12, Verified12, Verified13
  <2> QED
    BY <2>1, <2>2, <2>3, <2>4 DEF ClientInv
<1> QED
  BY <1>1, <1>2 DEF processHelloRetryRequest

\* A ServerHello that takes up the PSK names the session that was offered.
LEMMA processServerHello13Inv ==
  ASSUME ClientInv, processServerHello13
  PROVE  ClientInv' /\ cli'.pc # "complete"
<1> DEFINE sh == cli.sh
           accepted == UsesECH /\ ConfirmsECH(sh)
           hello == IF accepted THEN cli.inner ELSE cli.hello
           resumes == sh.psk
           cert == IF resumes THEN cli.session.cert ELSE cli.cert
           verified == IF resumes THEN cli.session.verified ELSE cli.verified
<1>0. DOMAIN cli = ClientFields /\ cli.pc = "process13" /\ Started
  BY DEF ClientInv, Configured, processServerHello13, Started, ClientDone
<1>1. CASE FailClient("refused")
  BY <1>1, FailClientInv
<1> DEFINE a == cli.echAccepted \/ accepted
           b == UsesECH /\ ~accepted
           seen == Append(IF accepted THEN cli.innerTranscript ELSE cli.transcript, sh)
           name == IF accepted THEN ServerName ELSE cli.serverName
           u == Secret13(IF resumes THEN cli.session.secret ELSE None, sh.serverShare)
           c == sh.serverShare
<1>2. CASE /\ resumes => hello.psk # None
           /\ cli' = [cli EXCEPT !.pc = "readEncryptedExtensions", !.hello = hello,
                       !.transcript = seen, !.serverName = name, !.echAccepted = a,
                       !.echRejected = b, !.curve = c, !.secret = u,
                       !.usingPSK = resumes, !.didResume = resumes,
                       !.cert = cert, !.verified = verified]
           /\ UNCHANGED <<cache, now>>
  <2>0. Binds(hello) /\ Binds(cli.hello) /\ (UsesECH => Binds(cli.inner))
    BY <1>0 DEF ClientInv, Greeted
  <2>1. /\ Keeps /\ cli'.pc = "readEncryptedExtensions" /\ cli'.hello = hello
        /\ cli'.inner = cli.inner /\ cli'.cert = cert /\ cli'.verified = verified
        /\ cli'.usingPSK = resumes /\ cli'.echAccepted = a /\ cli'.echRejected = b
    <3> HIDE DEF hello, cert, verified, a, b, seen, name, u, c
    <3> QED
      BY <1>0, <1>2 DEF ClientFields, Keeps
  <2>2. Configured' /\ Cached' /\ Offered'
    BY <1>0, <2>1, KeepsInv DEF Started
  <2>3. Greeted'
    BY <2>0, <2>1 DEF Greeted, Binds, Keeps, UsesECH
  <2>4. Encrypted'
    BY <1>2, <2>1 DEF Encrypted, Keeps, UsesECH, Places12
  <2>5. Shown'
    <3>1. resumes => Trusted(cert, verified)
      BY <1>0, <1>2, <2>0 DEF ClientInv, Offered, Started, Binds
    <3> QED
      BY <2>1, <3>1 DEF Shown, Trusted, Known, Keeps, Verified12, Verified13
  <2> QED
    BY <2>1, <2>2, <2>3, <2>4, <2>5 DEF ClientInv
<1> QED
  BY <1>1, <1>2 DEF processServerHello13, ClientChecks, ClientGoes

\* EncryptedExtensions; with a PSK, VerifyConnection is called here.
LEMMA readServerParametersInv ==
  ASSUME ClientInv, readServerParameters
  PROVE  ClientInv' /\ cli'.pc # "complete"
<1>0. DOMAIN cli = ClientFields /\ cli.pc = "readEncryptedExtensions" /\ Started
  BY DEF ClientInv, Configured, readServerParameters, ClientReads, Started, ClientDone
<1>1. CASE FailClient("refused")
  BY <1>1, FailClientInv
<1>2. ASSUME NEW p, NEW r, NEW t,
             cli.usingPSK => VerifyConnection(cli.cert),
             ClientGoes([cli EXCEPT !.alpn = p, !.retryConfigs = r, !.transcript = t,
                           !.pc = IF cli.usingPSK THEN "readFinished13" ELSE "readCertificate13"])
      PROVE  ClientInv' /\ cli'.pc # "complete"
  <2>1. /\ Keeps /\ cli'.hello = cli.hello /\ cli'.inner = cli.inner
        /\ cli'.pc = IF cli.usingPSK THEN "readFinished13" ELSE "readCertificate13"
        /\ cli'.cert = cli.cert /\ cli'.verified = cli.verified
        /\ cli'.echAccepted = cli.echAccepted /\ cli'.echRejected = cli.echRejected
    BY <1>0, <1>2 DEF ClientGoes, Keeps, ClientFields
  <2>2. Configured' /\ Cached' /\ Offered'
    BY <1>0, <2>1, KeepsInv DEF Started
  <2>3. Greeted'
    BY <1>0, <2>1 DEF ClientInv, Greeted, Binds, Keeps, UsesECH
  <2>4. Encrypted'
    BY <1>0, <2>1 DEF ClientInv, Encrypted, Keeps, UsesECH, Places12
  <2>5. Shown'
    BY <1>0, <1>2, <2>1
    DEF ClientInv, Shown, Trusted, Known, Keeps, VerifyConnection, Verified12, Verified13
  <2> QED
    BY <2>1, <2>2, <2>3, <2>4, <2>5 DEF ClientInv
<1> QED
  BY <1>1, <1>2 DEF readServerParameters, ClientChecks

\* What verifyServerCertificate establishes, unless the inner hello was
\* rejected.
LEMMA VerifiedCert ==
  ASSUME ClientInv, NEW cert, cert # None, verifyServerCertificate(cert)
  PROVE  ~ECHRejectedCert =>
           Trusted(cert, VerifiesChain) /\ VerifyConnection(cert)
BY DEF ClientInv, Configured, verifyServerCertificate, Verifies, Trusted, Known, VerifiesChain

\* The Certificate of TLS 1.3.
LEMMA ReadServerCertificate13Inv ==
  ASSUME ClientInv, ReadServerCertificate13
  PROVE  ClientInv' /\ cli'.pc # "complete"
<1> DEFINE cert == FromServer.cert
<1>0. DOMAIN cli = ClientFields /\ cli.pc = "readCertificate13" /\ Started
  BY DEF ClientInv, Configured, ReadServerCertificate13, ClientReads, Started, ClientDone
<1>1. CASE FailClient("refused")
  BY <1>1, FailClientInv
<1>2. ASSUME NEW t, cert # None, verifyServerCertificate(cert),
             ClientGoes([cli EXCEPT !.cert = cert, !.verified = VerifiesChain,
                           !.transcript = t, !.pc = "readCertificateVerify13"])
      PROVE  ClientInv' /\ cli'.pc # "complete"
  <2> HIDE DEF cert
  <2>1. /\ Keeps /\ cli'.hello = cli.hello /\ cli'.inner = cli.inner
        /\ cli'.pc = "readCertificateVerify13"
        /\ cli'.cert = cert /\ cli'.verified = VerifiesChain
        /\ cli'.echRejected = cli.echRejected
    BY <1>0, <1>2 DEF ClientGoes, Keeps, ClientFields
  <2>2. Configured' /\ Cached' /\ Offered'
    BY <1>0, <2>1, KeepsInv DEF Started
  <2>3. Greeted'
    BY <1>0, <2>1 DEF ClientInv, Greeted, Binds, Keeps, UsesECH
  <2>4. Encrypted'
    BY <2>1 DEF Encrypted, Places12
  <2>5. ~cli.echRejected => Trusted(cert, VerifiesChain) /\ VerifyConnection(cert)
    BY <1>0, <1>2, VerifiedCert DEF ClientInv, Encrypted, UsesECH, ECHRejectedCert
  <2>6. Shown'
    BY <2>1, <2>5 DEF Shown, Trusted, Known, Keeps, VerifyConnection, Verified12, Verified13
  <2> QED
    BY <2>1, <2>2, <2>3, <2>4, <2>6 DEF ClientInv
<1> QED
  BY <1>1, <1>2 DEF ReadServerCertificate13, ClientChecks

\* The end of a TLS 1.3 handshake.
LEMMA sendClientFinishedInv ==
  ASSUME ClientInv, sendClientFinished
  PROVE  ClientInv' /\ (cli'.pc = "complete" => ServerAuthOk')
<1>0. DOMAIN cli = ClientFields /\ cli.pc = "sendFinished13" /\ Started /\ now' = now
  BY DEF ClientInv, Configured, sendClientFinished, Started, ClientDone
<1>1. CASE cli.echRejected
  <2>1. /\ \E t : cli' = [cli EXCEPT !.transcript = t, !.pc = "failed", !.err = "ech"]
        /\ cache' \in {cache, None}
    BY <1>1 DEF sendClientFinished
  <2>2. DOMAIN cli' = ClientFields /\ cli'.pc = "failed" /\ cli'.conf = cli.conf
    BY <1>0, <2>1 DEF ClientFields
  <2> QED
    BY <1>0, <2>1, <2>2
    DEF ClientInv, Configured, Cached, Known, Offered, ClientDone, Greeted, Started, Encrypted,
        Shown, Places12, Verified12, Verified13
<1>2. CASE ~cli.echRejected
  <2>1. /\ \E t : cli' = [cli EXCEPT !.transcript = t, !.pc = "complete"]
        /\ cache' = cache
    BY <1>2 DEF sendClientFinished
  <2>2. /\ DOMAIN cli' = ClientFields /\ cli'.pc = "complete" /\ cli'.conf = cli.conf
        /\ cli'.cert = cli.cert /\ cli'.verified = cli.verified
    BY <1>0, <2>1 DEF ClientFields
  <2>3. Trusted(cli.cert, cli.verified) /\ VerifyConnection(cli.cert)
    BY <1>0, <1>2 DEF ClientInv, Shown, Verified13
  <2>4. ServerAuthOk'
    BY <1>0, <2>2, <2>3 DEF ServerAuthOk, Trusted, Known, VerifyConnection
  <2>5. Configured' /\ Cached'
    BY <2>1, <2>2 DEF ClientInv, Configured, Cached, Known
  <2>6. Offered' /\ Greeted' /\ Encrypted'
    BY <2>2 DEF Offered, ClientDone, Greeted, Started, Encrypted, Places12
  <2>7. Shown'
    BY <2>2, <2>3 DEF Shown, Trusted, Known, Verified12, Verified13
  <2> QED
    BY <2>4, <2>5, <2>6, <2>7 DEF ClientInv
<1> QED
  BY <1>1, <1>2

\* A ticket that arrives after the handshake is kept with the certificate of
\* the connection.
LEMMA handleNewSessionTicketInv ==
  ASSUME ClientInv, handleNewSessionTicket
  PROVE  ClientInv' /\ cli' = cli
<1>1. /\ cli.pc = "complete" /\ UNCHANGED <<cli, now>>
      /\ \/ cache' = cache
         \/ cache' = sessionState(conns, now + TicketLifetime, FromServer.ticket)
  BY DEF handleNewSessionTicket, ClientReads
<1>2. Known(cli.cert, cli.verified)
  BY <1>1 DEF ClientInv, Shown
<1>3. CASE cache' = cache
  BY <1>1, <1>3
  DEF ClientInv, Configured, Cached, Known, Offered, ClientDone, Greeted, Started, Binds,
      UsesECH, Encrypted, Shown, Trusted, VerifyConnection
<1>4. CASE cache' = sessionState(conns, now + TicketLifetime, FromServer.ticket)
  <2>1. cache'.cert = cli.cert /\ cache'.verified = cli.verified
    BY <1>4 DEF sessionState
  <2>2. Cached'
    BY <1>2, <2>1 DEF Cached, Known
  <2> QED
    BY <1>1, <2>2
    DEF ClientInv, Configured, Known, Offered, ClientDone, Greeted, Started, Binds,
        UsesECH, Encrypted, Shown, Trusted, VerifyConnection
<1> QED
  BY <1>1, <1>3, <1>4

\* The ServerHello of TLS 1.0-1.2, which may resume the session offered.
LEMMA processServerHello12Inv ==
  ASSUME ClientInv, processServerHello12
  PROVE  ClientInv' /\ cli'.pc # "complete"
<1> DEFINE sh == cli.sh
           full == [cli EXCEPT !.suite = sh.suite, !.alpn = sh.alpn, !.pc = "readCertificate12",
                               !.transcript = <<cli.hello, sh>>]
           again == [full EXCEPT !.didResume = TRUE, !.pc = "readTicket12",
                       !.secret = cli.session.secret, !.ems = cli.session.ems,
                       !.cert = cli.session.cert, !.verified = cli.session.verified,
                       !.curve = cli.session.curve]
<1>0. DOMAIN cli = ClientFields /\ cli.pc = "process12" /\ Started
  BY DEF ClientInv, Configured, processServerHello12, Started, ClientDone
<1>1. CASE FailClient("refused")
  BY <1>1, FailClientInv
<1>f. /\ DOMAIN full = ClientFields /\ full.pc = "readCertificate12" /\ full.conf = cli.conf
      /\ full.session = cli.session /\ full.hello = cli.hello /\ full.inner = cli.inner
      /\ full.verified = cli.verified /\ full.didResume = cli.didResume
      /\ full.usingPSK = cli.usingPSK /\ full.cert = cli.cert
      /\ full.echAccepted = cli.echAccepted /\ full.echRejected = cli.echRejected
  BY <1>0 DEF ClientFields
<1>2. CASE ClientGoes(full)
  <2> HIDE DEF full
  <2>1. Stays
    BY <1>0, <1>2, <1>f DEF ClientGoes, Stays, Keeps, Places12, Verified12, Verified13
  <2> QED
    BY <2>1, StaysInv
<1>3. CASE cli.session # None /\ ClientGoes(again)
  <2> HIDE DEF full
  <2>1. /\ Keeps /\ cli'.pc = "readTicket12" /\ cli'.didResume = TRUE
        /\ cli'.cert = cli.session.cert /\ cli'.verified = cli.session.verified
        /\ cli'.hello = cli.hello /\ cli'.inner = cli.inner
    BY <1>3, <1>f DEF ClientGoes, Keeps, ClientFields
  <2>2. Configured' /\ Cached' /\ Offered'
    BY <1>0, <2>1, KeepsInv DEF Started
  <2>3. Greeted'
    BY <1>0, <2>1 DEF ClientInv, Greeted, Binds, Keeps, UsesECH
  <2>4. Encrypted'
    BY <1>0, <2>1 DEF ClientInv, Encrypted, Keeps, UsesECH, Places12
  <2>5. Trusted(cli.session.cert, cli.session.verified)
    BY <1>0, <1>3 DEF ClientInv, Offered, Started
  <2>6. Shown'
    BY <2>1, <2>5 DEF Shown, Trusted, Known, Keeps, Verified12, Verified13
  <2> QED
    BY <2>1, <2>2, <2>3, <2>4, <2>6 DEF ClientInv
<1> QED
  BY <1>1, <1>2, <1>3 DEF processServerHello12, ClientChecks

\* The Certificate of TLS 1.0-1.2 is only noted, ...
LEMMA ReadServerCertificate12Inv ==
  ASSUME ClientInv, ReadServerCertificate12
  PROVE  ClientInv' /\ cli'.pc # "complete"
<1>0. DOMAIN cli = ClientFields /\ cli.pc = "readCertificate12" /\ Started
  BY DEF ClientInv, Configured, ReadServerCertificate12, ClientReads, Started, ClientDone
<1>1. CASE FailClient("refused")
  BY <1>1, FailClientInv
<1>2. ASSUME NEW t, NEW cert, cert # None,
             ClientGoes([cli EXCEPT !.cert = cert, !.transcript = t, !.pc = "readStatus12"])
      PROVE  ClientInv' /\ cli'.pc # "complete"
  <2>1. /\ Keeps /\ cli'.pc = "readStatus12" /\ cli'.cert = cert
        /\ cli'.hello = cli.hello /\ cli'.inner = cli.inner
    BY <1>0, <1>2 DEF ClientGoes, Keeps, ClientFields
  <2>2. Configured' /\ Cached' /\ Offered'
    BY <1>0, <2>1, KeepsInv DEF Started
  <2>3. Greeted'
    BY <1>0, <2>1 DEF ClientInv, Greeted, Binds, Keeps, UsesECH
  <2>4. Encrypted' /\ Shown'
    BY <1>0, <1>2, <2>1
    DEF ClientInv, Encrypted, Keeps, UsesECH, Places12, Shown, Verified12, Verified13
  <2> QED
    BY <2>1, <2>2, <2>3, <2>4 DEF ClientInv
<1> QED
  BY <1>1, <1>2 DEF ReadServerCertificate12, ClientChecks

\* ... and verified at the next message.
LEMMA VerifyServerCertificate12Inv ==
  ASSUME ClientInv, VerifyServerCertificate12
  PROVE  ClientInv' /\ cli'.pc # "complete"
<1>0. DOMAIN cli = ClientFields /\ cli.pc = "verify12" /\ Started
  BY DEF ClientInv, Configured, VerifyServerCertificate12, Started, ClientDone
<1>1. CASE FailClient("refused")
  BY <1>1, FailClientInv
<1>2. CASE /\ verifyServerCertificate(cli.cert)
           /\ ClientGoes([cli EXCEPT !.verified = VerifiesChain, !.pc = "readKeyExchange12"])
  <2>1. /\ Keeps /\ cli'.pc = "readKeyExchange12" /\ cli'.cert = cli.cert
        /\ cli'.verified = VerifiesChain
        /\ cli'.hello = cli.hello /\ cli'.inner = cli.inner
    BY <1>0, <1>2 DEF ClientGoes, Keeps, ClientFields
  <2>2. Configured' /\ Cached' /\ Offered'
    BY <1>0, <2>1, KeepsInv DEF Started
  <2>3. Greeted'
    BY <1>0, <2>1 DEF ClientInv, Greeted, Binds, Keeps, UsesECH
  <2>4. ~UsesECH /\ cli.cert # None
    BY <1>0 DEF ClientInv, Encrypted, Shown, Places12
  <2>5. Trusted(cli.cert, VerifiesChain) /\ VerifyConnection(cli.cert)
    BY <1>2, <2>4, VerifiedCert DEF ECHRejectedCert, UsesECH
  <2>6. Encrypted'
    BY <2>1, <2>4 DEF Encrypted, Keeps, UsesECH
  <2>7. Shown'
    BY <2>1, <2>5 DEF Shown, Trusted, Known, Keeps, VerifyConnection, Verified12, Verified13
  <2> QED
    BY <2>1, <2>2, <2>3, <2>6, <2>7 DEF ClientInv
<1> QED
  BY <1>1, <1>2 DEF VerifyServerCertificate12, ClientChecks

\* The client's second flight.
LEMMA ReadServerHelloDone12Inv ==
  ASSUME ClientInv, ReadServerHelloDone12
  PROVE  ClientInv' /\ cli'.pc # "complete"
<1>0. DOMAIN cli = ClientFields /\ cli.pc = "readHelloDone12"
  BY DEF ClientInv, Configured, ReadServerHelloDone12, ClientReads
<1>1. CASE FailClient("refused")
  BY <1>1, FailClientInv
<1> DEFINE req == cli.certReq
           cert == IF req = None THEN None
                   ELSE getClientCertificate(cli.conf, cli.vers, requestedSchemes(req), req.cas)
           exchange == IF "ECDHE" \in Flags(cli.suite) THEN cli.curve ELSE "RSA"
           afterDone == Append(cli.transcript, FromServer)
           first == (IF req = None THEN <<>> ELSE <<Certificate(cert)>>)
                    \o <<ClientKeyExchange(exchange)>>
           secret == masterSecret(cli.sh.ems, exchange, afterDone \o first)
           alg == CASE cert = None -> None
                    [] cert # None /\ cli.vers >= TLS12 ->
                         selectSignatureScheme(cli.vers, cert, req.algs)
                    [] OTHER -> legacySigType(cert.key)
           verify == IF cert = None THEN <<>>
                     ELSE <<CertificateVerify(Signature(cert, alg, afterDone \o first))>>
           signed == transcriptMsg(afterDone \o first, verify)
           seen == transcriptMsg(signed, <<Finished(secret, "client", signed)>>)
<1>2. CASE /\ cli' = [cli EXCEPT !.secret = secret, !.ems = cli.sh.ems, !.transcript = seen,
                                 !.pc = "readTicket12"]
           /\ UNCHANGED <<cache, now>>
  <2> HIDE DEF secret, seen
  <2>1. Stays
    BY <1>0, <1>2
    DEF Stays, Keeps, ClientFields, Started, ClientDone, Places12, Verified12, Verified13
  <2> QED
    BY <2>1, StaysInv
<1>3. \/ FailClient("refused")
      \/ /\ cli' = [cli EXCEPT !.secret = secret, !.ems = cli.sh.ems, !.transcript = seen,
                               !.pc = "readTicket12"]
         /\ UNCHANGED <<cache, now>>
  BY Zenon DEF ReadServerHelloDone12
<1> HIDE DEF secret, seen
<1> QED
  BY <1>1, <1>2, <1>3

\* The end of a TLS 1.0-1.2 handshake; in a resumption VerifyConnection is
\* called here.
LEMMA readFinishedInv ==
  ASSUME ClientInv, readFinished
  PROVE  ClientInv' /\ (cli'.pc = "complete" => ServerAuthOk')
<1>0. DOMAIN cli = ClientFields /\ cli.pc = "readFinished12" /\ Started /\ now' = now
  BY DEF ClientInv, Configured, readFinished, ClientReads, Started, ClientDone, FailClient
<1>1. CASE FailClient("refused")
  <2>1. cli'.pc = "failed"
    BY <1>0, <1>1 DEF FailClient, ClientFields
  <2> QED
    BY <1>1, <2>1, FailClientInv
<1>2. ASSUME NEW t, NEW u, cli.didResume => VerifyConnection(cli.cert),
             cli' = [cli EXCEPT !.pc = "complete", !.transcript = t],
             cache' = IF cli.ticket = None THEN cache ELSE sessionState(u, 0, cli.ticket)
      PROVE  ClientInv' /\ ServerAuthOk'
  <2>1. /\ DOMAIN cli' = ClientFields /\ cli'.pc = "complete" /\ cli'.conf = cli.conf
        /\ cli'.cert = cli.cert /\ cli'.verified = cli.verified
    BY <1>0, <1>2 DEF ClientFields
  <2>2. Trusted(cli.cert, cli.verified) /\ VerifyConnection(cli.cert)
    BY <1>0, <1>2 DEF ClientInv, Shown, Verified12
  <2>3. ServerAuthOk'
    BY <1>0, <2>1, <2>2 DEF ServerAuthOk, Trusted, Known, VerifyConnection
  <2>4. Cached'
    <3>1. sessionState(u, 0, cli.ticket).cert = cli.cert
          /\ sessionState(u, 0, cli.ticket).verified = cli.verified
      BY DEF sessionState
    <3> QED
      BY <1>2, <2>2, <3>1 DEF ClientInv, Cached, Trusted, Known
  <2>5. Configured'
    BY <2>1 DEF ClientInv, Configured
  <2>6. Offered' /\ Greeted' /\ Encrypted'
    BY <2>1 DEF Offered, ClientDone, Greeted, Started, Encrypted, Places12
  <2>7. Shown'
    BY <2>1, <2>2 DEF Shown, Trusted, Known, Verified12, Verified13
  <2> QED
    BY <2>3, <2>4, <2>5, <2>6, <2>7 DEF ClientInv
<1>3. \/ FailClient("refused")
      \/ /\ cli.didResume => VerifyConnection(cli.cert)
         /\ \E t, u : /\ cli' = [cli EXCEPT !.pc = "complete", !.transcript = t]
                      /\ cache' = IF cli.ticket = None THEN cache
                                  ELSE sessionState(u, 0, cli.ticket)
  BY Zenon DEF readFinished
<1> QED
  BY <1>1, <1>2, <1>3

\* A read that finds an alert.
LEMMA ClientReadsAlertInv ==
  ASSUME ClientInv, ClientReadsAlert
  PROVE  ClientInv' /\ cli'.pc # "complete"
BY FailClientInv DEF ClientReadsAlert

\* The client's next-state relation keeps the invariant, and a client that
\* completes has authenticated the server.
LEMMA ClientNextInv ==
  ASSUME ClientInv, ClientNext
  PROVE  ClientInv' /\ (cli.pc # "complete" /\ cli'.pc = "complete" => ServerAuthOk')
<1>0. DOMAIN cli = ClientFields
  BY DEF ClientInv, Configured
<1>1. CASE sendClientFinished
  BY <1>1, sendClientFinishedInv
<1>2. CASE readFinished
  BY <1>2, readFinishedInv
<1>3. CASE handleNewSessionTicket
  BY <1>3, handleNewSessionTicketInv
<1>4. CASE /\ ~sendClientFinished /\ ~readFinished /\ ~handleNewSessionTicket
  <2>1. ClientInv' /\ cli'.pc # "complete"
    BY <1>4, ClientStartInv, ClientReadServerHelloInv, ClientReadsAlertInv, PlainStepsInv,
       processHelloRetryRequestInv, processServerHello13Inv, readServerParametersInv,
       ReadServerCertificate13Inv, processServerHello12Inv, ReadServerCertificate12Inv,
       VerifyServerCertificate12Inv, ReadServerHelloDone12Inv
    DEF ClientNext, ClientStep13, ClientStep12
  <2> QED
    BY <2>1
<1> QED
  BY <1>1, <1>2, <1>3, <1>4

-----------------------------------------------------------------------------
(* The server and the environment *)

\* Nothing that ClientInv is about changes, or the client is done.
LEMMA ClientUnmovedInv ==
  ASSUME ClientInv, UNCHANGED <<cli, cache>>, now' = now \/ ClientDone
  PROVE  ClientInv'
<1>1. Configured' /\ Cached'
  BY DEF ClientInv, Configured, Cached, Known
<1>2. Greeted' /\ Encrypted'
  BY DEF ClientInv, Greeted, Started, ClientDone, Binds, UsesECH, Encrypted
<1>3. Offered'
  BY DEF ClientInv, Offered, ClientDone, Trusted, Known
<1>4. Shown'
  BY DEF ClientInv, Shown, ClientDone, Trusted, Known, VerifyConnection, Verified12, Verified13
<1> QED
  BY <1>1, <1>2, <1>3, <1>4 DEF ClientInv

\* The server touches neither the client nor its cache nor the clock.
LEMMA ServerApart ==
  ASSUME ServerNext
  PROVE  UNCHANGED <<cli, cache, now>>
<1> USE DEF ServerSends, FailServerAfter, ServerChecks, ServerKeeps
<1>1. CASE readClientHello \/ ServerReadsAlert
  BY <1>1 DEF readClientHello, ServerReadsAlert
<1>2. CASE ServerStep12
  BY <1>2
  DEF ServerStep12, processClientHello12, checkForResumption12, doResumeHandshake12,
      pickCipherSuite12, sendFlight12, ServerReadCertificate12, ReadClientKeyExchange12,
      ServerReadCertificateVerify12, ServerReadFinished12
<1>3. CASE ServerStep13
  BY <1>3
  DEF ServerStep13, processClientHello13, ReadSecondClientHello13, NegotiateProtocol13,
      checkForResumption13, pickCertificate13, sendServerParameters, sendServerCertificate,
      sendServerFinished, ServerReadCertificate13, ServerReadCertificateVerify13,
      sendSessionTickets, readClientFinished
<1> QED
  BY <1>1, <1>2, <1>3 DEF ServerNext

\* A new connection begins with nothing but the cache.
LEMMA OpenInv ==
  ASSUME ClientInv, NEW c, NEW s, Open(c, s), DOMAIN c = ConfigFields,
         \E d \in ClientConfigs : c.roots = d.roots
  PROVE  ClientInv' /\ cli'.pc = "start"
<1>1. /\ DOMAIN cli' = ClientFields /\ cli'.pc = "start" /\ cli'.conf = c
      /\ cli'.session = None /\ cache' = cache
  BY DEF Open, NewClient, ClientFields
<1>2. Configured' /\ Cached'
  BY <1>1 DEF ClientInv, Configured, Cached, Known
<1>3. Offered' /\ Greeted' /\ Encrypted' /\ Shown'
  BY <1>1 DEF Offered, Greeted, Started, Encrypted, Shown, Places12, Verified12, Verified13
<1> QED
  BY <1>1, <1>2, <1>3 DEF ClientInv

\* The steps of the environment.
LEMMA EnvironmentInv ==
  ASSUME ClientInv, Environment
  PROVE  ClientInv' /\ (cli' = cli \/ cli'.pc = "start")
<1>1. CASE Connect
  <2> PICK c \in ClientConfigs, s \in ServerConfigs : Open(c, s)
    BY <1>1 DEF Connect
  <2>1. DOMAIN c = ConfigFields
    BY HandshakeAssumption DEF ConfigFields
  <2> QED
    BY <2>1, OpenInv
<1>2. CASE RetryWithConfigs
  <2> PICK e : Open([cli.conf EXCEPT !.ech = e], srv.conf)
    BY <1>2 DEF RetryWithConfigs
  <2> DEFINE c == [cli.conf EXCEPT !.ech = e]
  <2>1. DOMAIN c = ConfigFields /\ c.roots = cli.conf.roots
    BY DEF ClientInv, Configured, ConfigFields
  <2>2. \E d \in ClientConfigs : c.roots = d.roots
    BY <2>1 DEF ClientInv, Configured
  <2> HIDE DEF c
  <2>3. Open(c, srv.conf)
    BY DEF c
  <2> QED
    BY <2>1, <2>2, <2>3, OpenInv
<1>3. CASE Tick \/ SetSessionTicketKeys \/ Break \/ RewriteHello
  BY <1>3, ClientUnmovedInv
  DEF Tick, SetSessionTicketKeys, Break, RewriteHello, BetweenConnections
<1> QED
  BY <1>1, <1>2, <1>3 DEF Environment

\* The first state.
LEMMA InitInv == Init => ClientInv
<1> SUFFICES ASSUME Init
             PROVE  ClientInv
  OBVIOUS
<1> DEFINE c == CHOOSE c \in ClientConfigs : TRUE
<1>1. c \in ClientConfigs /\ DOMAIN c = ConfigFields
  BY HandshakeAssumption DEF ConfigFields
<1> HIDE DEF c
<1>2. cli = [NewClient(c) EXCEPT !.pc = "idle"] /\ cache = None
  BY DEF Init, c
<1>3. /\ DOMAIN cli = ClientFields /\ cli.pc = "idle" /\ cli.conf = c
  BY <1>2 DEF NewClient, ClientFields
<1> QED
  BY <1>1, <1>2, <1>3
  DEF ClientInv, Configured, Cached, Offered, ClientDone, Greeted, Started, Encrypted, Shown,
      Places12, Verified12, Verified13

\* Every step keeps the invariant, and one that completes the client's
\* handshake finds the server authenticated.
LEMMA NextInv ==
  ASSUME ClientInv, [Next]_vars
  PROVE  /\ ClientInv'
         /\ cli.pc # "complete" /\ cli'.pc = "complete" => ServerAuthOk'
<1>1. CASE ClientMoves
  BY <1>1, ClientNextInv DEF ClientMoves
<1>2. CASE ServerMoves
  BY <1>2, ServerApart, ClientUnmovedInv DEF ServerMoves
<1>3. CASE Environment
  BY <1>3, EnvironmentInv
<1>4. CASE UNCHANGED vars
  BY <1>4, ClientUnmovedInv DEF vars
<1> QED
  BY <1>1, <1>2, <1>3, <1>4 DEF Next

\* In every reachable state: the Config is one of those given but for its ECH
\* configuration, the cache and the offered session hold certificates that
\* were there and verified, the places are what they say.
THEOREM ClientInvariant == Spec => []ClientInv
<1>1. ClientInv /\ [Next]_vars => ClientInv'
  BY NextInv
<1> QED
  BY <1>1, InitInv, PTL DEF Spec

\* A client that verifies certificates completes a handshake, full or
\* resumed, of any version, only with a server whose certificate was verified
\* for the name, has not expired and passes VerifyConnection
\* (verifyServerCertificate, loadSession, readFinished, readServerFinished).
THEOREM ServerIsAuthenticated == Spec => ServerAuthenticated
<1>1. ClientInv /\ [Next]_vars =>
        [cli.pc # "complete" /\ cli'.pc = "complete" => ServerAuthOk']_vars
  BY NextInv
<1> QED
  BY <1>1, ClientInvariant, PTL DEF Spec, ServerAuthenticated
============================================================================
