------------------------- MODULE ServerHandshake -------------------------
(***************************************************************************)
(* The server's side of a handshake, the peer that module ClientHandshake  *)
(* talks to: serverHandshake and serverHandshakeState of                   *)
(* handshake_server.go for TLS 1.0-1.2, and the functions of               *)
(* serverHandshakeStateTLS13 in handshake_server_tls13.go for TLS 1.3.     *)
(* The order of the latter, ServerStep13, is external: it is that of a TLS *)
(* 1.3 server at the peer, because handshake of that file keeps most of    *)
(* the calls in comments and returns before the last two.  What it does    *)
(* run for REALITY is in module RealityServer.                             *)
(*                                                                         *)
(* As in ClientHandshake an action is one function of the source, failures *)
(* send an alert, and cryptography is ideal.                               *)
(***************************************************************************)
EXTENDS ClientHandshake

VARIABLES
  srv,        \* Conn and handshake state of the server end
  ticketKey   \* the key in use by Config.sessionTicketKeys

serverVars == <<srv, ticketKey>>

NewServer(conf) ==
  [pc |-> "readClientHello", conf |-> conf, hello |-> None, sh |-> None, vers |-> 0,
   suite |-> None, curve |-> None, cert |-> None, alpn |-> "", ems |-> FALSE,
   peer |-> None, verified |-> FALSE, session |-> None, didResume |-> FALSE,
   didHRR |-> FALSE, ech |-> None, outer |-> None, sigAlg |-> None,
   transcript |-> <<>>, secret |-> None, keys |-> 0, serverName |-> None]

ServerDone == srv.pc \in {"idle", "complete", "failed"}

FromClient == Head(toServer)

ServerHasMessage == toServer # <<>> /\ FromClient # Alert

ServerReads(pc) ==
  /\ srv.pc = pc
  /\ ServerHasMessage
  /\ toServer' = Tail(toServer)

\* What never changes in a step of the server.
ServerKeeps == UNCHANGED <<cli, cache, now, conns, ticketKey>>

\* A server that sends a flight and goes on, or fails after having sent it.
ServerSends(flight, new) ==
  /\ srv' = new
  /\ toClient' = toClient \o flight
  /\ ServerKeeps

FailServerAfter(flight) == ServerSends(flight \o <<Alert>>, [srv EXCEPT !.pc = "failed"])

ServerChecks(ok, new) == IF ok THEN ServerSends(<<>>, new) ELSE FailServerAfter(<<>>)

----------------------------------------------------------------------------
(* The ClientHello *)

\* processECHClientHello: the hello to answer, the inner one if one of the
\* keys opens it.
processECHClientHello(outer) ==
  IF outer.ech \notin {NoECH, InnerECH} /\ outer.ech.config \in srv.conf.echKeys
  THEN outer.ech.inner ELSE outer

\* Mutant: no common version is not an error.
readClientHelloM1 ==
  /\ ServerReads("readClientHello")
  /\ LET vers == mutualVersion(srv.conf, FALSE, helloVersions(FromClient))
     IN  ServerSends(<<>>,
           [srv EXCEPT !.hello = FromClient, !.outer = FromClient, !.vers = vers,
                       !.keys = ticketKey,
                       !.pc = IF vers = TLS13 THEN "process13" ELSE "process12"])

readClientHello ==
  /\ ServerReads("readClientHello")
  /\ LET outer == FromClient
         hello == processECHClientHello(outer)
         vers == mutualVersion(srv.conf, FALSE, helloVersions(hello))
         decrypted == hello # outer
     IN  ServerChecks(/\ outer.type = "clientHello"
                      /\ vers # None
                      /\ decrypted => vers = TLS13,
           [srv EXCEPT !.hello = hello, !.outer = outer, !.vers = vers, !.keys = ticketKey,
                       !.ech = IF decrypted THEN outer.ech.config ELSE None,
                       !.pc = IF vers = TLS13 THEN "process13" ELSE "process12"])

----------------------------------------------------------------------------
(* TLS 1.0 to 1.2 *)

\* Mutant: the protocol is chosen and not sent.
LegacyServerHelloM1(vers, canary, ems, alpn) ==
  [type |-> "serverHello", vers |-> vers, supportedVersion |-> 0, hrr |-> FALSE,
   canary |-> canary, sessionIdEcho |-> FALSE, suite |-> None, ems |-> ems, alpn |-> "",
   ticketSupported |-> FALSE, ocspStapling |-> FALSE, selectedGroup |-> None,
   serverShare |-> None, psk |-> FALSE, echAccept |-> None]

\* A ServerHello of TLS 1.0-1.2 before the suite is known.
LegacyServerHello(vers, canary, ems, alpn) ==
  [type |-> "serverHello", vers |-> vers, supportedVersion |-> 0, hrr |-> FALSE,
   canary |-> canary, sessionIdEcho |-> FALSE, suite |-> None, ems |-> ems, alpn |-> alpn,
   ticketSupported |-> FALSE, ocspStapling |-> FALSE, selectedGroup |-> None,
   serverShare |-> None, psk |-> FALSE, echAccept |-> None]

\* Mutant: only old versions are marked.
downgradeCanaryM1(conf, vers) ==
  IF maxSupportedVersion(conf, FALSE) >= TLS12 /\ vers < TLS12 THEN "TLS11" ELSE ""

\* The mark in our random that we would have spoken a higher version.
downgradeCanary(conf, vers) ==
  LET max == maxSupportedVersion(conf, FALSE)
  IN  CASE max >= TLS12 /\ vers < max /\ vers = TLS12 -> "TLS12"
        [] max >= TLS12 /\ vers < max /\ vers # TLS12 -> "TLS11"
        [] OTHER -> ""

processClientHello12 ==
  LET hello == srv.hello
      alpn == negotiateALPN(srv.conf.nextProtos, hello.alpn)
      cert == getCertificate(srv.conf, hello)
  IN  /\ srv.pc = "process12"
      /\ UNCHANGED toServer
      /\ ServerChecks(alpn # None /\ cert # None,
           [srv EXCEPT !.cert = cert, !.alpn = alpn, !.serverName = hello.serverName,
              !.sh = LegacyServerHello(srv.vers, downgradeCanary(srv.conf, srv.vers),
                                       hello.ems, alpn),
              !.pc = "checkForResumption12"])

\* The suites that go with the certificate, the curves and the version.
cipherSuiteOk(s) ==
  /\ IF "ECDHE" \in Flags(s)
     THEN /\ supportsECDHE(srv.conf, srv.vers, srv.hello.curves)
          /\ "ECSign" \in Flags(s) <=> srv.cert.key \in {"ecdsa", "ed25519"}
     ELSE srv.cert.key \in {"rsa", "rsa512"}
  /\ srv.vers < TLS12 => "TLS12" \notin Flags(s)

\* decryptTicket: the session in a ticket sealed with one of our keys.
decryptTicket(ticket) ==
  IF ticket # None /\ ticket.key = srv.keys THEN ticket.state ELSE None

\* Mutant: a certificate in the session is as good as a verified one.
ClientCertAcceptableM1(s) ==
  IF s.peer = None THEN ~requiresClientCert(srv.conf.clientAuth)
  ELSE srv.conf.clientAuth # NoClientCert /\ now <= s.peer.notAfter

\* Whether a session's client certificate satisfies the current ClientAuth.
ClientCertAcceptable(s) ==
  LET auth == srv.conf.clientAuth
  IN  IF s.peer = None THEN ~requiresClientCert(auth)
      ELSE /\ auth # NoClientCert
           /\ now <= s.peer.notAfter
           /\ auth >= VerifyClientCertIfGiven => s.verified

\* Whether checkForResumption gets as far as comparing master secret kinds.
Resumable12(s) ==
  /\ s # None
  /\ now - s.createdAt <= TicketLifetime
  /\ srv.vers = s.version
  /\ s.suite \in Elements(srv.hello.cipherSuites)
  /\ s.suite \in Elements(cipherSuites(srv.conf)) /\ cipherSuiteOk(s.suite)
  /\ ClientCertAcceptable(s)

checkForResumption12 ==
  LET s == IF srv.conf.ticketsDisabled THEN None ELSE decryptTicket(srv.hello.sessionTicket)
      full == [srv EXCEPT !.pc = "pickCipherSuite12"]
      resumed == [srv EXCEPT !.pc = "doResumeHandshake12", !.session = s, !.didResume = TRUE,
                    !.suite = s.suite, !.peer = s.peer, !.verified = s.verified,
                    !.ems = s.ems, !.curve = s.curve]
  IN  /\ srv.pc = "checkForResumption12"
      /\ UNCHANGED toServer
      /\ ServerChecks(Resumable12(s) /\ s.ems => srv.hello.ems,
                      IF Resumable12(s) /\ s.ems = srv.hello.ems THEN resumed ELSE full)

\* Mutant: the ticket of a resumption names this connection's secret.
NewSessionTicketM1(secret) ==
  [type |-> "newSessionTicket",
   ticket |-> [key |-> srv.keys,
               state |-> [version |-> srv.vers, suite |-> srv.suite, secret |-> conns,
                          ems |-> srv.ems, alpn |-> srv.alpn, curve |-> srv.curve,
                          peer |-> srv.peer, verified |-> srv.verified, createdAt |-> now]]]

\* A ticket with the state of this connection; one that wraps the same
\* secret again keeps the age of the first.
NewSessionTicket(secret) ==
  [type |-> "newSessionTicket",
   ticket |-> [key |-> srv.keys,
               state |-> [version |-> srv.vers, suite |-> srv.suite, secret |-> secret,
                          ems |-> srv.ems, alpn |-> srv.alpn, curve |-> srv.curve,
                          peer |-> srv.peer, verified |-> srv.verified,
                          createdAt |-> IF srv.vers # TLS13 /\ srv.session # None
                                        THEN srv.session.createdAt ELSE now]]]

\* Mutant: the server waits for the client's Finished first.
doResumeHandshake12M1 ==
  LET sh == [srv.sh EXCEPT !.suite = srv.suite, !.sessionIdEcho = TRUE, !.ticketSupported = TRUE]
      ticket == NewSessionTicket(srv.session.secret)
  IN  /\ srv.pc = "doResumeHandshake12"
      /\ UNCHANGED toServer
      /\ ServerSends(<<sh, ticket>>,
           [srv EXCEPT !.sh = sh, !.secret = srv.session.secret, !.pc = "readFinished12",
                       !.transcript = <<srv.hello, sh, ticket>>])

\* doResumeHandshake, sendSessionTicket and sendFinished.
doResumeHandshake12 ==
  LET sh == [srv.sh EXCEPT !.suite = srv.suite, !.sessionIdEcho = TRUE, !.ticketSupported = TRUE]
      secret == srv.session.secret
      hellos == <<srv.hello, sh>>
      ticket == NewSessionTicket(secret)
      finished == Finished(secret, "server", Append(hellos, ticket))
  IN  /\ srv.pc = "doResumeHandshake12"
      /\ UNCHANGED toServer
      /\ ServerSends(<<sh, ticket, finished>>,
           [srv EXCEPT !.sh = sh, !.secret = secret, !.pc = "readFinished12",
                       !.transcript = transcriptMsg(hellos, <<ticket, finished>>)])

pickCipherSuite12 ==
  LET suite == selectCipherSuite(cipherSuites(srv.conf), srv.hello.cipherSuites,
                                 {s \in DOMAIN cipherSuitesTLS12 : cipherSuiteOk(s)})
  IN  /\ srv.pc = "pickCipherSuite12"
      /\ UNCHANGED toServer
      /\ ServerChecks(suite # None, [srv EXCEPT !.suite = suite, !.pc = "sendFlight12"])

\* generateServerKeyExchange for ECDHE: the curve, and the signature scheme.
keyExchangeCurve ==
  First(srv.hello.curves, LAMBDA x : supportsCurve(srv.conf, srv.vers, x))

keyExchangeAlg ==
  IF srv.vers >= TLS12 THEN selectSignatureScheme(srv.vers, srv.cert, srv.hello.sigAlgs)
                       ELSE legacySigType(srv.cert.key)

KeyExchangeSigned ==
  /\ keyExchangeCurve # None
  /\ keyExchangeAlg # None
  /\ LET type == IF srv.vers >= TLS12 THEN sigType(keyExchangeAlg) ELSE keyExchangeAlg
     IN  isRSASignature(type) <=> "ECSign" \notin Flags(srv.suite)

CertificateRequest(vers, conf) ==
  [type |-> "certificateRequest", cas |-> conf.clientCAs,
   algs |-> IF vers >= TLS12 THEN defaultSupportedSignatureAlgorithms ELSE <<>>]

\* doFullHandshake up to the first read.
sendFlight12 ==
  LET sh == [srv.sh EXCEPT !.suite = srv.suite, !.ocspStapling = srv.cert.staple,
               !.ticketSupported = srv.hello.ticketSupported /\ ~srv.conf.ticketsDisabled]
      start == <<sh, Certificate(srv.cert)>>
               \o (IF srv.cert.staple THEN <<[type |-> "certificateStatus"]>> ELSE <<>>)
      ecdhe == "ECDHE" \in Flags(srv.suite)
      exchange == IF ~ecdhe THEN <<>>
                  ELSE <<[type |-> "serverKeyExchange", curve |-> keyExchangeCurve,
                          alg |-> keyExchangeAlg, signer |-> srv.cert]>>
      asks == srv.conf.clientAuth >= RequestClientCert
      rest == (IF asks THEN <<CertificateRequest(srv.vers, srv.conf)>> ELSE <<>>)
              \o <<[type |-> "serverHelloDone"]>>
      flight == start \o exchange \o rest
  IN  /\ srv.pc = "sendFlight12"
      /\ UNCHANGED toServer
      /\ IF ecdhe /\ ~KeyExchangeSigned THEN FailServerAfter(start)
         ELSE ServerSends(flight,
                [srv EXCEPT !.sh = sh, !.transcript = <<srv.hello>> \o flight,
                            !.curve = IF ecdhe THEN keyExchangeCurve ELSE @,
                            !.pc = IF asks THEN "readCertificate12" ELSE "readKeyExchange12"])

\* processCertsFromClient
ClientCertOk(cert) ==
  /\ cert = None => ~requiresClientCert(srv.conf.clientAuth)
  /\ cert # None /\ srv.conf.clientAuth >= VerifyClientCertIfGiven =>
       cert.issuer \in srv.conf.clientCAs /\ now <= cert.notAfter

WithClientCert(cert) ==
  [srv EXCEPT !.peer = cert,
              !.verified = cert # None /\ srv.conf.clientAuth >= VerifyClientCertIfGiven,
              !.transcript = transcriptMsg(@, <<FromClient>>)]

ServerReadCertificate12 ==
  /\ ServerReads("readCertificate12")
  /\ ServerChecks(FromClient.type = "certificate" /\ ClientCertOk(FromClient.cert),
                  [WithClientCert(FromClient.cert) EXCEPT !.pc = "readKeyExchange12"])

ReadClientKeyExchange12 ==
  LET exchange == IF "ECDHE" \in Flags(srv.suite) THEN srv.curve ELSE "RSA"
      seen == Append(srv.transcript, FromClient)
  IN  /\ ServerReads("readKeyExchange12")
      /\ ServerChecks(FromClient.type = "clientKeyExchange" /\ FromClient.exchange = exchange,
           [srv EXCEPT !.transcript = seen, !.ems = srv.sh.ems,
                       !.secret = masterSecret(srv.sh.ems, exchange, seen),
                       !.pc = IF srv.peer = None THEN "readFinished12"
                                                 ELSE "readCertificateVerify12"])

ServerReadCertificateVerify12 ==
  LET sig == FromClient.sig
  IN  /\ ServerReads("readCertificateVerify12")
      /\ ServerChecks(/\ FromClient.type = "certificateVerify"
                      /\ srv.vers >= TLS12 =>
                           sig.alg \in Elements(defaultSupportedSignatureAlgorithms)
                      /\ sig = Signature(srv.peer, sig.alg, srv.transcript),
           [srv EXCEPT !.transcript = transcriptMsg(@, <<FromClient>>), !.pc = "readFinished12"])

\* readFinished and the rest of handshake: in a full handshake the ticket and
\* our Finished follow it.
ServerReadFinished12 ==
  LET seen == transcriptMsg(srv.transcript, <<FromClient>>)
      ticket == IF srv.sh.ticketSupported THEN <<NewSessionTicket(conns)>> ELSE <<>>
      finished == Finished(srv.secret, "server", seen \o ticket)
      flight == IF srv.didResume THEN <<>> ELSE Append(ticket, finished)
  IN  /\ ServerReads("readFinished12")
      /\ IF FromClient = Finished(srv.secret, "client", srv.transcript)
         THEN ServerSends(flight, [srv EXCEPT !.transcript = transcriptMsg(seen, flight),
                                           !.pc = "complete"])
         ELSE FailServerAfter(<<>>)

----------------------------------------------------------------------------
(* TLS 1.3 *)

ServerHello13 ==
  [LegacyServerHello(TLS12, "", FALSE, "") EXCEPT
     !.supportedVersion = TLS13, !.sessionIdEcho = TRUE, !.suite = srv.suite]

\* The group of the key exchange: the hybrid if both ends have it, then one
\* that the client sent a share for, then our order.
selectedGroup(conf, hello) ==
  LET groups == SelectSeq(curvePreferences(conf, TLS13), LAMBDA x : x \in Elements(hello.curves))
      hybrid == First(groups, isTLS13OnlyKeyExchange)
      shared == First(groups, LAMBDA x : x \in hello.keyShares)
  IN  CASE hybrid # None                    -> hybrid
        [] hybrid = None /\ shared # None   -> shared
        [] OTHER                            -> First(groups, LAMBDA x : TRUE)

\* processClientHello up to the choice of the group.  A group without a share
\* takes a HelloRetryRequest (the first half of doHelloRetryRequest).
processClientHello13 ==
  LET hello == srv.hello
      suite == First(defaultCipherSuitesTLS13, LAMBDA s : s \in Elements(hello.cipherSuites))
      group == selectedGroup(srv.conf, hello)
      hrr == [ServerHello13 EXCEPT !.suite = suite, !.hrr = TRUE, !.selectedGroup = group,
                !.echAccept = IF srv.ech # None THEN <<hello>> ELSE None]
      new == [srv EXCEPT !.suite = suite, !.curve = group]
  IN  /\ srv.pc = "process13"
      /\ UNCHANGED toServer
      /\ IF hello.supportedVersions = <<>> \/ suite = None \/ group = None
         THEN FailServerAfter(<<>>)
         ELSE IF group \in hello.keyShares
              THEN ServerSends(<<>>, [new EXCEPT !.pc = "negotiate13"])
              ELSE ServerSends(<<hrr>>, [new EXCEPT !.transcript = <<hello, hrr>>,
                                                    !.pc = "readSecondHello13"])

illegalClientHelloChange(ch, ch1) ==
  \/ ch.supportedVersions # ch1.supportedVersions
  \/ ch.cipherSuites # ch1.cipherSuites
  \/ ch.curves # ch1.curves
  \/ ch.sigAlgs # ch1.sigAlgs
  \/ ch.alpn # ch1.alpn
  \/ ch.vers # ch1.vers
  \/ ch.serverName # ch1.serverName
  \/ ch.ticketSupported # ch1.ticketSupported
  \/ ch.sessionTicket # ch1.sessionTicket
  \/ ch.pskDHE # ch1.pskDHE

\* The second half of doHelloRetryRequest.
ReadSecondClientHello13 ==
  /\ ServerReads("readSecondHello13")
  /\ LET outer == FromClient
         sealed == /\ outer.ech \notin {NoECH, InnerECH}
                   /\ outer.ech.config = srv.ech
         hello == IF srv.ech = None THEN outer ELSE outer.ech.inner
     IN  ServerChecks(/\ outer.type = "clientHello"
                      /\ srv.ech # None => sealed
                      /\ hello.keyShares = {srv.curve}
                      /\ ~illegalClientHelloChange(hello, srv.hello),
           [srv EXCEPT !.hello = hello, !.didHRR = TRUE, !.pc = "negotiate13"])

\* The end of processClientHello.
NegotiateProtocol13 ==
  LET alpn == negotiateALPN(srv.conf.nextProtos, srv.hello.alpn)
  IN  /\ srv.pc = "negotiate13"
      /\ UNCHANGED toServer
      /\ ServerChecks(alpn # None,
           [srv EXCEPT !.alpn = alpn, !.serverName = srv.hello.serverName,
                       !.pc = "checkForResumption13"])

Resumable13(s) ==
  /\ s # None
  /\ s.version = TLS13
  /\ now - s.createdAt <= TicketLifetime
  /\ cipherSuitesTLS13[s.suite] = cipherSuitesTLS13[srv.suite]
  /\ ClientCertAcceptable(s)

\* The one identity that our clients send is taken, skipped, or refused for
\* its binder.
checkForResumption13 ==
  LET s == IF srv.conf.ticketsDisabled \/ ~srv.hello.pskDHE THEN None
           ELSE decryptTicket(srv.hello.psk)
      full == [srv EXCEPT !.pc = "pickCertificate13"]
      resumed == [full EXCEPT !.session = s, !.didResume = TRUE, !.peer = s.peer,
                              !.verified = s.verified]
  IN  /\ srv.pc = "checkForResumption13"
      /\ UNCHANGED toServer
      /\ ServerChecks(Resumable13(s) =>
             srv.hello.binder = Binder(s.secret, srv.hello, srv.transcript),
           IF Resumable13(s) THEN resumed ELSE full)

pickCertificate13 ==
  LET cert == getCertificate(srv.conf, srv.hello)
      alg == IF cert = None THEN None ELSE selectSignatureScheme(TLS13, cert, srv.hello.sigAlgs)
      next == [srv EXCEPT !.pc = "sendParameters13"]
  IN  /\ srv.pc = "pickCertificate13"
      /\ UNCHANGED toServer
      /\ IF srv.didResume THEN ServerSends(<<>>, next)
         ELSE ServerChecks(srv.hello.sigAlgs # <<>> /\ alg # None,
                           [next EXCEPT !.cert = cert, !.sigAlg = alg])

\* The configurations that a client may retry with.
buildRetryConfigList(conf) == IF conf.echRetry = {} THEN None ELSE conf.echRetry

sendServerParameters ==
  LET hellos == Append(srv.transcript, srv.hello)
      sh == [ServerHello13 EXCEPT !.serverShare = srv.curve, !.psk = srv.didResume,
                                  !.echAccept = IF srv.ech # None THEN hellos ELSE None]
      ee == [type |-> "encryptedExtensions", alpn |-> srv.alpn,
             retryConfigs |-> IF srv.hello.ech # NoECH /\ srv.ech = None
                              THEN buildRetryConfigList(srv.conf) ELSE None]
      psk == IF srv.didResume THEN srv.session.secret ELSE None
  IN  /\ srv.pc = "sendParameters13"
      /\ UNCHANGED toServer
      /\ ServerSends(<<sh, ee>>,
           [srv EXCEPT !.sh = sh, !.transcript = hellos \o <<sh, ee>>,
                       !.secret = Secret13(psk, srv.curve), !.pc = "sendCertificate13"])

requestClientCert == srv.conf.clientAuth >= RequestClientCert /\ ~srv.didResume

sendServerCertificate ==
  LET request == IF requestClientCert THEN <<CertificateRequest(TLS13, srv.conf)>> ELSE <<>>
      flight == Append(request, Certificate(srv.cert))
      verify == CertificateVerify(Signature(srv.cert, srv.sigAlg, srv.transcript \o flight))
      sent == IF srv.didResume THEN <<>> ELSE Append(flight, verify)
  IN  /\ srv.pc = "sendCertificate13"
      /\ UNCHANGED toServer
      /\ ServerSends(sent, [srv EXCEPT !.transcript = transcriptMsg(@, sent),
                                       !.pc = "sendFinished13"])

\* sendSessionTickets: the client's Finished is computed beforehand and put
\* into the transcript, and a ticket goes to clients that can use it.
clientFinished == Finished(srv.secret, "client", srv.transcript)

SessionTickets ==
  IF srv.conf.ticketsDisabled \/ ~srv.hello.pskDHE THEN <<>> ELSE <<NewSessionTicket(conns)>>

\* With no client certificate to wait for, the tickets go with the Finished.
sendServerFinished ==
  LET finished == Finished(srv.secret, "server", srv.transcript)
      seen == transcriptMsg(srv.transcript, <<finished>>)
      client == Finished(srv.secret, "client", seen)
  IN  /\ srv.pc = "sendFinished13"
      /\ UNCHANGED toServer
      /\ IF requestClientCert
         THEN ServerSends(<<finished>>,
                [srv EXCEPT !.transcript = seen, !.pc = "readCertificate13"])
         ELSE ServerSends(<<finished>> \o SessionTickets,
                [srv EXCEPT !.transcript = transcriptMsg(seen, <<client>>),
                            !.pc = "readFinished13"])

\* readClientCertificate: the Certificate, ...
ServerReadCertificate13 ==
  /\ ServerReads("readCertificate13")
  /\ ServerChecks(FromClient.type = "certificate" /\ ClientCertOk(FromClient.cert),
       [WithClientCert(FromClient.cert) EXCEPT
          !.pc = IF FromClient.cert = None THEN "sendTickets13" ELSE "readCertificateVerify13"])

\* ... a CertificateVerify unless it was empty, ...
ServerReadCertificateVerify13 ==
  LET sig == FromClient.sig
  IN  /\ ServerReads("readCertificateVerify13")
      /\ ServerChecks(/\ FromClient.type = "certificateVerify"
                      /\ sig.alg \in Elements(defaultSupportedSignatureAlgorithms)
                      /\ sigType(sig.alg) # "PKCS1v15" /\ sig.alg # "ECDSASHA1"
                      /\ sig = Signature(srv.peer, sig.alg, srv.transcript),
           [srv EXCEPT !.transcript = transcriptMsg(@, <<FromClient>>), !.pc = "sendTickets13"])

\* ... and the tickets.
sendSessionTickets ==
  /\ srv.pc = "sendTickets13"
  /\ UNCHANGED toServer
  /\ ServerSends(SessionTickets,
       [srv EXCEPT !.transcript = transcriptMsg(@, <<clientFinished>>), !.pc = "readFinished13"])

readClientFinished ==
  /\ ServerReads("readFinished13")
  /\ ServerChecks(FromClient = Finished(srv.secret, "client",
                                        SubSeq(srv.transcript, 1, Len(srv.transcript) - 1)),
                  [srv EXCEPT !.pc = "complete"])

----------------------------------------------------------------------------
ServerReading ==
  srv.pc \in {"readClientHello", "readSecondHello13", "readCertificate13",
    "readCertificateVerify13", "readFinished13", "readCertificate12", "readKeyExchange12",
    "readCertificateVerify12", "readFinished12"}

\* A read that finds an alert or the end of the stream.
ServerReadsAlert ==
  /\ ServerReading /\ toServer # <<>> /\ FromClient = Alert
  /\ toServer' = Tail(toServer)
  /\ FailServerAfter(<<>>)

ServerStep12 ==
  \/ processClientHello12 \/ checkForResumption12 \/ doResumeHandshake12
  \/ pickCipherSuite12 \/ sendFlight12 \/ ServerReadCertificate12
  \/ ReadClientKeyExchange12 \/ ServerReadCertificateVerify12 \/ ServerReadFinished12

ServerStep13 ==
  \/ processClientHello13 \/ ReadSecondClientHello13 \/ NegotiateProtocol13
  \/ checkForResumption13 \/ pickCertificate13 \/ sendServerParameters
  \/ sendServerCertificate \/ sendServerFinished \/ ServerReadCertificate13
  \/ ServerReadCertificateVerify13 \/ sendSessionTickets \/ readClientFinished

ServerNext == readClientHello \/ ServerReadsAlert \/ ServerStep12 \/ ServerStep13
============================================================================
