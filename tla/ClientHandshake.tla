------------------------- MODULE ClientHandshake -------------------------
(***************************************************************************)
(* The client's side of a handshake: clientHandshake of                    *)
(* handshake_client.go, the TLS 1.0-1.2 states of clientHandshakeState and *)
(* the TLS 1.3 states of clientHandshakeStateTLS13, and the tickets that   *)
(* arrive after a TLS 1.3 handshake.                                       *)
(*                                                                         *)
(* A client runs one handshake after the other against the same server     *)
(* name; the session cache is what survives.  The code between two reads   *)
(* is sequential, so an action is one function of the source, from the     *)
(* message it reads to the messages it writes.  Whatever check fails, the  *)
(* function sends an alert or just returns its error, and the application  *)
(* closes the connection: Fail stands for both.                            *)
(*                                                                         *)
(* Cryptography is ideal.  A transcript is the sequence of the messages    *)
(* hashed; a MAC, a signature or a PSK binder is a record of the secret or *)
(* key it was made with and of the transcript it covers, and verifies when *)
(* both are the ones expected.                                             *)
(***************************************************************************)
EXTENDS Negotiation

CONSTANTS ServerName,   \* Config.ServerName, also the key of the session cache
          PublicName,   \* the public name of every ECH configuration
          TicketLifetime \* maxSessionTicketLifetime, in the clock's units

ASSUME ClientAssumption ==
  /\ TicketLifetime \in Nat \ {0}
  /\ ServerName # None /\ PublicName # None /\ ServerName # PublicName
  /\ None # "ech"   \* no error is not an ECHRejectionError

VARIABLES
  cli,       \* Conn and handshake state of the client end
  toServer,  \* messages on their way to the server
  toClient,  \* messages on their way to the client
  cache,     \* ClientSessionCache at key ServerName: a session or None
  now,       \* the clock that Config.time reads
  conns      \* number of connections so far: the name of a connection's secrets

clientVars == <<cli, toServer, toClient, cache, now, conns>>

NewClient(conf) ==
  [pc |-> "start", conf |-> conf, hello |-> None, inner |-> None, session |-> None,
   sh |-> None, vers |-> 0, suite |-> None, curve |-> None, alpn |-> "",
   cert |-> None, verified |-> FALSE, didResume |-> FALSE, usingPSK |-> FALSE,
   echAccepted |-> FALSE, echRejected |-> FALSE, didHRR |-> FALSE,
   transcript |-> <<>>, innerTranscript |-> <<>>, secret |-> None, ems |-> FALSE,
   certReq |-> None, ticket |-> None, serverName |-> None,
   retryConfigs |-> None, err |-> None]

Alert == [type |-> "alert"]

\* Messages hashed into a transcript.  What a signature or a MAC covers is in
\* the transcript already, so that only the kind of it is recorded.
Hashed(msg) ==
  CASE msg.type = "finished"          -> [type |-> "finished", from |-> msg.from]
    [] msg.type = "certificateVerify" -> [type |-> "certificateVerify", alg |-> msg.sig.alg]
    [] OTHER                          -> msg

transcriptMsg(transcript, msgs) == transcript \o [i \in DOMAIN msgs |-> Hashed(msgs[i])]

ClientDone == cli.pc \in {"idle", "complete", "failed"}

\* An error ends the handshake.  When a session had been offered it is
\* thrown away (the deferred function of clientHandshake).
FailClient(err) ==
  /\ cli' = [cli EXCEPT !.pc = "failed", !.err = err]
  /\ toServer' = Append(toServer, Alert)
  /\ cache' = IF cli.session # None THEN None ELSE cache
  /\ UNCHANGED <<now, conns>>

FromServer == Head(toClient)

ClientHasMessage == toClient # <<>> /\ FromServer # Alert

\* The next message for the client, consumed by the action that reads it.
ClientReads(pc) ==
  /\ cli.pc = pc
  /\ ClientHasMessage
  /\ toClient' = Tail(toClient)

----------------------------------------------------------------------------
(* The ClientHello *)

\* The groups that get a key share: the first choice, and X25519 beside the
\* hybrid of which it is a part.
firstKeyShares(curves) ==
  IF Head(curves) = "X25519MLKEM768"
  THEN {"X25519MLKEM768"} \cup (Elements(curves) \cap {"X25519"})
  ELSE {Head(curves)}

\* The errors of makeClientHello: no version left, no curve for TLS 1.3, or
\* version limits that rule out Encrypted Client Hello.
HelloImpossible(conf) ==
  LET versions == supportedVersions(conf, TRUE)
      max == maxSupportedVersion(conf, TRUE)
  IN  \/ versions = <<>>
      \/ max = TLS13 /\ curvePreferences(conf, max) = <<>>
      \/ conf.ech # None /\ conf.minVersion # 0 /\ conf.minVersion < TLS13
      \/ conf.ech # None /\ conf.maxVersion # 0 /\ conf.maxVersion <= TLS12

\* The encrypted_client_hello extension of a hello without one, and of an inner
\* hello.
NoECH == [config |-> None]
InnerECH == [config |-> None, inner |-> None]

makeClientHello(conf) ==
  LET versions == supportedVersions(conf, TRUE)
      max == Head(versions)
      curves == curvePreferences(conf, max)
      legacy == SelectSeq(cipherSuites(conf), LAMBDA s :
                  max < TLS12 => "TLS12" \notin cipherSuitesTLS12[s])
  IN  [type |-> "clientHello",
       vers |-> IF max > TLS12 THEN TLS12 ELSE max,
       supportedVersions |-> versions,
       cipherSuites |-> (IF versions = <<TLS13>> THEN <<>> ELSE legacy)
                        \o (IF max = TLS13 THEN defaultCipherSuitesTLS13 ELSE <<>>),
       curves |-> curves,
       keyShares |-> IF max = TLS13 THEN firstKeyShares(curves) ELSE {},
       sigAlgs |-> IF max >= TLS12 THEN defaultSupportedSignatureAlgorithms ELSE <<>>,
       alpn |-> conf.nextProtos,
       serverName |-> ServerName,
       ems |-> conf.ech = None,
       ticketSupported |-> FALSE, sessionTicket |-> None,
       pskDHE |-> FALSE, psk |-> None, binder |-> None,
       ech |-> IF conf.ech = None THEN NoECH ELSE InnerECH]

\* A PSK binder: made with the session's secret over the hello without its
\* binders and over what the transcript holds before it.
Binder(secret, hello, prefix) ==
  [secret |-> secret, over |-> [hello EXCEPT !.binder = None], prefix |-> prefix]

UsesTickets(conf) == conf.sessionCache /\ ~conf.ticketsDisabled

\* Mutant: a session that nobody verified is offered by a client that verifies.
SessionUsableM1(conf, hello, s) ==
  /\ s # None
  /\ s.version \in Elements(hello.supportedVersions)
  /\ s.version # TLS13 => s.suite \in Elements(hello.cipherSuites)
  /\ s.version = TLS13 => now <= s.useBy

\* Whether loadSession may offer the cached session s in hello.
SessionUsable(conf, hello, s) ==
  /\ s # None
  /\ s.version \in Elements(hello.supportedVersions)
  /\ now <= s.cert.notAfter
  /\ ~conf.insecureSkipVerify => s.verified /\ ServerName \in s.cert.names
  /\ IF s.version # TLS13
     THEN s.suite \in Elements(hello.cipherSuites)
     ELSE /\ now <= s.useBy
          /\ \E x \in Elements(hello.cipherSuites) :
               isTLS13Suite(x) /\ cipherSuitesTLS13[x] = cipherSuitesTLS13[s.suite]

\* Whether loadSession removes s from the cache: its certificate or, all else
\* being right, its ticket has expired.
SessionExpired(conf, hello, s) ==
  /\ s # None
  /\ s.version \in Elements(hello.supportedVersions)
  /\ \/ now > s.cert.notAfter
     \/ /\ ~conf.insecureSkipVerify => s.verified /\ ServerName \in s.cert.names
        /\ s.version = TLS13 /\ now > s.useBy

\* The hello with what loadSession adds to it.
loadSession(conf, hello, s) ==
  LET with == [hello EXCEPT !.ticketSupported = conf.ech = None,
                            !.pskDHE = Head(hello.supportedVersions) = TLS13]
      offered == [with EXCEPT !.psk = s.ticket]
  IN  CASE ~UsesTickets(conf) -> hello
        [] UsesTickets(conf) /\ s = None -> with
        [] UsesTickets(conf) /\ s # None /\ s.version # TLS13 ->
             [with EXCEPT !.sessionTicket = s.ticket]
        [] UsesTickets(conf) /\ s # None /\ s.version = TLS13 ->
             [offered EXCEPT !.binder = Binder(s.secret, offered, <<>>)]

\* Mutant: the outer hello keeps the name.
OuterHelloM1(conf, inner, outer) ==
  [outer EXCEPT !.ech = [config |-> conf.ech, inner |-> inner]]

\* The outer hello: another name, and the inner one sealed for the holder of
\* the configuration.  The pre_shared_key extension stays as it is.
OuterHello(conf, inner, outer) ==
  [outer EXCEPT !.serverName = PublicName,
                !.ech = [config |-> conf.ech, inner |-> inner]]

\* clientHandshake up to the first read.
ClientStart ==
  LET conf == cli.conf
      made == makeClientHello(conf)
      s == IF UsesTickets(conf) /\ SessionUsable(conf, made, cache) THEN cache ELSE None
      hello == loadSession(conf, made, s)
      sent == IF conf.ech = None THEN hello ELSE OuterHello(conf, hello, hello)
  IN  /\ cli.pc = "start"
      /\ UNCHANGED toClient
      /\ IF HelloImpossible(conf) THEN FailClient("config")
         ELSE /\ cli' = [cli EXCEPT !.pc = "readServerHello", !.session = s, !.hello = sent,
                                    !.inner = IF conf.ech = None THEN None ELSE hello,
                                    !.serverName = sent.serverName]
              /\ toServer' = Append(toServer, sent)
              /\ cache' = IF UsesTickets(conf) /\ SessionExpired(conf, made, cache)
                          THEN None ELSE cache
              /\ UNCHANGED <<now, conns>>

----------------------------------------------------------------------------
(* The ServerHello *)

\* A client reads on without touching the cache or the clock.
ClientGoes(new) == cli' = new /\ UNCHANGED <<toServer, cache, now, conns>>

\* A client that checks something and goes on, or fails.
ClientChecks(ok, new) ==
  IF ok THEN ClientGoes(new) ELSE FailClient("refused")

\* The version of a ServerHello that this client accepts, or None.
pickTLSVersion(sh) ==
  mutualVersion(cli.conf, TRUE,
    <<IF sh.supportedVersion # 0 THEN sh.supportedVersion ELSE sh.vers>>)

\* The server's mark in its random that it could have done better.
downgradeDetected(vers, canary) ==
  LET max == maxSupportedVersion(cli.conf, TRUE)
  IN  \/ max = TLS13 /\ vers <= TLS12 /\ canary \in {"TLS12", "TLS11"}
      \/ max = TLS12 /\ vers <= TLS11 /\ canary = "TLS11"

\* clientHandshake after the read, up to the state machine of the version.
ClientReadServerHello ==
  /\ ClientReads("readServerHello")
  /\ LET sh == FromServer
         vers == pickTLSVersion(sh)
     IN  ClientChecks(/\ sh.type = "serverHello"
                      /\ vers # None
                      /\ ~downgradeDetected(vers, sh.canary),
                      [cli EXCEPT !.sh = sh, !.vers = vers,
                         !.pc = IF vers = TLS13 THEN "check13" ELSE "process12"])

----------------------------------------------------------------------------
(* TLS 1.3 *)

\* hs.echContext is there: clientHandshake made it with the inner hello.
UsesECH == cli.conf.ech # None

\* Checks that apply to a ServerHello and to a HelloRetryRequest.
ServerHelloOrHRROk(sh) ==
  /\ sh.supportedVersion = TLS13
  /\ sh.vers = TLS12
  /\ ~sh.ocspStapling /\ ~sh.ticketSupported /\ ~sh.ems /\ sh.alpn = ""
  /\ sh.sessionIdEcho
  /\ isTLS13Suite(sh.suite)
  /\ sh.suite \in Elements(cli.hello.cipherSuites)
  /\ cli.suite # None => sh.suite = cli.suite

\* The beginning of handshake: the transcripts start with the two hellos.
checkServerHelloOrHRR ==
  /\ cli.pc = "check13"
  /\ UNCHANGED toClient
  /\ ClientChecks(cli.hello.keyShares # {} /\ ServerHelloOrHRROk(cli.sh),
       [cli EXCEPT !.suite = cli.sh.suite,
          !.transcript = IF cli.didHRR THEN @ ELSE <<cli.hello>>,
          !.innerTranscript = IF cli.didHRR \/ ~UsesECH THEN @ ELSE <<cli.inner>>,
          !.pc = IF cli.sh.hrr /\ ~cli.didHRR THEN "retry13" ELSE "process13"])

\* The confirmation in a ServerHello or HelloRetryRequest that the inner
\* hello was the one the server answered.
ConfirmsECH(sh) == sh.echAccept # None /\ sh.echAccept = cli.innerTranscript

\* The pre_shared_key extension of the second hello: a new binder, or none
\* when the suite's hash is not the session's.
RetryPSK(hello, prefix) ==
  LET bare == [hello EXCEPT !.binder = None]
  IN  CASE hello.psk = None -> hello
        [] hello.psk # None
             /\ cipherSuitesTLS13[cli.session.suite] = cipherSuitesTLS13[cli.suite] ->
             [hello EXCEPT !.binder = Binder(cli.session.secret, bare, prefix)]
        [] OTHER -> [bare EXCEPT !.psk = None]

\* The answer to a HelloRetryRequest: the group it selects must be one that
\* the hello lists and has no share for.
processHelloRetryRequest ==
  LET sh == cli.sh
      accepted == UsesECH /\ ConfirmsECH(sh)
      hello == IF accepted THEN cli.inner ELSE cli.hello
      prefix == Append(IF UsesECH THEN cli.innerTranscript ELSE cli.transcript, sh)
      second == RetryPSK([hello EXCEPT !.keyShares = {sh.selectedGroup}], prefix)
      sent == IF accepted
              THEN OuterHello(cli.conf, second, [cli.hello EXCEPT !.keyShares = second.keyShares])
              ELSE second
      inner == IF ~UsesECH THEN <<>> ELSE Append(cli.innerTranscript, sh)
  IN  /\ cli.pc = "retry13"
      /\ UNCHANGED toClient
      /\ IF \/ ~UsesECH /\ sh.echAccept # None
            \/ sh.serverShare # None
            \/ sh.selectedGroup \notin Elements(hello.curves) \ cli.hello.keyShares
            \/ isTLS13OnlyKeyExchange(sh.selectedGroup)
         THEN FailClient("refused")
         ELSE /\ cli' = [cli EXCEPT !.pc = "readSecondServerHello", !.didHRR = TRUE,
                           !.hello = sent,
                           !.inner = IF accepted THEN second ELSE @,
                           !.echAccepted = accepted,
                           !.serverName = IF accepted THEN ServerName ELSE @,
                           !.transcript = @ \o <<sh, sent>>,
                           !.innerTranscript = IF accepted THEN Append(inner, second) ELSE inner]
              /\ toServer' = Append(toServer, sent)
              /\ UNCHANGED <<cache, now, conns>>

ReadSecondServerHello ==
  /\ ClientReads("readSecondServerHello")
  /\ ClientChecks(FromServer.type = "serverHello",
                  [cli EXCEPT !.sh = FromServer, !.pc = "check13"])

\* The secret of a TLS 1.3 connection: the key exchange and the PSK, if any.
Secret13(psk, group) == [psk |-> psk, group |-> group]

\* handshake between the ServerHello and the keys: whether ECH was accepted,
\* processServerHello, establishHandshakeKeys.
processServerHello13 ==
  LET sh == cli.sh
      accepted == UsesECH /\ ConfirmsECH(sh)
      hello == IF accepted THEN cli.inner ELSE cli.hello
      resumes == sh.psk
      ok == /\ ~sh.hrr
            /\ sh.selectedGroup = None
            /\ sh.serverShare \in hello.keyShares
            /\ resumes => /\ hello.psk # None
                          /\ cipherSuitesTLS13[cli.session.suite] = cipherSuitesTLS13[cli.suite]
      transcript == Append(IF accepted THEN cli.innerTranscript ELSE cli.transcript, sh)
      psk == IF resumes THEN cli.session.secret ELSE None
      new == [cli EXCEPT !.pc = "readEncryptedExtensions", !.hello = hello,
                !.transcript = transcript,
                !.serverName = IF accepted THEN ServerName ELSE @,
                !.echAccepted = @ \/ accepted,
                !.echRejected = UsesECH /\ ~accepted,
                !.curve = sh.serverShare,
                !.secret = Secret13(psk, sh.serverShare),
                !.usingPSK = resumes, !.didResume = resumes,
                !.cert = IF resumes THEN cli.session.cert ELSE @,
                !.verified = IF resumes THEN cli.session.verified ELSE @]
  IN  /\ cli.pc = "process13"
      /\ UNCHANGED toClient
      /\ ClientChecks(ok, new)

\* The application's VerifyConnection callback, here one that pins the kind
\* of key the server must have.
VerifyConnection(cert) == cli.conf.pin = None \/ cert.key = cli.conf.pin

readServerParameters ==
  /\ ClientReads("readEncryptedExtensions")
  /\ LET msg == FromServer
     IN  ClientChecks(/\ msg.type = "encryptedExtensions"
                      /\ checkALPN(cli.hello.alpn, msg.alpn)
                      /\ UsesECH /\ ~cli.echRejected => msg.retryConfigs = None
                      \* with a PSK, readServerCertificate does nothing else
                      /\ cli.usingPSK => VerifyConnection(cli.cert),
                      [cli EXCEPT !.alpn = msg.alpn,
                         !.retryConfigs = IF cli.echRejected THEN msg.retryConfigs ELSE @,
                         !.transcript = transcriptMsg(@, <<msg>>),
                         !.pc = IF cli.usingPSK THEN "readFinished13" ELSE "readCertificate13"])

\* What verifyServerCertificate decides, and what it sets verifiedChains to.
\* Config.EncryptedClientHelloRejectionVerify is taken as nil.
ECHRejectedCert == cli.conf.ech # None /\ ~cli.echAccepted

verifyServerCertificate(cert) ==
  IF ECHRejectedCert THEN Verifies(cert, cli.conf.roots, cli.serverName, now)
  ELSE /\ cli.conf.insecureSkipVerify \/ Verifies(cert, cli.conf.roots, ServerName, now)
       /\ VerifyConnection(cert)

VerifiesChain == ECHRejectedCert \/ ~cli.conf.insecureSkipVerify

\* readServerCertificate: the optional CertificateRequest, ...
ReadCertificateRequest13 ==
  /\ ClientHasMessage /\ FromServer.type = "certificateRequest"
  /\ cli.certReq = None
  /\ ClientReads("readCertificate13")
  /\ ClientGoes([cli EXCEPT !.certReq = FromServer,
                            !.transcript = transcriptMsg(@, <<FromServer>>)])

\* ... the Certificate ...
ReadServerCertificate13 ==
  /\ ClientReads("readCertificate13")
  /\ FromServer.type = "certificateRequest" => cli.certReq # None
  /\ LET msg == FromServer
     IN  ClientChecks(/\ msg.type = "certificate"
                      /\ msg.cert # None
                      /\ verifyServerCertificate(msg.cert),
                      [cli EXCEPT !.cert = msg.cert, !.verified = VerifiesChain,
                         !.transcript = transcriptMsg(@, <<msg>>),
                         !.pc = "readCertificateVerify13"])

\* A signature of the handshake by the private key of a certificate.
Signature(cert, alg, transcript) == [cert |-> cert, alg |-> alg, over |-> transcript]

\* ... and the CertificateVerify.
ReadCertificateVerify13 ==
  /\ ClientReads("readCertificateVerify13")
  /\ LET msg == FromServer
     IN  ClientChecks(/\ msg.type = "certificateVerify"
                      /\ msg.sig.alg \in Elements(defaultSupportedSignatureAlgorithms)
                      /\ sigType(msg.sig.alg) # "PKCS1v15" /\ msg.sig.alg # "ECDSASHA1"
                      /\ msg.sig = Signature(cli.cert, msg.sig.alg, cli.transcript),
                      [cli EXCEPT !.transcript = transcriptMsg(@, <<msg>>),
                                  !.pc = "readFinished13"])

Finished(secret, from, transcript) ==
  [type |-> "finished", from |-> from, secret |-> secret, over |-> transcript]

readServerFinished ==
  /\ ClientReads("readFinished13")
  /\ LET msg == FromServer
     IN  ClientChecks(msg = Finished(cli.secret, "server", cli.transcript),
                      [cli EXCEPT !.transcript = transcriptMsg(@, <<msg>>),
                                  !.pc = "sendCertificate13"])

Certificate(cert) == [type |-> "certificate", cert |-> cert]
CertificateVerify(sig) == [type |-> "certificateVerify", sig |-> sig]

\* sendClientCertificate: nothing unless asked, an empty one when ECH was
\* rejected, otherwise what getClientCertificate finds.
sendClientCertificate ==
  LET req == cli.certReq
      cert == IF cli.echRejected THEN None
              ELSE getClientCertificate(cli.conf, TLS13, req.algs, req.cas)
      before == Append(cli.transcript, Certificate(cert))
      verify == CertificateVerify(
                  Signature(cert, selectSignatureScheme(TLS13, cert, req.algs), before))
      flight == <<Certificate(cert)>> \o (IF cert = None THEN <<>> ELSE <<verify>>)
  IN  /\ cli.pc = "sendCertificate13"
      /\ IF req = None
         THEN ClientGoes([cli EXCEPT !.pc = "sendFinished13"])
         ELSE /\ cli' = [cli EXCEPT !.transcript = transcriptMsg(@, flight),
                                    !.pc = "sendFinished13"]
              /\ toServer' = toServer \o flight
              /\ UNCHANGED <<cache, now, conns>>
      /\ UNCHANGED toClient

\* sendClientFinished and the end of handshake: a client whose inner hello was
\* not answered tells the server so and returns an error.
sendClientFinished ==
  LET msg == Finished(cli.secret, "client", cli.transcript)
  IN  /\ cli.pc = "sendFinished13"
      /\ UNCHANGED <<toClient, now, conns>>
      /\ IF cli.echRejected
         THEN /\ cli' = [cli EXCEPT !.transcript = transcriptMsg(@, <<msg>>),
                                    !.pc = "failed", !.err = "ech"]
              /\ toServer' = toServer \o <<msg, Alert>>
              /\ cache' = IF cli.session # None THEN None ELSE cache
         ELSE /\ cli' = [cli EXCEPT !.transcript = transcriptMsg(@, <<msg>>), !.pc = "complete"]
              /\ toServer' = Append(toServer, msg)
              /\ UNCHANGED cache

----------------------------------------------------------------------------
(* Sessions *)

\* The state that sessionState saves, with its ticket.
sessionState(secret, useBy, ticket) ==
  [version |-> cli.vers, suite |-> cli.suite, secret |-> secret, ems |-> cli.ems,
   alpn |-> cli.alpn, curve |-> cli.curve, cert |-> cli.cert, verified |-> cli.verified,
   useBy |-> useBy, ticket |-> ticket]

\* A ticket after a TLS 1.3 handshake, read by the application's Read.
handleNewSessionTicket ==
  /\ ClientHasMessage /\ FromServer.type = "newSessionTicket"
  /\ ClientReads("complete")
  /\ cache' = IF UsesTickets(cli.conf)
              THEN sessionState(conns, now + TicketLifetime, FromServer.ticket)
              ELSE cache
  /\ UNCHANGED <<cli, toServer, now, conns>>

----------------------------------------------------------------------------
(* TLS 1.0 to 1.2 *)

Flags(suite) == cipherSuitesTLS12[suite]

\* handshake and processServerHello: the server resumes the session when it
\* echoes the session ID, which it cannot know unless one was offered.
processServerHello12 ==
  LET sh == cli.sh
      resumed == cli.session # None /\ sh.sessionIdEcho
      ok == /\ cli.session = None => ~sh.sessionIdEcho
            /\ sh.suite \in Elements(cli.hello.cipherSuites)
            /\ sh.suite \in DOMAIN cipherSuitesTLS12
            /\ checkALPN(cli.hello.alpn, sh.alpn)
            /\ resumed => /\ cli.session.version = cli.vers
                          /\ cli.session.suite = sh.suite
                          /\ cli.session.ems = sh.ems
      full == [cli EXCEPT !.suite = sh.suite, !.alpn = sh.alpn, !.pc = "readCertificate12",
                          !.transcript = <<cli.hello, sh>>]
      again == [full EXCEPT !.didResume = TRUE, !.pc = "readTicket12",
                  !.secret = cli.session.secret, !.ems = cli.session.ems,
                  !.cert = cli.session.cert, !.verified = cli.session.verified,
                  !.curve = cli.session.curve]
  IN  /\ cli.pc = "process12"
      /\ UNCHANGED toClient
      /\ ClientChecks(ok, IF resumed THEN again ELSE full)

\* doFullHandshake: the Certificate, ...
ReadServerCertificate12 ==
  /\ ClientReads("readCertificate12")
  /\ ClientChecks(FromServer.type = "certificate" /\ FromServer.cert # None,
       [cli EXCEPT !.cert = FromServer.cert, !.transcript = transcriptMsg(@, <<FromServer>>),
                   !.pc = "readStatus12"])

\* ... a CertificateStatus if the ServerHello announced one; the certificate
\* is verified once the message behind has been read, ...
ReadCertificateStatus12 ==
  /\ cli.pc = "readStatus12"
  /\ ClientHasMessage
  /\ IF FromServer.type = "certificateStatus"
     THEN /\ toClient' = Tail(toClient)
          /\ ClientChecks(cli.sh.ocspStapling,
               [cli EXCEPT !.transcript = transcriptMsg(@, <<FromServer>>), !.pc = "verify12"])
     ELSE /\ UNCHANGED toClient
          /\ ClientGoes([cli EXCEPT !.pc = "verify12"])

VerifyServerCertificate12 ==
  /\ cli.pc = "verify12"
  /\ ClientHasMessage
  /\ UNCHANGED toClient
  /\ ClientChecks(verifyServerCertificate(cli.cert),
       [cli EXCEPT !.verified = VerifiesChain, !.pc = "readKeyExchange12"])

\* processServerKeyExchange: static RSA expects none; ECDHE takes a curve it
\* knows and a signature of the kind of the suite, made by the certificate.
ServerKeyExchangeOk(msg) ==
  LET type == IF cli.vers >= TLS12 THEN sigType(msg.alg) ELSE legacySigType(cli.cert.key)
  IN  /\ "ECDHE" \in Flags(cli.suite)
      /\ ~isTLS13OnlyKeyExchange(msg.curve)
      /\ cli.vers >= TLS12 => msg.alg \in Elements(cli.hello.sigAlgs)
      /\ type # None
      /\ isRSASignature(type) <=> "ECSign" \notin Flags(cli.suite)
      /\ msg.signer = cli.cert

ReadServerKeyExchange12 ==
  /\ cli.pc = "readKeyExchange12"
  /\ ClientHasMessage
  /\ IF FromServer.type = "serverKeyExchange"
     THEN /\ toClient' = Tail(toClient)
          /\ ClientChecks(ServerKeyExchangeOk(FromServer),
               [cli EXCEPT !.curve = FromServer.curve,
                           !.transcript = transcriptMsg(@, <<FromServer>>),
                           !.pc = "readRequest12"])
     ELSE /\ UNCHANGED toClient
          /\ ClientGoes([cli EXCEPT !.pc = "readRequest12"])

ReadCertificateRequest12 ==
  /\ cli.pc = "readRequest12"
  /\ ClientHasMessage
  /\ IF FromServer.type = "certificateRequest"
     THEN /\ toClient' = Tail(toClient)
          /\ ClientGoes([cli EXCEPT !.certReq = FromServer,
                                    !.transcript = transcriptMsg(@, <<FromServer>>),
                                    !.pc = "readHelloDone12"])
     ELSE /\ UNCHANGED toClient
          /\ ClientGoes([cli EXCEPT !.pc = "readHelloDone12"])

\* certificateRequestInfoFromMsg.  Both certificate types are always asked
\* for, so the filter keeps every scheme; before TLS 1.2 a list is made up.
requestedSchemes(req) ==
  IF cli.vers >= TLS12 THEN req.algs ELSE <<"ECDSA", "PKCS1", "PKCS1SHA1">>

\* generateClientKeyExchange
CanExchangeKeys ==
  IF "ECDHE" \in Flags(cli.suite) THEN cli.curve # None
                                  ELSE cli.cert.key \in {"rsa", "rsa512"}

\* The master secret, bound to the transcript by the extended form of it.
masterSecret(ems, exchange, transcript) ==
  [exchange |-> exchange, session |-> IF ems THEN transcript ELSE None]

ClientKeyExchange(exchange) == [type |-> "clientKeyExchange", exchange |-> exchange]

\* The rest of doFullHandshake from ServerHelloDone on, establishKeys and
\* sendFinished.
ReadServerHelloDone12 ==
  LET req == cli.certReq
      cert == IF req = None THEN None
              ELSE getClientCertificate(cli.conf, cli.vers, requestedSchemes(req), req.cas)
      exchange == IF "ECDHE" \in Flags(cli.suite) THEN cli.curve ELSE "RSA"
      afterDone == Append(cli.transcript, FromServer)
      first == (IF req = None THEN <<>> ELSE <<Certificate(cert)>>)
               \o <<ClientKeyExchange(exchange)>>
      secret == masterSecret(cli.sh.ems, exchange, afterDone \o first)
      alg == CASE cert = None -> None
               [] cert # None /\ cli.vers >= TLS12 ->
                    selectSignatureScheme(cli.vers, cert, req.algs)
               [] OTHER -> legacySigType(cert.key)
      verify == IF cert = None THEN <<>>
                ELSE <<CertificateVerify(Signature(cert, alg, afterDone \o first))>>
      signed == transcriptMsg(afterDone \o first, verify)
      finished == Finished(secret, "client", signed)
  IN  /\ ClientReads("readHelloDone12")
      /\ IF /\ FromServer.type = "serverHelloDone"
            /\ CanExchangeKeys
            /\ cert # None => alg # None
         THEN /\ cli' = [cli EXCEPT !.secret = secret, !.ems = cli.sh.ems,
                           !.transcript = transcriptMsg(signed, <<finished>>),
                           !.pc = "readTicket12"]
              /\ toServer' = toServer \o first \o verify \o <<finished>>
              /\ UNCHANGED <<cache, now, conns>>
         ELSE FailClient("refused")

readSessionTicket ==
  /\ cli.pc = "readTicket12"
  /\ IF cli.sh.ticketSupported
     THEN /\ ClientReads("readTicket12")
          /\ ClientChecks(cli.hello.ticketSupported /\ FromServer.type = "newSessionTicket",
               [cli EXCEPT !.ticket = FromServer.ticket,
                           !.transcript = transcriptMsg(@, <<FromServer>>),
                           !.pc = "readFinished12"])
     ELSE /\ UNCHANGED toClient
          /\ ClientGoes([cli EXCEPT !.pc = "readFinished12"])

\* readFinished and the rest of handshake.  In a resumption the connection is
\* verified and our Finished goes out only now; saveSessionTicket ends both.
readFinished ==
  LET seen == transcriptMsg(cli.transcript, <<FromServer>>)
      finished == Finished(cli.secret, "client", seen)
      secret == IF cli.didResume THEN cli.session.secret ELSE conns
  IN  /\ ClientReads("readFinished12")
      /\ IF /\ FromServer = Finished(cli.secret, "server", cli.transcript)
            /\ cli.didResume => VerifyConnection(cli.cert)
         THEN /\ cli' = [cli EXCEPT !.pc = "complete",
                           !.transcript = IF cli.didResume
                                          THEN transcriptMsg(seen, <<finished>>) ELSE seen]
              /\ toServer' = IF cli.didResume THEN Append(toServer, finished) ELSE toServer
              /\ cache' = IF cli.ticket = None THEN cache
                          ELSE sessionState(secret, 0, cli.ticket)
              /\ UNCHANGED <<now, conns>>
         ELSE FailClient("refused")

----------------------------------------------------------------------------
ClientReading ==
  cli.pc \in {"readServerHello", "readSecondServerHello", "readEncryptedExtensions",
    "readCertificate13", "readCertificateVerify13", "readFinished13", "readCertificate12",
    "readStatus12", "verify12", "readKeyExchange12", "readRequest12", "readHelloDone12",
    "readTicket12", "readFinished12"}

\* A read that finds an alert or the end of the stream.
ClientReadsAlert ==
  /\ ClientReading /\ toClient # <<>> /\ FromServer = Alert
  /\ toClient' = Tail(toClient)
  /\ FailClient("alert")

ClientStep13 ==
  \/ checkServerHelloOrHRR \/ processHelloRetryRequest \/ ReadSecondServerHello
  \/ processServerHello13 \/ readServerParameters \/ ReadCertificateRequest13
  \/ ReadServerCertificate13 \/ ReadCertificateVerify13 \/ readServerFinished
  \/ sendClientCertificate \/ sendClientFinished \/ handleNewSessionTicket

ClientStep12 ==
  \/ processServerHello12 \/ ReadServerCertificate12 \/ ReadCertificateStatus12
  \/ VerifyServerCertificate12 \/ ReadServerKeyExchange12 \/ ReadCertificateRequest12
  \/ ReadServerHelloDone12 \/ readSessionTicket \/ readFinished

ClientNext ==
  \/ ClientStart \/ ClientReadServerHello \/ ClientReadsAlert
  \/ ClientStep13 \/ ClientStep12
============================================================================
