---------------------------- MODULE Handshake ----------------------------
(***************************************************************************)
(* A client and a server of the package, connection after connection.      *)
(* Before each connection either side may have been given another Config,  *)
(* the server's ticket keys may have been replaced and time may have       *)
(* passed; what survives is the client's session cache and what the        *)
(* tickets carry.  While a handshake runs, the network may break the       *)
(* connection and a middlebox may rewrite the ClientHello.                 *)
(***************************************************************************)
EXTENDS ServerHandshake

CONSTANTS ClientConfigs,  \* the Configs that clients are created with
          ServerConfigs,  \* the Configs that the server runs with
          MaxConns,       \* bound: connections
          MaxTime,        \* bound: the clock
          MaxFaults       \* bound: broken connections, rewritten hellos and
                          \*        replaced ticket keys, all together

ASSUME HandshakeAssumption ==
  /\ MaxConns \in Nat /\ MaxTime \in Nat /\ MaxFaults \in Nat
  /\ ClientConfigs # {} /\ ServerConfigs # {}
  /\ \A c \in ClientConfigs :
       DOMAIN c = {"minVersion", "maxVersion", "cipherSuites", "curvePreferences",
                   "nextProtos", "certificates", "ticketsDisabled", "roots",
                   "insecureSkipVerify", "sessionCache", "pin", "ech"}
  /\ \A s \in ServerConfigs : s.clientAuth \in NoClientCert..RequireAndVerifyClientCert

VARIABLE faults           \* number of faults so far

vars == <<cli, toServer, toClient, cache, now, conns, srv, ticketKey, faults>>

Init ==
  /\ cli = [NewClient(CHOOSE c \in ClientConfigs : TRUE) EXCEPT !.pc = "idle"]
  /\ srv = [NewServer(CHOOSE c \in ServerConfigs : TRUE) EXCEPT !.pc = "idle"]
  /\ toServer = <<>> /\ toClient = <<>>
  /\ cache = None
  /\ now = 0 /\ conns = 0 /\ ticketKey = 0 /\ faults = 0

\* Bound: the last connection is left alone.
MayDisturb == faults < MaxFaults /\ conns < MaxConns

BetweenConnections == ClientDone /\ ServerDone

\* A new connection: Client and Server of tls.go, with fresh Conns.
Open(c, s) ==
  /\ BetweenConnections
  /\ conns < MaxConns
  /\ conns' = conns + 1
  /\ cli' = NewClient(c)
  /\ srv' = NewServer(s)
  /\ toServer' = <<>> /\ toClient' = <<>>
  /\ UNCHANGED <<cache, now, ticketKey, faults>>

Connect == \E c \in ClientConfigs, s \in ServerConfigs : Open(c, s)

\* The application takes up ECHRejectionError.RetryConfigList.
RetryWithConfigs ==
  /\ cli.err = "ech" /\ cli.retryConfigs # None
  /\ \E e \in cli.retryConfigs : Open([cli.conf EXCEPT !.ech = e], srv.conf)

Tick ==
  /\ BetweenConnections
  /\ now < MaxTime
  /\ now' = now + 1
  /\ UNCHANGED <<cli, toServer, toClient, cache, conns, srv, ticketKey, faults>>

\* Config.SetSessionTicketKeys, or a server that starts with random keys.
SetSessionTicketKeys ==
  /\ BetweenConnections
  /\ MayDisturb
  /\ faults' = faults + 1
  /\ ticketKey' = ticketKey + 1
  /\ UNCHANGED <<cli, toServer, toClient, cache, now, conns, srv>>

\* The network ends the connection: what was under way is lost, and either
\* end reads an error.
Break ==
  /\ ~BetweenConnections
  /\ MayDisturb
  /\ faults' = faults + 1
  /\ toServer' = <<Alert>> /\ toClient' = <<Alert>>
  /\ UNCHANGED <<cli, cache, now, conns, srv, ticketKey>>

\* What a middlebox makes of a hello it does not understand: no version above
\* TLS 1.2, no Encrypted Client Hello, no application protocol.
Rewrites(hello) ==
  {[hello EXCEPT !.supportedVersions = VersionsIn(Elements(@) \ {TLS13})],
   [hello EXCEPT !.ech = NoECH],
   [hello EXCEPT !.alpn = <<>>]} \ {hello}

RewriteHello ==
  /\ MayDisturb
  /\ toServer # <<>> /\ FromClient.type = "clientHello"
  /\ \E hello \in Rewrites(FromClient) : toServer' = <<hello>> \o Tail(toServer)
  /\ faults' = faults + 1
  /\ UNCHANGED <<cli, toClient, cache, now, conns, srv, ticketKey>>

ClientMoves == ClientNext /\ UNCHANGED <<srv, ticketKey, faults>>
ServerMoves == ServerNext /\ UNCHANGED faults

Environment == Connect \/ RetryWithConfigs \/ Tick \/ SetSessionTicketKeys \/ Break \/ RewriteHello

Next == ClientMoves \/ ServerMoves \/ Environment

Spec == Init /\ [][Next]_vars

----------------------------------------------------------------------------
(* Properties *)

\* State kept by the two ends, the cache and the clock stays within its type.
TypeOK ==
  /\ cli.conf \in ClientConfigs \/ cli.conf.ech # None
  /\ srv.conf \in ServerConfigs
  /\ cli.vers \in {0, TLS10, TLS11, TLS12, TLS13}
  /\ srv.vers \in {0, TLS10, TLS11, TLS12, TLS13}
  /\ cli.curve \in Elements(defaultCurvePreferences) \cup {None}
  /\ srv.curve \in Elements(defaultCurvePreferences) \cup {None}
  /\ cli.err \in {None, "config", "refused", "alert", "ech"}
  /\ now \in 0..MaxTime /\ conns \in 0..MaxConns
  /\ ticketKey \in 0..MaxFaults /\ faults \in 0..MaxFaults

\* When both ends have completed their handshake they agree on everything
\* that was negotiated, on whether it was a resumption, on the certificates
\* shown, and on every message that went over the wire (the Finished
\* messages of readFinished, readServerFinished and readClientFinished).
Agreement ==
  cli.pc = "complete" /\ srv.pc = "complete" =>
    /\ cli.vers = srv.vers
    /\ cli.suite = srv.suite
    /\ cli.curve = srv.curve
    /\ cli.alpn = srv.alpn
    /\ cli.ems = srv.ems
    /\ cli.didResume = srv.didResume
    /\ cli.serverName = srv.serverName
    /\ cli.transcript = srv.transcript
    /\ ~cli.didResume => cli.cert = srv.cert

\* The best version that both Configs allow.
BestVersion(c, s) == mutualVersion(s, FALSE, supportedVersions(c, TRUE))

\* A client that goes on after the ServerHello has not been talked out of a
\* higher version, whoever rewrote its hello: the canary of processClientHello
\* and the check in clientHandshake catch it before a key is exchanged.
NoDowngrade ==
  cli.pc \notin {"idle", "start", "readServerHello", "failed"} =>
    cli.vers = BestVersion(cli.conf, srv.conf)

\* A client that verifies certificates completes only with a server whose
\* certificate chain was verified, names it and has not expired, on this
\* connection or on the one whose session it resumes, and that passes this
\* connection's VerifyConnection.
ServerAuthOk ==
  /\ cli.cert # None
  /\ VerifyConnection(cli.cert)
  /\ ~cli.conf.insecureSkipVerify =>
       /\ cli.verified
       /\ ServerName \in cli.cert.names
       /\ now <= cli.cert.notAfter
  /\ cli.verified => \E c \in ClientConfigs : cli.cert.issuer \in c.roots

ServerAuthenticated ==
  [][cli.pc # "complete" /\ cli'.pc = "complete" => ServerAuthOk']_vars

\* A server that completes has a client certificate if its ClientAuth
\* requires one, verified and still valid if it says so, and has none at all
\* if it asks for none; a session made under another ClientAuth is no way
\* around it.
ClientAuthOk ==
  LET auth == srv.conf.clientAuth
  IN  /\ requiresClientCert(auth) => srv.peer # None
      /\ auth = NoClientCert => srv.peer = None
      /\ srv.peer # None /\ auth >= VerifyClientCertIfGiven =>
           /\ srv.verified
           /\ now <= srv.peer.notAfter
           /\ \E s \in ServerConfigs : srv.peer.issuer \in s.clientCAs

ClientAuthHonoured ==
  [][srv.pc # "complete" /\ srv'.pc = "complete" => ClientAuthOk']_vars

\* Under Encrypted Client Hello the name of the server never travels in the
\* clear, a handshake completes only when the inner hello was answered, and a
\* client takes up retry configurations only from a server that has proved to
\* be the public name.
EncryptedHello ==
  cli.conf.ech # None =>
    /\ \A i \in DOMAIN toServer :
         toServer[i].type = "clientHello" => toServer[i].serverName = PublicName
    /\ cli.pc = "complete" => cli.echAccepted /\ cli.serverName = ServerName
    /\ cli.echAccepted => cli.conf.ech \in srv.conf.echKeys
    /\ cli.err = "ech" => /\ ~cli.didResume
                          /\ PublicName \in cli.cert.names
                          /\ cli.cert.issuer \in cli.conf.roots
                          /\ cli.conf.ech \notin srv.conf.echKeys

\* The session that a client keeps is the one its ticket carries: a server
\* that opens the ticket finds the same secret, version, suite, master secret
\* kind and protocol.
SessionMatchesTicket ==
  cache # None =>
    LET state == cache.ticket.state
    IN  /\ state.secret = cache.secret
        /\ state.version = cache.version
        /\ state.suite = cache.suite
        /\ state.ems = cache.ems
        /\ state.alpn = cache.alpn
        /\ state.curve = cache.curve

\* No end waits for a message that the other one never sends, whichever of
\* the optional messages the two Configs call for: while a handshake goes on,
\* one end has something to do or something to read.
NoMutualWait ==
  \/ BetweenConnections
  \/ ~ClientDone /\ (ClientReading => toClient # <<>>)
  \/ ~ServerDone /\ (ServerReading => toServer # <<>>)
============================================================================
