--------------------------- MODULE MCHandshake ---------------------------
(***************************************************************************)
(* Configs for module Handshake.  Each one differs from the plain client   *)
(* or the plain server in what makes one of the handshake's paths happen.  *)
(***************************************************************************)
EXTENDS Handshake

CONSTANTS CA, OtherCA, ech1, ech2

Name == "example"
Public == "public"

Cert(key, issuer, notAfter) ==
  [key |-> key, issuer |-> issuer, notAfter |-> notAfter,
   names |-> {Name, Public}, staple |-> FALSE]

rsa == Cert("rsa", CA, 1)
ecdsa == Cert("ecdsa", CA, 9)
stapled == [Cert("ecdsa", CA, 9) EXCEPT !.staple = TRUE]
selfSigned == Cert("ed25519", OtherCA, 9)
clientCert == Cert("ecdsa", CA, 1)
unknownCert == Cert("rsa", OtherCA, 9)

PlainClient ==
  [minVersion |-> 0, maxVersion |-> 0, cipherSuites |-> {}, curvePreferences |-> {},
   nextProtos |-> <<"h2">>, certificates |-> <<>>, ticketsDisabled |-> FALSE,
   roots |-> {CA}, insecureSkipVerify |-> FALSE, sessionCache |-> TRUE,
   pin |-> None, ech |-> None]

PlainServer ==
  [minVersion |-> 0, maxVersion |-> 0, cipherSuites |-> {}, curvePreferences |-> {},
   nextProtos |-> <<"h2">>, certificates |-> <<rsa, ecdsa>>, ticketsDisabled |-> FALSE,
   clientAuth |-> NoClientCert, clientCAs |-> {CA}, echKeys |-> {ech1}, echRetry |-> {},
   ech |-> None]

Clients ==
  {PlainClient,
   \* offers a certificate, and insists on an ECDSA server
   [PlainClient EXCEPT !.certificates = <<clientCert>>, !.pin = "ecdsa"],
   \* TLS 1.2 with a certificate of a CA that the server does not know
   [PlainClient EXCEPT !.maxVersion = TLS12, !.certificates = <<unknownCert>>],
   \* trusts anybody, speaks another protocol, has one curve
   [PlainClient EXCEPT !.insecureSkipVerify = TRUE, !.nextProtos = <<"http/1.1">>,
                       !.curvePreferences = {"X25519"}, !.minVersion = TLS10],
   \* old versions, static RSA first
   [PlainClient EXCEPT !.minVersion = TLS10, !.maxVersion = TLS11, !.certificates = <<clientCert>>,
                       !.cipherSuites = {"RSA_CBC"}],
   \* Encrypted Client Hello
   [PlainClient EXCEPT !.ech = ech1]}

Servers ==
  {PlainServer,
   \* makes clients retry with its curve, and requires a certificate
   [PlainServer EXCEPT !.curvePreferences = {"P256"}, !.certificates = <<ecdsa>>,
                       !.clientAuth = RequireAndVerifyClientCert],
   \* TLS 1.2 at most, asks for a certificate, has an OCSP staple
   [PlainServer EXCEPT !.maxVersion = TLS12, !.certificates = <<stapled>>,
                       !.clientAuth = RequestClientCert, !.clientCAs = {}],
   \* old versions and static RSA allowed, no tickets, any certificate will do
   [PlainServer EXCEPT !.minVersion = TLS10, !.ticketsDisabled = TRUE,
                       !.cipherSuites = {"RSA_CBC", "ECDHE_RSA_CBC"},
                       !.certificates = <<rsa>>, !.clientAuth = RequireAnyClientCert],
   \* a certificate that nobody trusts
   [PlainServer EXCEPT !.certificates = <<selfSigned>>],
   \* Encrypted Client Hello, after a retry
   [PlainServer EXCEPT !.echKeys = {ech2}, !.echRetry = {ech2}, !.curvePreferences = {"P256"}]}
============================================================================
