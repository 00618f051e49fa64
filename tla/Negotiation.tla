--------------------------- MODULE Negotiation ---------------------------
(***************************************************************************)
(* What a Config allows and what two ends choose from it: the helpers of   *)
(* common.go, defaults.go, cipher_suites.go and auth.go that both ends of  *)
(* a handshake call.  Lists keep the order the code gives them, because    *)
(* the choice is always the first acceptable element of somebody's list.   *)
(*                                                                         *)
(* Of each family of values that the code treats alike one or two stand    *)
(* for the rest: P256 for the NIST curves, PSS for the PSS hashes, one     *)
(* AEAD and one CBC suite for each kind of key exchange.  FIPS mode        *)
(* (fips140tls.Required) is off, as it is by default.                      *)
(***************************************************************************)
EXTENDS Naturals, Sequences

CONSTANT None           \* a nil pointer, an absent extension

TLS10 == 10
TLS11 == 11
TLS12 == 12
TLS13 == 13

Elements(s) == {s[i] : i \in DOMAIN s}

\* The first element of s that Ok accepts, the way every selection loop of
\* the package runs, or None.
First(s, Ok(_)) ==
  LET hits == {i \in DOMAIN s : Ok(s[i])}
  IN  IF hits = {} THEN None
      ELSE s[CHOOSE i \in hits : \A j \in hits : i <= j]

----------------------------------------------------------------------------
(* Versions *)

SupportedVersions == <<TLS13, TLS12, TLS11, TLS10>>

\* Whether the loop of supportedVersions keeps a version.  minVersion and
\* maxVersion are 0 when they are not set.
keepsVersion(c, isClient, v) ==
  /\ c.minVersion = 0 => v >= TLS12
  /\ isClient /\ c.ech # None => v >= TLS13
  /\ c.minVersion # 0 => v >= c.minVersion
  /\ c.maxVersion # 0 => v <= c.maxVersion

\* The loop itself: the versions of SupportedVersions that are in S, in its order.
VersionsIn(S) ==
  LET one(v) == IF v \in S THEN <<v>> ELSE <<>>
  IN  one(TLS13) \o one(TLS12) \o one(TLS11) \o one(TLS10)

supportedVersions(c, isClient) ==
  VersionsIn({v \in Elements(SupportedVersions) : keepsVersion(c, isClient, v)})

maxSupportedVersion(c, isClient) ==
  LET vs == supportedVersions(c, isClient) IN IF vs = <<>> THEN 0 ELSE Head(vs)

supportedVersionsFromMax(max) == VersionsIn({v \in Elements(SupportedVersions) : v <= max})

mutualVersion(c, isClient, peerVersions) ==
  First(peerVersions, LAMBDA v :
    v \in Elements(SupportedVersions) /\ keepsVersion(c, isClient, v))

\* What a ClientHello says about versions, with or without the extension.
helloVersions(hello) ==
  CASE hello.supportedVersions # <<>> -> hello.supportedVersions
    [] hello.supportedVersions = <<>> /\ hello.vers >= TLS13 -> supportedVersionsFromMax(TLS12)
    [] OTHER -> supportedVersionsFromMax(hello.vers)

----------------------------------------------------------------------------
(* Key exchanges *)

defaultCurvePreferences == <<"X25519MLKEM768", "X25519", "P256">>

isTLS13OnlyKeyExchange(curve) == curve = "X25519MLKEM768"

\* The order is fixed: CurvePreferences only removes curves.
curvePreferences(c, version) ==
  SelectSeq(defaultCurvePreferences, LAMBDA x :
    /\ c.curvePreferences # {} => x \in c.curvePreferences
    /\ version < TLS13 => ~isTLS13OnlyKeyExchange(x))

supportsCurve(c, version, curve) == curve \in Elements(curvePreferences(c, version))

----------------------------------------------------------------------------
(* Cipher suites: the flags of the table of TLS 1.0-1.2, the hash of the
   table of TLS 1.3 *)

cipherSuitesTLS12 ==
  [ECDHE_ECDSA_AEAD |-> {"ECDHE", "ECSign", "TLS12"},
   ECDHE_RSA_AEAD   |-> {"ECDHE", "TLS12"},
   ECDHE_ECDSA_CBC  |-> {"ECDHE", "ECSign"},
   ECDHE_RSA_CBC    |-> {"ECDHE"},
   RSA_CBC          |-> {}]

cipherSuitesPreferenceOrder ==
  <<"ECDHE_ECDSA_AEAD", "ECDHE_RSA_AEAD", "ECDHE_ECDSA_CBC", "ECDHE_RSA_CBC", "RSA_CBC">>

\* Suites that are not in the default list: static RSA key exchange.
rsaKexCiphers == {"RSA_CBC"}

cipherSuitesTLS13 == [AES_128_SHA256 |-> "SHA256", AES_256_SHA384 |-> "SHA384"]

defaultCipherSuitesTLS13 == <<"AES_128_SHA256", "AES_256_SHA384">>

isTLS13Suite(s) == s \in DOMAIN cipherSuitesTLS13

cipherSuites(c) ==
  SelectSeq(cipherSuitesPreferenceOrder, LAMBDA s :
    IF c.cipherSuites = {} THEN s \notin rsaKexCiphers ELSE s \in c.cipherSuites)

\* The set fit is what the caller's predicate accepts.
selectCipherSuite(ids, supportedIDs, fit) ==
  First(ids, LAMBDA s : s \in DOMAIN cipherSuitesTLS12 /\ s \in fit
                        /\ s \in Elements(supportedIDs))

----------------------------------------------------------------------------
(* Signature schemes.  A certificate's key is "rsa", "rsa512" (a modulus too
   short for PSS), "ecdsa" (on P256) or "ed25519". *)

defaultSupportedSignatureAlgorithms ==
  <<"PSS", "ECDSA", "Ed25519", "PKCS1", "PKCS1SHA1", "ECDSASHA1">>

sigType(alg) ==
  CASE alg \in {"PKCS1", "PKCS1SHA1"} -> "PKCS1v15"
    [] alg = "PSS"                    -> "RSAPSS"
    [] alg \in {"ECDSA", "ECDSASHA1"} -> "ECDSA"
    [] alg = "Ed25519"                -> "Ed25519"

isRSASignature(t) == t \in {"PKCS1v15", "RSAPSS"}

\* The type of signature made with a key before TLS 1.2, None if there is none.
legacySigType(key) ==
  CASE key \in {"rsa", "rsa512"} -> "PKCS1v15"
    [] key = "ecdsa"             -> "ECDSA"
    [] key = "ed25519"           -> None

signatureSchemesForCertificate(version, cert) ==
  CASE cert.key = "ecdsa"   -> IF version # TLS13 THEN <<"ECDSA", "ECDSASHA1">>
                                                  ELSE <<"ECDSA">>
    [] cert.key = "ed25519" -> <<"Ed25519">>
    [] OTHER -> SelectSeq(<<"PSS", "PKCS1", "PKCS1SHA1">>, LAMBDA a :
                  /\ a = "PSS" => cert.key # "rsa512"
                  /\ a # "PSS" => version <= TLS12)

\* In the peer's order of preference.
selectSignatureScheme(version, cert, peerAlgs) ==
  LET peers == IF peerAlgs = <<>> /\ version = TLS12
               THEN <<"PKCS1SHA1", "ECDSASHA1">> ELSE peerAlgs
  IN  First(peers, LAMBDA a :
            a \in Elements(signatureSchemesForCertificate(version, cert)))

----------------------------------------------------------------------------
(* Certificates *)

\* x509.Certificate.Verify against a pool of roots, and VerifyHostname.
Verifies(cert, roots, name, now) ==
  /\ cert.issuer \in roots
  /\ name \in cert.names
  /\ now <= cert.notAfter

\* ClientAuthType, in the order the code compares them by.
NoClientCert == 0
RequestClientCert == 1
RequireAnyClientCert == 2
VerifyClientCertIfGiven == 3
RequireAndVerifyClientCert == 4

requiresClientCert(auth) == auth \in {RequireAnyClientCert, RequireAndVerifyClientCert}

\* What hello.supportedPoints could forbid never does: every hello of this
\* package offers the uncompressed format or leaves the extension out.
supportsECDHE(c, version, curves) ==
  \E x \in Elements(curves) : supportsCurve(c, version, x)

supportsRSAFallback(c, version, hello, cert) ==
  /\ version # TLS13
  /\ cert.key \in {"rsa", "rsa512"}
  /\ selectCipherSuite(hello.cipherSuites, cipherSuites(c),
       {s \in DOMAIN cipherSuitesTLS12 :
          /\ "ECDHE" \notin cipherSuitesTLS12[s]
          /\ version < TLS12 => "TLS12" \notin cipherSuitesTLS12[s]}) # None

\* ClientHelloInfo.SupportsCertificate, a disjunct for the signed key
\* exchange and one for the static RSA it falls back to.
helloSupportsCertificate(c, hello, cert) ==
  LET vers == mutualVersion(c, FALSE, helloVersions(hello))
      sigOk == \/ hello.sigAlgs = <<>>
               \/ selectSignatureScheme(vers, cert, hello.sigAlgs) # None
      ec == cert.key \in {"ecdsa", "ed25519"}
      curveOk == cert.key = "ecdsa" =>
                   "P256" \in Elements(hello.curves) /\ supportsCurve(c, vers, "P256")
      edOk == cert.key = "ed25519" => vers >= TLS12 /\ hello.sigAlgs # <<>>
      suite == selectCipherSuite(hello.cipherSuites, cipherSuites(c),
                 {s \in DOMAIN cipherSuitesTLS12 :
                    /\ "ECDHE" \in cipherSuitesTLS12[s]
                    /\ "ECSign" \in cipherSuitesTLS12[s] <=> ec
                    /\ vers < TLS12 => "TLS12" \notin cipherSuitesTLS12[s]})
  IN  /\ vers # None
      /\ hello.serverName # None => hello.serverName \in cert.names
      /\ \/ sigOk /\ vers = TLS13
         \/ /\ sigOk
            /\ supportsECDHE(c, vers, hello.curves)
            /\ curveOk /\ edOk
            /\ suite # None
         \/ /\ \/ ~sigOk
               \/ ~supportsECDHE(c, vers, hello.curves)
               \/ curveOk /\ edOk /\ suite = None
            /\ supportsRSAFallback(c, vers, hello, cert)

\* Config.getCertificate without the GetCertificate callback and the
\* deprecated NameToCertificate.
getCertificate(c, hello) ==
  LET fit == First(c.certificates, LAMBDA x : helloSupportsCertificate(c, hello, x))
  IN  CASE c.certificates = <<>>    -> None
        [] Len(c.certificates) = 1  -> Head(c.certificates)
        [] OTHER -> IF fit # None THEN fit ELSE Head(c.certificates)

\* CertificateRequestInfo.SupportsCertificate; no acceptable CAs means any.
requestSupportsCertificate(version, algs, cas, cert) ==
  /\ selectSignatureScheme(version, cert, algs) # None
  /\ cas # {} => cert.issuer \in cas

\* Conn.getClientCertificate without the callback: the first certificate
\* that the request allows, None for the empty one.
getClientCertificate(c, version, algs, cas) ==
  First(c.certificates, LAMBDA x : requestSupportsCertificate(version, algs, cas, x))

\* The protocol a server picks in its own order (negotiateALPN, outside
\* QUIC): "" for none, None when the two lists have nothing in common, except
\* that an http/1.1 client of an h2 server goes on without a protocol.
negotiateALPN(serverProtos, clientProtos) ==
  LET common == First(serverProtos, LAMBDA p : p \in Elements(clientProtos))
      http11fallback == "h2" \in Elements(serverProtos) /\ "http/1.1" \in Elements(clientProtos)
  IN  CASE serverProtos = <<>> \/ clientProtos = <<>> -> ""
        [] OTHER -> IF common = None /\ http11fallback THEN "" ELSE common

\* Outside QUIC.
checkALPN(clientProtos, serverProto) ==
  serverProto = "" \/ serverProto \in Elements(clientProtos)
============================================================================
