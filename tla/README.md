# A verification of a REALITY server and its TLS stack in TLA+

The repository is a fork of Go's `crypto/tls` that adds the server side of
REALITY: `Server` (tls.go) answers a client that knows the server's key with
a TLS 1.3 handshake of its own, shaped like the handshake of a target site,
and relays everybody else to that site. This directory holds TLA+ modules of the
parts whose correctness depends on the order of events, the TLC runs that check
them, and TLAPS proofs for every value of the constants.

`PROJECT.json` lists components, runs, mutants, findings, hazards, theorems,
and for each definition the lines it models.

## Inventory

| Part | State | Operations | What is hard about it |
| --- | --- | --- | --- |
| REALITY server (tls.go, handshake_server_tls13.go) | mutex, wait group, `copying`, `stole`, `hs.c.conn`, `s2cSaved`, `handshakeLen`, two connections | `Server` and its goroutines, `MirrorConn.Read` | up to five goroutines share flags, some read outside the mutex; the target's stream is cut anywhere; peers leave at any time |
| Listener (tls.go) | `l.conns`, `l.err` | `NewListener`'s loop, a goroutine per connection, `Accept` | the channel is closed while others send on it |
| Conn (conn.go) | `in`, `out`, `handshakeMutex`, `isHandshakeComplete`, `handshakeErr`, `activeCall`, `sendBuf`, `retryCount` | `Write`, `Read`, `Close`, `CloseWrite`, `HandshakeContext`, `ConnectionState` | three mutexes in two orders, atomics beside them, a flush without a mutex, deadlines, cancellation |
| QUIC interface (quic.go) | `blockedc`, `signalc`, `cancelc`, `readbuf`, `events` | `Start`, `NextEvent`, `HandleData`, `Close`, ... | rendezvous of two goroutines that own shared memory in turn |
| Certificate cache (cache.go) | map, reference counts | `newCert`, `active`, the cleanup | a lookup races an eviction |
| Ticket keys, session cache (common.go, ticket.go) | key list under an RWMutex; list and map under a mutex | `ticketKeys`, `Put`, `Get` | lock upgrade, rotation, capacity |
| Negotiation (handshake_*.go, common.go, auth.go, cipher_suites.go, ech.go) | handshake states | version, suite, curve, certificate selection | many cases, order of preference |
| Encodings and cryptography (handshake_messages.go, key_*.go, prf.go, aes/, gcm/, hpke/, tls12/, tls13/) | none across calls | pure functions | not a matter of order |

How they interact: the listener's goroutines call `Server`; `Server` builds a
`Conn` around a `MirrorConn`, drives parts of the TLS 1.3 server handshake on it,
and returns the `Conn` with its handshake complete. `Client` makes a `Conn` whose
first `Read`, `Write` or `HandshakeContext` runs the client handshake. All of
`serverHandshake` has no caller left in this fork.

What makes each part correct:

- REALITY server: a client sees either the target or us, never a mixture; only a
  genuine client is answered and only a finished one returned; our records have
  the target's lengths; a relay works in both directions; `Server` returns.
- Listener: each accepted connection is returned once, nothing else is.
- Conn: the peer can open every record, no data inside a handshake or behind an
  alert, `Close` and cancellation free every goroutine.
- Handshake: two ends that complete agree on all that was negotiated; nobody is
  talked into an older version; a peer that had to be authenticated was, also when a
  session is resumed; an inner name stays hidden; no end waits for ever.
- Shared state (ticket keys, session cache, certificate cache): a key lives as long
  as its tickets, the cache loses its least recently used entry, no entry leaks.
- QUIC: events, handshake bytes and levels have one owner at a time, every event is
  delivered once and in order, every call returns.

## Modules

**RealityServer** is one call of `Server`. Its goroutines are processes with a
program counter each: M (`Server` itself), C (reads the ClientHello, tls.go:162),
S (reads the target, tls.go:227), L (the copier S may start, tls.go:341), P (the
probe, tls.go:314). The variables are the code's: `mutex`, `wg`, `copying`,
`stole`, `authed` (`hs.c.conn == conn`), `cut`/`tPos` (the ends of `s2cSaved` in
the target's stream), `recLen` (`handshakeLen`), `hsLen` (`hs.c.out.handshakeLen`),
and what each peer has sent and received. Streams are sequences of units, records
have lengths in units, and `size`, the record header and the 512-byte limit are
constants. Admission (`Value`, version, time and short id) is translated; keys
are the outcome of opening the session id. A panic of a goroutine sets `crashed`.

**RealityPromise** is what `Server` promises about one connection with no
goroutine, lock or buffer: it forwards up, forwards down, answers, confirms,
finishes. `KeepsPromise` maps RealityServer to it (`Mode`, `Promise`).

**RealityListener** is `NewListener` and `Accept`, with the blocked senders and
receivers of the channel as queues, as the Go runtime keeps them.

**Conn** is a set of goroutines that call the methods of one `Conn`. Each is a
record with its call, its place and what it is sending. `lock` has the holders of
the three mutexes, `out` and `in` the two half connections; a record is its kind,
the epoch of its key and its sequence number, so that "can be opened" is equality.
The blocking `conn.Write` is its own step, during which `out.Mutex` is held. The
client handshake is its flights and key changes; a REALITY server's `Conn` starts
complete, with the lengths that `Server` and its handshake have left in `handshakeLen`: `Misfits`
computes from them, and from the length of the record, whether `encrypt` can pad a handshake record
(conn.go:534-557). Post-handshake messages, renegotiation, alerts, ignored records and
messages split over records are the peer's to send.

**Negotiation** has what a `Config` allows and what two ends choose from it, as
operators: versions, curves, suites, signature schemes, certificates, protocols
(common.go, defaults.go, cipher_suites.go, auth.go). A list keeps the order the code
gives it; of each family of values that the code treats alike one or two stand for
the rest.

**ClientHandshake** and **ServerHandshake** are the two ends, TLS 1.0 to 1.3. The code
between two reads is sequential, so an action is one function of the source, from the
message it reads to the messages it writes; `cli` and `srv` hold the fields of `Conn` and
of the handshake states, `toServer` and `toClient` the messages under way, `cache` the
client's session. Every check that fails sends an alert. Cryptography is ideal: a
transcript is the sequence of the messages hashed, a MAC, signature, binder or ticket is
a record of the secret and the data it was made from and verifies when both are the
expected ones. The server is the client's peer. Its actions are the functions of the
server's states; the order of those of TLS 1.3, `ServerStep13`, is external, that of a
TLS 1.3 server at the other end, since `handshake` of handshake_server_tls13.go keeps most of the calls
in comments and returns before the last two: only REALITY's part of them runs in this fork.

**Handshake** composes them: connection after connection, each with Configs of its
own; between two connections time passes and ticket keys are replaced, during one a
middlebox rewrites the ClientHello or the network breaks. An application whose ECH was
rejected comes back with the retry configurations.

**Sessions** is what connections that run at the same time share: `ticketKeys` with its
read lock, its lock and `SetSessionTicketKeys`; `lruSessionCache`; `certCache` with its
atomic counts and the cleanups that the garbage collector runs at any time. `capacity` is the
room of this cache, any of `Capacities`. A stretch
under a lock is one action, each atomic operation of cache.go too. All peers show one
certificate, which is the contended case.
The list of ticket keys is never empty once it is made, and is kept as its first key, the one
that seals, and the rest.

**QuicConn** is quic.go for a client: the methods that the application calls, and the
handshake goroutine, step by step between the operations on `blockedc`, `signalc` and
`cancelc`. The handshake is kept as its waits, events and levels. `owed` and `seen` are
history variables.

**RealityServerProofs**, **RealityListenerProofs**, **ConnProofs**, **HandshakeProofs**,
**TicketProofs**, **AgreementProofs**, **SessionsProofs** and **QuicConnProofs** hold the
theorems about these modules; TicketProofs continues HandshakeProofs and AgreementProofs
continues TicketProofs. **MC...** modules give the instances.

## Runs

| Run | Shows |
| --- | --- |
| `reality_safety` | eight properties of one connection, the refinement of RealityPromise among them, for seventeen pairs of a client and a target |
| `reality_liveness` | termination, complete delivery, acceptance under fair goroutines |
| `reality_panic`, `reality_one_way` | the code does not do what its comments and guards say, see below |
| `listener` | four properties of the listener |
| `listener_panic` | a send on the closed channel |
| `conn` | eleven properties of goroutines that share a `Conn` |
| `conn_close`, `conn_cancel` | the code does not do what two comments say |
| `handshake` | eight properties of a client and a server over three connections |
| `sessions` | three properties of what concurrent connections share |
| `quic` | three properties of the rendezvous behind `QUICConn` |

Bounds, and why they are enough:

- RealityServer: a hello of two units meets every point at which C can lose the
  mutex inside a read; records of two to five units with `Size` = 4 lie on both
  sides of `size` and of the coalescing limit; target streams run to the last entry of
  `types`; one extra unit after the handshake shows a second reader; `MaxRelayed`
  bounds what a target sends as long as the client is not authenticated, which is
  where S only saves or relays it. A genuine client meets every kind of
  target, the other clients short streams, which no code tells apart.
- RealityListener: three connections and two callers make both queues grow and
  let a connection arrive after the failure.
- Conn: `Cases` pairs a kind of connection with the goroutines, the kinds of
  records and the behaviour of the peer that one question needs. One or two calls
  per goroutine, at most three extra records of the peer, `maxUselessRecords` = 1. One case
  has two goroutines that read at the same time, since a second `Read` can be past
  `Handshake` when the first one starts a renegotiation. Together the cases take every disjunct of every action. Deadlock is not checked: a `Read` may wait for
  a peer that stays silent.

- Handshake: six client and six server Configs, each different from the plain one in
  what makes a path happen: an old version, static RSA, one curve (HelloRetryRequest), a
  certificate that expires, is unknown or stapled, each ClientAuth, ECH accepted and
  rejected. Three connections are a full one, its resumption and the resumption of what
  that one issued; one fault (a broken connection, a rewritten hello, new ticket keys)
  strikes before the last of them; the clock passes the life of a ticket and of the short-lived
  certificates. Deadlock is not checked, because the run of connections ends;
  `NoMutualWait` is the deadlock that matters. The middlebox takes TLS 1.3 from a hello and nothing
  else, so `NoDowngrade` is about the canary of TLS 1.2; the other canary (TLS 1.1 and
  below) is in the model, but no run needs it.
- Sessions: three connections, so that one rotates or evicts between the two locks or
  the two atomic operations of another while a third holds a handle; three names for two
  places in the cache, where a session is moved to the front before another leaves, or for
  one, where the session that a connection offers can be evicted before that connection fails and
  puts nil; the clock passes a rotation and a key's life; one
  `SetSessionTicketKeys`. Connections are interchangeable and so are names, hence the symmetry.
- QuicConn: three calls of `HandleData` with one message or one and a half (bytes come in
  halves), enough for a HelloRetryRequest, both flights and a ticket, or for more tickets than
  `maxUselessRecords` = 1 allows.

Fairness:

- RealityServer: weak fairness of each goroutine; reads are enabled only when
  there is something to read, so nothing is assumed of the peers.
- RealityListener: weak fairness of the goroutines, and of `Accept`: the
  application keeps accepting, which is what a listener is for. `Server` may take
  for ever.
- Conn: some goroutine that can run does run. That is less than the Go scheduler
  gives, and suffices because calls are bounded. Peer, callers and cancellation
  are not fair.

- QuicConn: weak fairness of the goroutine and of the call under way, which is what the
  Go scheduler gives. When the application calls, and whether it cancels, is left open.
- Handshake and Sessions state no fairness. That a handshake ends is the invariant
  `NoMutualWait`, since each end that has something to do or to read goes on.

Each property has a mutant, a small change of the code's logic under which TLC
finds the property violated; the mutated forms stand in front of the definitions
they replace (`...M1`).

## Findings

1. `reality_panic`: a ClientHello that cannot be read is dereferenced (tls.go:166).
2. `reality_one_way`: a target that speaks before a foreign hello is complete is
   relayed in one direction (tls.go:167, 346). `RelayBothWaysForOurNames`, proved,
   is the part that holds.
3. `listener_panic`: a send on `l.conns` after its close; `defer recover()` does not
   recover (tls.go:432, 436, 439).
4. `conn_close`: `Close` waits for a mutex whose holder is blocked (conn.go:1536).
5. `conn_cancel`: a cancellation after completion closes the connection (conn.go:1619).

Behaviours met while modelling and proving, kept as the code has them and not stated as findings:

- With two concurrent `Read`s, a renegotiation that fails with an alert leaves neither `in.err`
  set nor `handshakes` raised, and the second `Read`, already past `Handshake`, may start another
  (conn.go:1348). So `isHandshakeComplete` and a `handshakeErr` can be true together for the time the
  second one holds `handshakeMutex` (the comment at conn.go:41 excludes it), and a
  further ClientHello is tried under `RenegotiateOnceAsClient` (common.go:531). `CompleteMeansNoError`
  is therefore stated for the moments when `handshakeMutex` is free, and
  `RenegotiationBounded` for a connection whose sending half has no error; both are
  proved in this form.
- `handshakeLen[1]` stays set, so `encrypt` wants to pad the KeyUpdate of a REALITY server,
  has no length for it, and fails: a server that is asked for one cannot write afterwards
  (conn.go:534, 1426). `UpdatesInStep` says what must hold then: the `Conn` does not go
  on writing under its old key as if it had answered.
- The probe tests `isHandshakeComplete` and closes `conn` in a later step (tls.go:318); if the
  target's connection fails in between, the connection `Server` returns is already closed.
  `FinishedIsAccepted` asks for nothing once the probe's read has failed and `Server` has not
  returned, which is exactly this race: no property says that a returned connection is open.
- `lruSessionCache.Put(key, nil)` of a key that is not there inserts an entry, and in a full
  cache evicts another name's session (common.go:1651), where the comment at common.go:1633 speaks of a
  removal only. It happens when a connection fails whose own entry was evicted meanwhile.
  `EvictsLeastRecent` allows it as its one exception, the second way of `MakesRoom`: only to a connection
  that had been offered a session, and only the oldest entry of a full cache. Without the exception
  TLC finds the property violated, with room for one name.
- The outer hello of ECH keeps a PSK whose binder covers the inner hello. A server
  that rejects ECH but has the ticket's key fails on the binder, so that the client gets
  an alert in place of retry configurations; its session is dropped and the next attempt
  succeeds.
- `loadSession` ignores the error of `quicResumeSession` (handshake_client.go:491): after a
  cancellation in that wait the goroutine runs on and makes events while no call waits for it.
  `EventsOwned` and `EventsDelivered` except this case by the flag `late`.
- Handshake bytes left over at a change of level under QUIC only make an alert and stay
  in `hand` (handshake_client_tls13.go:523).
- Under QUIC `retryCount` is never reset, so that a connection lives through
  `maxUselessRecords` post-handshake messages and ends at the next (conn.go:1381).
- A `Start` that is refused because of MinVersion has set `started`; later calls that wait for the
  goroutine would hang. The model's application only closes then, and calls `HandleData`
  only after `Start`.

## Proofs

Every proof is for all values of the constants, under the assumptions that the models state
on them and that TLC evaluates in each run (`SizesAssumption`, `ScriptsAssumption` and
`ConfigAssumption` of RealityServer, those of the other modules likewise): positive sizes,
records of the target that lie end to end, versions of three bytes, finite bounds. Each is an inductive invariant with one
step per action, which TLC checked on an instance before it was proved.

**RealityServerProofs**

- `InductiveInvariant`: `IInv == TypeOK /\ Control`. The
  properties alone are not inductive: `Control` adds who holds the mutex at which place,
  which goroutines exist, what `authed`, `copying` and `stole` imply about the places of C, S
  and L, and when the probe exists. `TypeOK` contains the bounds of `wg` and of the cut.
- `TypeCorrect`, `WaitGroupExact`, `OneReader`: consequences of `IInv`.
- `RelayHasBothCopiers`: a second invariant, about how the copier from the client
  came to be missing, on top of `IInv`.
- `HeadersAligned`, `PaddingFits`: the invariant `Alignment`. A length that S
  remembers across an unlock belongs to the record at its cut, so that cutting it off
  leads to the next header.

Its second half proves `Refines` (`KeepsPromise`, the refinement of RealityPromise)
and `Imitates` (`Imitation`). Their invariant `Faithful` adds four parts to the above:

- `Stages`: how far a connection is. The length of the target's ServerHello is never used up,
  so that it tells for good whether we answer or relay; `authed` implies `Genuine`. The latter
  rests on `ValueOrder`: comparing two versions as numbers, as `Value` does, is comparing
  them component by component because each component is a byte.
- `Up`, `Down`: what was written in a direction is the beginning of the stream, and what a
  copier holds is the next part of it, as long as the receiving end can be written to. `Up`
  passes from C to L without a gap because only one of them ever holds anything.
- `Learned`: the lengths S has recorded belong to the target's records in the same place,
  without a gap; its cut, its entry of `types` and its `handshakeLen` belong to one record.

In the refinement the writes to the target are `ForwardUp`, those to the client
`ForwardDown`, `HandshakeSent` is `Answer`, `FinishedRead` is `Confirm`, `Return` and a
failed dial are `Finish`, and every other step stutters.

**RealityListenerProofs**: `ListenerTypeCorrect`, `NeverNilNil`, `AcceptedOnly`. The
invariant says what the queues of blocked senders and receivers may hold together, and
that a connection is in one place only: with its goroutine, in a queue, or returned.

**ConnProofs**: `ConnTypeCorrect`, `CompleteIsClean`, `DataOutsideHandshakes`,
`SilentAfterAlert`, `OneRenegotiation`, all from `ConnInvariant`; `NumbersInOrder`,
`UpdatesAnswered` and `HonestPeerIsRead`. The parts of the invariant are the types; `Control` (which
mutexes a goroutine holds at each place, hence mutual exclusion); `Active` (`activeCall`
counts the writers); `Shook`, `Padded` (what a complete handshake and a REALITY server
imply); `Buffered` (`sendBuf` and `buffering` against the place of the handshake's owner);
`Numbered` (records on the wire and in hand continue the sequence numbers of their key);
`Apart` (data and handshake records under way exclude each other); `Hushed` (after an
alert the half connection has an error before its mutex is free); `Limited` and `Tallied`
(hellos sent, against `handshakes`).

`NumbersInOrder` (`WireDecrypts`) and `UpdatesAnswered` (`UpdatesInStep`) are about when our own keys
change, which that invariant does not say. `WireDecrypts` asks for a new key after each
KeyUpdate, change_cipher_spec and TLS 1.3 Finished, and for none elsewhere but after a TLS 1.3 ClientHello;
yet the record that ends a key may be on the wire, still in `sendBuf`, or in hand while `out.Mutex` is
held. `KeyInv` (`KeysInStep`) follows it there: `Keyed` says, of each of these places, that the
next record has the next number of the same key or is the first of the next key; `Alone13`, that in TLS 1.3
nothing overtakes the buffered flight; `Epochs`, at which epoch both halves are at each place of
the TLS 1.3 handshake, and that afterwards ours is behind the peer's only by updates that nobody asked
us to answer or that a goroutine is about to answer (`Asked`). An answer that cannot be
sealed or written leaves `out.err`, so that a `Conn` without an error is in step; for a REALITY server
the sending key is then still its first.

`HonestPeerIsRead` (`HonestRecordsOpen`) needs the other direction as well: what the peer has under
way and where the reader is. `OpenInv`, on top of that invariant, looks at the peer's queue
followed by the record it would send next. `InLine`: each of these records carries the epoch
and number that follow those of the one before it, a message cut short goes on in the next
record with a message, and the first of them is the one the reader awaits, a key change
of the message still in hand counted in. That stops being true only where nobody opens another
record (`Lost`): `in.err` is set or about to be, in TLS 1.3 also once the handshake cannot succeed any more,
or the peer broke the protocol. Two more parts keep it going. `Sober`: who holds the alert
bad_record_mac, and in TLS 1.3 nobody renegotiates and nobody reads data before the handshake is complete.
`Once`: TLS 1.3 has one ClientHello, so the peer changes its keys for ServerHello and
flight once each; and a client that has read the flight has both changes behind
it, so a KeyUpdate cannot overtake them. In TLS 1.3 messages are used one record at a time
(`InUse`), with one exception: the two tickets of one record. A server would reject the first and
leave the second in hand, and would then take every KeyUpdate a record late; only a server issues tickets,
so `PeerSends` counts a client that sends them as one that breaks the protocol. The proof
found this case, which the bounds of `MCConn` do not reach.

**HandshakeProofs**: `ServerIsAuthenticated` (`ServerAuthenticated`), from `ClientInvariant`.
A client may complete by resuming, so the property is about the whole history of the
session cache; the parts of `ClientInv` follow it round. `Cached`: a session in the cache has a
certificate, and one that says it was verified was issued by some client's roots. `Offered`: a
session that is offered is good for this Config at this time (`loadSession`), and stays so because
the clock moves between connections only. `Greeted`: a hello has a PSK only if there is a session,
through the retry and the two hellos of ECH. `Encrypted`: under ECH the version is TLS 1.3
(`keepsVersion`), and the client knows whether ECH was rejected before it reads
a certificate; this is what excludes that the certificate of the public name counts as the server's.
`Shown`: what was verified at each place. `HandshakeAssumption` says which fields a Config has and
that ClientAuth is one of the five policies. Messages are not restricted in any way: the
proof takes whatever arrives.

**TicketProofs**: `ClientAuthIsHonoured` (`ClientAuthHonoured`), from `TicketInvariant` on top of
`ClientInv`. A server takes a client certificate from a ticket that an earlier connection
sealed, perhaps under another policy. So `TicketInv` follows tickets through both queues
(`Hellos`, `Replies`), the client's `ticket` and cache, the hello and the hello sealed in it
(`Kept`), to the hello that the server answers (`Answered`): a ticket with a verified certificate
holds one that some server's CAs issued. `Judged` says what holds at each place of the server: before
the decision about resumption no certificate, afterwards `ClientAuthOk`. The network may
break connections and rewrite hellos in this proof, since it makes no ticket.

`NeverDowngraded` (`NoDowngrade`) comes from the same `TicketInv`. Every hello on its way, and
every hello sealed in one, lists all the versions of its client but perhaps TLS 1.3, which
is what a middlebox may have removed (`Lists`). So the version a server answers with is
the best one unless it gave up TLS 1.3 (`Answer`), and its ServerHello, held back or under way, carries
the canary of that version (`Marked`); the client that reads it then has the best version or refuses
(`NotTalkedDown`). Under it are lemmas about lists of versions: `VersionsIn` descends, and
`mutualVersion` of a descending list is the highest version in it that the Config allows.

**AgreementProofs** is about both ends together. Two more invariants on top of `TicketInv`:

- `LinkInv` relates what an end has decided to every message under way and to what the other
  end took from it. `Heard`: a reply in the queue says what its server has decided; before
  TLS 1.3 a ticket comes before the Finished. `Called`: a hello carries the ticket of the client's
  session, and a Finished is the last word of the client where it is its last message. `Matched`: a
  session is what its ticket says. `Follows`: what the client knows at each place is what the
  ServerHello, or the message after it, said. `Stands`: what the server has decided at each
  place, and that a server that completed last did so over the client's transcript.
  `SessionsMatchTickets` (`SessionMatchesTicket`) follows.
- `NameInv` adds names, and which of the two hellos of ECH was answered. `NamedOut`: a hello under way
  has the public name, and a PSK in it is bound to the inner name. `ClientNames`: the name the client
  goes by, and whether it knows that ECH was accepted or rejected. `ServerNames`: the server goes by the
  inner name exactly if it opened the inner hello, and if it did not, it does not resume in
  TLS 1.3. `NamedBack`: a Finished over the outer hello comes from a server without the key. Hence
  `HelloIsEncrypted` (`EncryptedHello`) and `EndsAgree` (`Agreement`).

Whose message is the last depends on the version and on resumption, so `Agreement` has two
halves: the end that completes last has compared the other's Finished with its own transcript,
and the end that completed first does not move any more. The network may break connections and
rewrite hellos. Two assumptions on constants are used: the two names of ECH differ (`ServerName # PublicName`) and no
error is not an ECHRejectionError (`None # "ech"`), both in `ClientAssumption`.

**SessionsProofs**: `RotationIsSafe`, `CertificatesReleased`, `OnlyLeastRecentEvicted`. The
first needs the order of the keys by age and what a goroutine carries from the read lock to
the lock; the second counts handles and cleanups per entry of `certCache`; the third holds for every
capacity, with lemmas about the list of names (no name twice, what `Put` drops, what `Get` moves).

**QuicConnProofs**: `OneOwner` (`EventsOwned`), from an invariant about which of the
two goroutines is between `blockedc` and `signalc`.

Only model-checked, and why:

- every liveness property, `ClosedFreesAll` and the like: fairness is out of the prover's reach;
- `EventsDelivered` of QuicConn: it compares folds over the sequences of events, and
  what a fold computes needs an induction over data;
- `TypeOK` of Handshake: curves, suites and schemes are chosen by `SelectSeq`, a recursive
  definition about which the prover has no facts (versions are listed by `VersionsIn` instead,
  for that reason);
- `NoMutualWait` of Handshake: it needs the shape of both queues, message by message, at each pair of
  places of the two ends.

## Not modelled

- Cryptography and encodings (handshake_messages.go, key_schedule.go, prf.go, hpke, aes,
  gcm, tls12, tls13): pure functions, ideal in the models.
- In Conn: deadlines set by applications, the splitting of data into records and their
  sizes (`maxPayloadSizeForWrite`), oversized or malformed handshake messages.
- In Handshake: 0-RTT, cookies, renegotiation (Conn has it), FIPS mode,
  change_cipher_spec records, FALLBACK_SCSV, the callbacks GetConfigForClient, GetCertificate,
  GetClientCertificate, VerifyPeerCertificate and EncryptedClientHelloRejectionVerify (taken as nil), the server's VerifyConnection, WrapSession
  and UnwrapSession. The client's VerifyConnection is a pinned kind of key.
- In QuicConn: the server side, which cannot be created (quic.go:184), and with it
  `SendSessionTicket`; `StoreSession`.
- `config.Show` output, `Dialer`, the certificate generator, texts and constants.

## Plan

Done, in this order: RealityServer with RealityPromise and the proofs,
RealityListener, Conn, Negotiation with both ends of Handshake, Sessions, QuicConn; the
proofs of RealityListener, Sessions, QuicConn (`EventsOwned`) and all safety properties of Conn, the refinement and
`Imitation`, the authentication of both ends of Handshake, `NoDowngrade`, and what both ends
agree on. What could follow:

1. Proofs: Handshake's `NoMutualWait`.
2. Conn: the oversized message that is answered without `out.Mutex`
   (conn.go:1179), record splitting.
