---------------------------- MODULE Sessions ----------------------------
(***************************************************************************)
(* What connections that run at the same time share: the ticket keys of    *)
(* the server's Config under its RWMutex (common.go), the client's LRU     *)
(* session cache (common.go) and the certificate cache with its reference  *)
(* counts (cache.go).                                                      *)
(*                                                                         *)
(* A connection looks up its session, is served with the ticket keys of    *)
(* the moment, interns the peer's certificate, and ends well or badly.     *)
(* What happens between those steps is the handshake of module Handshake;  *)
(* here it is the choice of an outcome.  All peers show one certificate.   *)
(***************************************************************************)
EXTENDS Naturals, Sequences, SequencesExt

CONSTANTS
  Conns,          \* connections, each made once
  Names,          \* server names, the keys of the session cache
  None,           \* nil
  Capacities,     \* the capacities a session cache is made with
  Rotation,       \* ticketKeyRotation
  KeyLifetime,    \* ticketKeyLifetime
  MaxTime,        \* bound: the clock
  MaxSets         \* bound: calls of SetSessionTicketKeys

ASSUME SessionsAssumption ==
  /\ Capacities \subseteq Nat \ {0} /\ Rotation \in Nat \ {0} /\ KeyLifetime \in Nat \ {0}
  /\ MaxTime \in Nat /\ MaxSets \in Nat
  /\ None \notin Conns
  /\ \A a \in BOOLEAN, t \in 0..MaxTime :
       LET key == [auto |-> a, created |-> t] IN None # key /\ None # [key |-> key]

VARIABLES
  now,
  config,     \* the ticket keys of the server's Config
  sets,       \* calls of SetSessionTicketKeys
  capacity,   \* lruSessionCache.capacity, fixed when it is made
  lru,        \* lruSessionCache.q from front to back; m is its index by sessionKey
  certs,      \* the cacheEntry stored in certCache, named after its maker
  refs,       \* cacheEntry.refs
  conn        \* per connection

vars == <<now, config, sets, capacity, lru, certs, refs, conn>>

\* A connection that holds nothing.
At(pc) == [pc |-> pc, name |-> None, offers |-> FALSE, key |-> None, entry |-> None]

Init ==
  /\ now = 0 /\ sets = 0
  \* SessionTicketKey, unset or given by the user; sessionTicketKeys[0];
  \* autoSessionTicketKeys[0], and the others, which only decrypt
  /\ config \in [legacy : {"zero", "user"}, set : {None}, first : {None}, rest : {{}}]
  /\ capacity \in Capacities /\ lru = <<>>
  /\ certs = None
  /\ refs = [p \in Conns |-> 0]
  /\ conn = [p \in Conns |-> At("idle")]

Goes(p, pc) == conn' = [conn EXCEPT ![p].pc = pc]

----------------------------------------------------------------------------
(* lruSessionCache *)

\* m[name], if it is there.
Position(q, name) == {i \in DOMAIN q : q[i].name = name}

Find(q, name) == CHOOSE i \in Position(q, name) : TRUE

\* q.MoveToFront(elem), with a new value for elem
MoveToFront(q, i, entry) == <<entry>> \o RemoveAt(q, i)

Get(q, name) == IF Position(q, name) = {} THEN None ELSE q[Find(q, name)].state

\* Get moves what it finds to the front.
AfterGet(q, name) ==
  IF Position(q, name) = {} THEN q
  ELSE MoveToFront(q, Find(q, name), q[Find(q, name)])

\* Mutant: the entry at the front makes room.
PutM1(q, name, cs) ==
  LET entry == [name |-> name, state |-> cs]
  IN  IF Position(q, name) # {} THEN MoveToFront(q, Find(q, name), entry)
      ELSE IF Len(q) < capacity THEN <<entry>> \o q ELSE MoveToFront(q, 1, entry)

\* Put of nil removes an entry that is there and otherwise adds an empty one,
\* which, like any other, takes the place of the one at the back.
Put(q, name, cs) ==
  LET entry == [name |-> name, state |-> cs]
  IN  CASE Position(q, name) # {} /\ cs = None -> RemoveAt(q, Find(q, name))
        [] Position(q, name) # {} /\ cs # None -> MoveToFront(q, Find(q, name), entry)
        [] Position(q, name) = {} /\ Len(q) < capacity -> <<entry>> \o q
        [] OTHER -> MoveToFront(q, Len(q), entry)

\* A connection begins: the client looks for a session.
StartConn(p, name) ==
  /\ conn[p].pc = "idle"
  /\ conn' = [conn EXCEPT ![p] = [@ EXCEPT !.pc = "rlock", !.name = name,
                                           !.offers = Get(lru, name) # None]]
  /\ lru' = AfterGet(lru, name)
  /\ UNCHANGED <<now, config, sets, capacity, certs, refs>>

----------------------------------------------------------------------------
(* Config.ticketKeys.  A stretch under Lock runs alone, and one under RLock *)
(* reads what nobody can write meanwhile: each is one action.               *)

ticketKeyFromBytes(auto) == [auto |-> auto, created |-> now]

\* initLegacySessionTicketKeyRLocked has something to write.
NeedsLegacy == \/ config.legacy = "zero"
               \/ config.legacy = "user" /\ config.set = None

Fresh == config.first # None /\ now - config.first.created < Rotation

autoSessionTicketKeys == config.rest \cup ({config.first} \ {None})

\* Under the read lock: the keys that are set, or the automatic ones while the
\* first is fresh.  It is given up for the lock when there is something to write.
ticketKeys(p) ==
  /\ conn[p].pc \in {"rlock", "relock"}
  /\ conn' = [conn EXCEPT ![p] =
       CASE @.pc = "rlock" /\ NeedsLegacy -> [@ EXCEPT !.pc = "lockLegacy"]
         [] ~(@.pc = "rlock" /\ NeedsLegacy) /\ config.set # None ->
              [@ EXCEPT !.key = config.set, !.pc = "load"]
         [] ~(@.pc = "rlock" /\ NeedsLegacy) /\ config.set = None /\ Fresh ->
              [@ EXCEPT !.key = config.first, !.pc = "load"]
         [] OTHER -> [@ EXCEPT !.pc = "rotate"]]
  /\ UNCHANGED <<now, config, sets, capacity, lru, certs, refs>>

\* With the lock, after a second look; then the read lock again.
initLegacySessionTicketKey(p) ==
  /\ conn[p].pc = "lockLegacy"
  /\ config' = CASE config.legacy = "zero" -> [config EXCEPT !.legacy = "deprecated"]
                 [] config.legacy = "user" /\ config.set = None ->
                      [config EXCEPT !.set = ticketKeyFromBytes(FALSE)]
                 [] OTHER -> config
  /\ Goes(p, "relock")
  /\ UNCHANGED <<now, sets, capacity, lru, certs, refs>>

Unexpired == {k \in autoSessionTicketKeys : now - k.created < KeyLifetime}

\* Mutant: nobody looks again before the key is made.
RotateKeysM1(p) ==
  /\ conn[p].pc = "rotate"
  /\ config' = [config EXCEPT !.first = ticketKeyFromBytes(TRUE), !.rest = Unexpired]
  /\ conn' = [conn EXCEPT ![p] = [@ EXCEPT !.key = config'.first, !.pc = "load"]]
  /\ UNCHANGED <<now, sets, capacity, lru, certs, refs>>

\* A new key in front, and those out that have lived out their life, unless
\* somebody else has done it meanwhile.
RotateKeys(p) ==
  /\ conn[p].pc = "rotate"
  /\ config' = IF Fresh THEN config
               ELSE [config EXCEPT !.first = ticketKeyFromBytes(TRUE), !.rest = Unexpired]
  /\ conn' = [conn EXCEPT ![p] = [@ EXCEPT !.key = config'.first, !.pc = "load"]]
  /\ UNCHANGED <<now, sets, capacity, lru, certs, refs>>

SetSessionTicketKeys ==
  /\ sets < MaxSets
  /\ config' = [config EXCEPT !.set = ticketKeyFromBytes(FALSE)]
  /\ sets' = sets + 1
  /\ UNCHANGED <<now, capacity, lru, certs, refs, conn>>

----------------------------------------------------------------------------
(* certCache.newCert *)

Load(p) ==
  /\ conn[p].pc = "load"
  /\ conn' = [conn EXCEPT ![p] = IF certs # None
                                 THEN [@ EXCEPT !.entry = certs, !.pc = "active"]
                                 ELSE [@ EXCEPT !.pc = "store"]]
  /\ UNCHANGED <<now, config, sets, capacity, lru, certs, refs>>

LoadOrStore(p) ==
  LET entry == IF certs # None THEN certs ELSE p
  IN  /\ conn[p].pc = "store"
      /\ certs' = entry
      /\ conn' = [conn EXCEPT ![p] = [@ EXCEPT !.entry = entry, !.pc = "active"]]
      /\ UNCHANGED <<now, config, sets, capacity, lru, refs>>

\* The handle that the connection keeps.
active(p) ==
  /\ conn[p].pc = "active"
  /\ refs' = [refs EXCEPT ![conn[p].entry] = @ + 1]
  /\ Goes(p, "handshake")
  /\ UNCHANGED <<now, config, sets, capacity, lru, certs>>

\* The handshake ends well, with a ticket under the first key that the
\* connection has, or badly, and a session that was offered is put as nil.
Finish(p) ==
  LET c == conn[p]
  IN  /\ c.pc = "handshake"
      /\ \/ lru' = Put(lru, c.name, [key |-> c.key])
         \/ lru' = IF c.offers THEN Put(lru, c.name, None) ELSE lru
      /\ conn' = [conn EXCEPT ![p] = [At("hold") EXCEPT !.entry = c.entry]]
      /\ UNCHANGED <<now, config, sets, capacity, certs, refs>>

\* Mutant: the last handle is not seen to be the last.
CleanupM1(p) ==
  /\ conn[p].pc = "hold"
  /\ refs' = [refs EXCEPT ![conn[p].entry] = @ - 1]
  /\ conn' = [conn EXCEPT ![p] = At(IF refs[@.entry] = 0 THEN "evict" ELSE "done")]
  /\ UNCHANGED <<now, config, sets, capacity, lru, certs>>

\* The cleanup of a handle that nobody refers to any more.
Cleanup(p) ==
  /\ conn[p].pc = "hold"
  /\ refs' = [refs EXCEPT ![conn[p].entry] = @ - 1]
  /\ conn' = [conn EXCEPT ![p] = At(IF refs'[@.entry] = 0 THEN "evict" ELSE "done")]
  /\ UNCHANGED <<now, config, sets, capacity, lru, certs>>

\* evict deletes by the certificate, whichever entry it has by now.
evict(p) ==
  /\ conn[p].pc = "evict"
  /\ certs' = None
  /\ Goes(p, "done")
  /\ UNCHANGED <<now, config, sets, capacity, lru, refs>>

----------------------------------------------------------------------------
Tick ==
  /\ now < MaxTime
  /\ now' = now + 1
  /\ UNCHANGED <<config, sets, capacity, lru, certs, refs, conn>>

Step(p) ==
  \/ \E name \in Names : StartConn(p, name)
  \/ ticketKeys(p) \/ initLegacySessionTicketKey(p) \/ RotateKeys(p)
  \/ Load(p) \/ LoadOrStore(p) \/ active(p)
  \/ Finish(p) \/ Cleanup(p) \/ evict(p)

Next == Tick \/ SetSessionTicketKeys \/ \E p \in Conns : Step(p)

Spec == Init /\ [][Next]_vars

----------------------------------------------------------------------------
(* Properties *)

\* ticketKeys gives up its read lock before it takes the lock, and still the
\* keys rotate once in a period, the newest first, and no key is dropped whose
\* life is not over: the session that a client holds can be resumed however
\* the connections that rotate the keys interleave.
RotationSafe ==
  /\ \A k \in config.rest : config.first.created >= k.created + Rotation
  /\ \A k, l \in config.rest :
       k # l => \/ k.created >= l.created + Rotation
                \/ l.created >= k.created + Rotation
  /\ \A i \in DOMAIN lru : lru[i].state # None =>
       LET key == lru[i].state.key
       IN  key.auto /\ now - key.created < KeyLifetime => key \in autoSessionTicketKeys

\* p finishes, the only time that it calls Put.
Finishing(p) == conn[p].pc = "handshake" /\ conn'[p].pc = "hold"

\* Put of p drops the last entry of a full cache for its own in front: that
\* holds the new session of p, or nil where a failed p puts nil for a session
\* that it had been offered and that has left the cache meanwhile.
MakesRoom(i, p) ==
  /\ i = Len(lru) /\ Len(lru) = capacity /\ Position(lru, conn[p].name) = {}
  /\ \/ lru'[1] = [name |-> conn[p].name, state |-> [key |-> conn[p].key]]
     \/ conn[p].offers /\ lru'[1] = [name |-> conn[p].name, state |-> None]

\* The cache keeps to its capacity and has every name once, and a session
\* leaves it only because a connection to its own server failed that offered
\* it, or as the least recently used of a full cache that needs room.  "If cs
\* is nil, the entry corresponding to sessionKey is removed from the cache
\* instead" is not all that Put does: of a name that is not there it adds an
\* empty entry, and so, in the second way of MakesRoom, removes another's.
LeavesInTurn ==
  /\ Len(lru') <= capacity
  /\ \A i, j \in DOMAIN lru' : lru'[i].name = lru'[j].name => i = j
  /\ \A i \in DOMAIN lru :
       Position(lru', lru[i].name) = {} =>
         \E p \in Conns :
           /\ Finishing(p)
           /\ (conn[p].name = lru[i].name /\ conn[p].offers) \/ MakesRoom(i, p)

\* Every step leaves the cache so.
EvictsLeastRecent == [][LeavesInTurn]_vars

\* Once every handle is gone and every cleanup has run, the certificate is out
\* of the cache, whatever entries came and went between a Load and its active.
CertsReleased ==
  (\A p \in Conns : conn[p].pc \notin {"active", "handshake", "hold", "evict"}) => certs = None
==========================================================================
