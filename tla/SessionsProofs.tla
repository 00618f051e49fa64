-------------------------- MODULE SessionsProofs --------------------------
(***************************************************************************)
(* Proofs about Sessions, for any connections, names, capacities, periods  *)
(* and length of the run.                                                  *)
(***************************************************************************)
EXTENDS Sessions, FiniteSetTheorems, SequenceTheorems, TLAPS

Key == [auto : BOOLEAN, created : 0..MaxTime]

Entry == [name : Names, state : [key : Key] \cup {None}]

Places == {"idle", "rlock", "lockLegacy", "relock", "rotate", "load", "store", "active",
           "handshake", "hold", "evict", "done"}

Record == [pc : Places, name : Names \cup {None}, offers : BOOLEAN,
           key : Key \cup {None}, entry : Conns \cup {None}]

TypeInv ==
  /\ now \in 0..MaxTime
  /\ config \in [legacy : {"zero", "user", "deprecated"}, set : Key \cup {None},
                 first : Key \cup {None}, rest : SUBSET Key]
  /\ capacity \in Capacities
  /\ lru \in Seq(Entry)
  /\ certs \in Conns \cup {None}
  /\ refs \in [Conns -> Int]
  /\ conn \in [Conns -> Record]

\* What a connection has when it needs it.
Equipped(c) ==
  /\ c.pc \notin {"idle", "hold", "evict", "done"} => c.name \in Names
  /\ c.pc \in {"load", "store", "active", "handshake"} => c.key \in Key
  /\ c.pc \in {"active", "handshake", "hold"} => c.entry \in Conns

ConnInv == \A p \in Conns : Equipped(conn[p])

\* A ticket under this key can be resumed, or has outlived its key.
Resumable(k) == k.auto /\ now - k.created < KeyLifetime => k \in autoSessionTicketKeys

\* Why no live key is lost: a key that somebody holds is still there, and the
\* keys that are there were made apart, none of them in the future.
KeysInv ==
  /\ config.first = None => config.rest = {}
  /\ config.set # None => ~config.set.auto
  /\ \A k \in autoSessionTicketKeys : k.created <= now
  /\ \A p \in Conns : conn[p].key # None => Resumable(conn[p].key)
  /\ RotationSafe

UniqueNames(q) == \A i, j \in DOMAIN q : q[i].name = q[j].name => i = j

LruInv == Len(lru) <= capacity /\ UniqueNames(lru)

\* The handles on an entry that are not cleaned up yet.
Holders(e) == {p \in Conns : conn[p].pc \in {"handshake", "hold"} /\ conn[p].entry = e}

\* Why the certificate gets out: refs counts the handles, and an entry that is
\* in the cache has a handle, or is about to, or its eviction is on the way.
CertInv ==
  /\ \A e \in Conns : IsFiniteSet(Holders(e)) /\ refs[e] = Cardinality(Holders(e))
  /\ certs # None =>
       \E p \in Conns : \/ conn[p].pc \in {"active", "handshake", "hold"} /\ conn[p].entry = certs
                        \/ conn[p].pc = "evict"

IInv == TypeInv /\ ConnInv /\ KeysInv /\ LruInv /\ CertInv
---------------------------------------------------------------------------
\* No key is nil.
LEMMA KeyIsSome == None \notin Key
PROOF BY SessionsAssumption DEF Key

---------------------------------------------------------------------------
(* The list of the LRU cache *)

\* What taking one element out of a list leaves.
LEMMA RemoveAtProps ==
  ASSUME NEW S, NEW q \in Seq(S), NEW i \in 1..Len(q)
  PROVE  /\ RemoveAt(q, i) \in Seq(S)
         /\ Len(q) \in Nat /\ Len(RemoveAt(q, i)) = Len(q) - 1
         /\ \A j \in 1..(Len(q) - 1) : RemoveAt(q, i)[j] = IF j < i THEN q[j] ELSE q[j + 1]
<1> DEFINE a == SubSeq(q, 1, i - 1)
           b == SubSeq(q, i + 1, Len(q))
<1>1. a \in Seq(S) /\ Len(a) = i - 1 /\ \A j \in 1..(i - 1) : a[j] = q[j]
  OBVIOUS
<1>2. b \in Seq(S) /\ Len(b) = Len(q) - i /\ \A j \in 1..(Len(q) - i) : b[j] = q[i + j]
  OBVIOUS
<1> HIDE DEF a, b
<1>3. /\ a \o b \in Seq(S) /\ Len(a \o b) = Len(a) + Len(b)
      /\ \A j \in 1..(Len(a) + Len(b)) :
           (a \o b)[j] = IF j <= Len(a) THEN a[j] ELSE b[j - Len(a)]
  BY <1>1, <1>2, ConcatProperties
<1>4. Len(q) \in Nat /\ Len(a \o b) = Len(q) - 1
  BY <1>1, <1>2, <1>3
<1>5. ASSUME NEW j \in 1..(Len(q) - 1)
      PROVE  (a \o b)[j] = IF j < i THEN q[j] ELSE q[j + 1]
  <2>0. j \in 1..(Len(a) + Len(b)) /\ j \in Nat /\ i \in Nat
    BY <1>1, <1>2, <1>4
  <2>1. CASE j < i
    BY <1>1, <1>3, <2>0, <2>1
  <2>2. CASE ~(j < i)
    <3>1. /\ j - Len(a) = j - i + 1 /\ j - i + 1 \in 1..(Len(q) - i)
          /\ i + (j - i + 1) = j + 1 /\ ~(j <= Len(a))
      BY <1>1, <1>4, <2>2
    <3>2. (a \o b)[j] = b[j - i + 1]
      BY <1>3, <2>0, <3>1
    <3>3. b[j - i + 1] = q[i + (j - i + 1)]
      BY <1>2, <3>1
    <3> QED
      BY <2>2, <3>1, <3>2, <3>3
  <2> QED
    BY <2>1, <2>2
<1> QED
  BY <1>3, <1>4, <1>5 DEF RemoveAt, a, b

\* What putting one element in front of a list gives.
LEMMA PushFront ==
  ASSUME NEW S, NEW q \in Seq(S), NEW e \in S
  PROVE  /\ <<e>> \o q \in Seq(S)
         /\ Len(q) \in Nat /\ Len(<<e>> \o q) = Len(q) + 1
         /\ (<<e>> \o q)[1] = e
         /\ \A j \in 1..Len(q) : (<<e>> \o q)[j + 1] = q[j]
PROOF OBVIOUS

\* MoveToFront puts an element first and keeps the order of the others.
LEMMA MoveToFrontProps ==
  ASSUME NEW q \in Seq(Entry), NEW i \in 1..Len(q), NEW e \in Entry
  PROVE  /\ MoveToFront(q, i, e) \in Seq(Entry)
         /\ Len(q) \in Nat /\ Len(MoveToFront(q, i, e)) = Len(q)
         /\ MoveToFront(q, i, e)[1] = e
         /\ \A j \in 2..Len(q) :
              MoveToFront(q, i, e)[j] = IF j <= i THEN q[j - 1] ELSE q[j]
<1> DEFINE t == RemoveAt(q, i)
           r == <<e>> \o t
<1>1. /\ t \in Seq(Entry) /\ Len(q) \in Nat /\ Len(t) = Len(q) - 1
      /\ \A j \in 1..(Len(q) - 1) : t[j] = IF j < i THEN q[j] ELSE q[j + 1]
  BY RemoveAtProps
<1> HIDE DEF t
<1>2. /\ r \in Seq(Entry) /\ Len(r) = Len(q) /\ r[1] = e
      /\ \A j \in 1..(Len(q) - 1) : r[j + 1] = t[j]
  BY <1>1, PushFront
<1> HIDE DEF r
<1>3. ASSUME NEW j \in 2..Len(q)
      PROVE  r[j] = IF j <= i THEN q[j - 1] ELSE q[j]
  <2>1. j - 1 \in 1..(Len(q) - 1) /\ (j - 1) + 1 = j /\ (j - 1 < i <=> j <= i)
    BY <1>1
  <2>2. r[(j - 1) + 1] = t[j - 1] /\ t[j - 1] = IF j - 1 < i THEN q[j - 1] ELSE q[(j - 1) + 1]
    BY <1>1, <1>2, <2>1
  <2> QED
    BY <2>1, <2>2
<1> QED
  BY <1>1, <1>2, <1>3 DEF MoveToFront, r, t

\* MoveToFront puts the element first.
LEMMA MovedFirst ==
  ASSUME NEW q \in Seq(Entry), NEW i \in 1..Len(q), NEW e \in Entry
  PROVE  MoveToFront(q, i, e)[1] = e
PROOF BY MoveToFrontProps

\* Where the entry of a name is.
LEMMA FindProps ==
  ASSUME NEW q, NEW name, Position(q, name) # {}
  PROVE  Find(q, name) \in DOMAIN q /\ q[Find(q, name)].name = name
PROOF BY DEF Find, Position

\* What moving an entry of a name to the front keeps: whoever is in the list,
\* once each, is in it once still.
LEMMA MoveKeeps ==
  ASSUME NEW q \in Seq(Entry), UniqueNames(q), NEW i \in 1..Len(q),
         NEW e \in Entry, e.name = q[i].name \/ Position(q, e.name) = {}
  PROVE  LET r == MoveToFront(q, i, e)
         IN  /\ r \in Seq(Entry) /\ Len(r) = Len(q) /\ UniqueNames(r)
             /\ \A j \in DOMAIN r : r[j] = e \/ r[j] \in {q[k] : k \in DOMAIN q}
             /\ \A j \in DOMAIN q : j # i \/ e.name = q[i].name => Position(r, q[j].name) # {}
<1> DEFINE r == MoveToFront(q, i, e)
<1>1. /\ r \in Seq(Entry) /\ Len(q) \in Nat /\ Len(r) = Len(q) /\ r[1] = e
      /\ \A j \in 2..Len(q) : r[j] = IF j <= i THEN q[j - 1] ELSE q[j]
  <2>1. r \in Seq(Entry) /\ Len(q) \in Nat /\ Len(r) = Len(q) /\ r[1] = e
    BY MoveToFrontProps
  <2>2. ASSUME NEW j \in 2..Len(q)
        PROVE  r[j] = IF j <= i THEN q[j - 1] ELSE q[j]
    BY MoveToFrontProps
  <2> QED
    BY <2>1, <2>2
<1> HIDE DEF r
<1>2. DOMAIN r = 1..Len(q) /\ DOMAIN q = 1..Len(q)
  BY <1>1
<1>3. ASSUME NEW j \in DOMAIN r, j # 1
      PROVE  \E k \in DOMAIN q : k # i /\ r[j] = q[k] /\ k = IF j <= i THEN j - 1 ELSE j
  <2>1. j \in 2..Len(q)
    BY <1>1, <1>2, <1>3
  <2>2. CASE j <= i
    BY <1>1, <1>2, <2>1, <2>2
  <2>3. CASE ~(j <= i)
    BY <1>1, <1>2, <2>1, <2>3
  <2> QED
    BY <2>2, <2>3
<1>4. ASSUME NEW k \in DOMAIN q, k # i
      PROVE  q[k].name # e.name
  BY <1>4, <1>2 DEF UniqueNames, Position
<1>5. UniqueNames(r)
  <2> SUFFICES ASSUME NEW j \in DOMAIN r, NEW l \in DOMAIN r, r[j].name = r[l].name
               PROVE  j = l
    BY DEF UniqueNames
  <2>1. CASE j = 1 /\ l # 1
    BY <1>1, <1>3, <1>4, <2>1
  <2>2. CASE j # 1 /\ l = 1
    BY <1>1, <1>3, <1>4, <2>2
  <2>3. CASE j # 1 /\ l # 1
    <3> PICK a \in DOMAIN q : a # i /\ r[j] = q[a] /\ a = IF j <= i THEN j - 1 ELSE j
      BY <1>3, <2>3
    <3> PICK b \in DOMAIN q : b # i /\ r[l] = q[b] /\ b = IF l <= i THEN l - 1 ELSE l
      BY <1>3, <2>3
    <3>1. a = b
      BY DEF UniqueNames
    <3> QED
      BY <1>2, <3>1
  <2> QED
    BY <2>1, <2>2, <2>3
<1>6. \A j \in DOMAIN r : r[j] = e \/ r[j] \in {q[k] : k \in DOMAIN q}
  BY <1>1, <1>3
<1>7. ASSUME NEW j \in DOMAIN q, j # i \/ e.name = q[i].name
      PROVE  Position(r, q[j].name) # {}
  <2>1. CASE j = i
    <3>1. 1 \in DOMAIN r /\ r[1].name = q[j].name
      BY <1>1, <1>2, <1>7, <2>1
    <3> QED
      BY <3>1 DEF Position
  <2>2. CASE j < i
    <3>1. j + 1 \in 2..Len(q) /\ j + 1 <= i /\ (j + 1) - 1 = j
      BY <1>1, <1>2, <2>2
    <3>2. j + 1 \in DOMAIN r /\ r[j + 1] = q[j]
      BY <1>1, <1>2, <3>1
    <3> QED
      BY <3>2 DEF Position
  <2>3. CASE j > i
    <3>1. j \in 2..Len(q) /\ ~(j <= i)
      BY <1>1, <1>2, <2>3
    <3>2. j \in DOMAIN r /\ r[j] = q[j]
      BY <1>1, <1>2, <3>1
    <3> QED
      BY <3>2 DEF Position
  <2> QED
    BY <1>1, <1>2, <2>1, <2>2, <2>3
<1> QED
  BY <1>1, <1>5, <1>6, <1>7 DEF r
\* The same when an entry is taken out, and when a new name is put in front.
LEMMA RemoveKeeps ==
  ASSUME NEW q \in Seq(Entry), UniqueNames(q), NEW i \in 1..Len(q)
  PROVE  /\ RemoveAt(q, i) \in Seq(Entry) /\ Len(RemoveAt(q, i)) = Len(q) - 1
         /\ UniqueNames(RemoveAt(q, i))
         /\ \A j \in DOMAIN RemoveAt(q, i) : RemoveAt(q, i)[j] \in {q[k] : k \in DOMAIN q}
         /\ \A j \in DOMAIN q : j # i => Position(RemoveAt(q, i), q[j].name) # {}
<1> DEFINE r == RemoveAt(q, i)
<1>1. /\ r \in Seq(Entry) /\ Len(q) \in Nat /\ Len(r) = Len(q) - 1
      /\ \A j \in 1..(Len(q) - 1) : r[j] = IF j < i THEN q[j] ELSE q[j + 1]
  BY RemoveAtProps
<1> HIDE DEF r
<1>2. DOMAIN r = 1..(Len(q) - 1) /\ DOMAIN q = 1..Len(q)
  BY <1>1
<1>3. ASSUME NEW j \in DOMAIN r
      PROVE  \E k \in DOMAIN q : r[j] = q[k] /\ k = IF j < i THEN j ELSE j + 1
  <2>1. CASE j < i
    BY <1>1, <1>2, <2>1
  <2>2. CASE ~(j < i)
    BY <1>1, <1>2, <2>2
  <2> QED
    BY <2>1, <2>2
<1>4. UniqueNames(r)
  <2> SUFFICES ASSUME NEW j \in DOMAIN r, NEW l \in DOMAIN r, r[j].name = r[l].name
               PROVE  j = l
    BY DEF UniqueNames
  <2> PICK a \in DOMAIN q : r[j] = q[a] /\ a = IF j < i THEN j ELSE j + 1
    BY <1>3
  <2> PICK b \in DOMAIN q : r[l] = q[b] /\ b = IF l < i THEN l ELSE l + 1
    BY <1>3
  <2>1. a = b
    BY DEF UniqueNames
  <2> QED
    BY <1>2, <2>1
<1>5. ASSUME NEW j \in DOMAIN q, j # i
      PROVE  Position(r, q[j].name) # {}
  <2>1. CASE j < i
    <3>1. j \in DOMAIN r /\ r[j] = q[j]
      BY <1>1, <1>2, <2>1
    <3> QED
      BY <3>1 DEF Position
  <2>2. CASE j > i
    <3>1. j - 1 \in 1..(Len(q) - 1) /\ ~(j - 1 < i) /\ (j - 1) + 1 = j
      BY <1>1, <1>2, <2>2
    <3>2. j - 1 \in DOMAIN r /\ r[j - 1] = q[j]
      BY <1>1, <1>2, <3>1
    <3> QED
      BY <3>2 DEF Position
  <2> QED
    BY <1>2, <1>5, <2>1, <2>2
<1> QED
  BY <1>1, <1>3, <1>4, <1>5 DEF r

\* Pushing an entry of a new name to the front keeps names unique.
LEMMA PushKeeps ==
  ASSUME NEW q \in Seq(Entry), UniqueNames(q), NEW e \in Entry, Position(q, e.name) = {}
  PROVE  /\ <<e>> \o q \in Seq(Entry) /\ Len(<<e>> \o q) = Len(q) + 1
         /\ UniqueNames(<<e>> \o q)
         /\ \A j \in DOMAIN (<<e>> \o q) :
              (<<e>> \o q)[j] = e \/ (<<e>> \o q)[j] \in {q[k] : k \in DOMAIN q}
         /\ \A j \in DOMAIN q : Position(<<e>> \o q, q[j].name) # {}
<1> DEFINE r == <<e>> \o q
<1>1. /\ r \in Seq(Entry) /\ Len(q) \in Nat /\ Len(r) = Len(q) + 1 /\ r[1] = e
      /\ \A j \in 1..Len(q) : r[j + 1] = q[j]
  BY PushFront
<1> HIDE DEF r
<1>2. DOMAIN r = 1..(Len(q) + 1) /\ DOMAIN q = 1..Len(q)
  BY <1>1
<1>3. ASSUME NEW j \in DOMAIN r, j # 1
      PROVE  j - 1 \in DOMAIN q /\ r[j] = q[j - 1] /\ r[j].name # e.name
  <2>1. j - 1 \in 1..Len(q) /\ (j - 1) + 1 = j
    BY <1>1, <1>2, <1>3
  <2>2. r[(j - 1) + 1] = q[j - 1]
    BY <1>1, <2>1
  <2> QED
    BY <1>2, <2>1, <2>2 DEF Position
<1>4. UniqueNames(r)
  <2> SUFFICES ASSUME NEW j \in DOMAIN r, NEW l \in DOMAIN r, r[j].name = r[l].name
               PROVE  j = l
    BY DEF UniqueNames
  <2>1. CASE j # 1 /\ l # 1
    <3>1. j - 1 = l - 1
      BY <1>3, <2>1 DEF UniqueNames
    <3> QED
      BY <1>2, <3>1
  <2> QED
    BY <1>1, <1>3, <2>1
<1>5. \A j \in DOMAIN q : j + 1 \in DOMAIN r /\ r[j + 1] = q[j]
  BY <1>1, <1>2
<1> QED
  BY <1>1, <1>3, <1>4, <1>5 DEF Position, r

\* What Put does: it keeps the list within its capacity and every name once,
\* shows nothing but the new session and old ones, and of the others drops at
\* most the last one of a full list.
LEMMA PutKeeps ==
  ASSUME capacity \in Capacities, NEW q \in Seq(Entry), UniqueNames(q), Len(q) <= capacity,
         NEW name \in Names, NEW cs \in [key : Key] \cup {None}
  PROVE  /\ Put(q, name, cs) \in Seq(Entry)
         /\ Len(Put(q, name, cs)) <= capacity /\ UniqueNames(Put(q, name, cs))
         /\ \A j \in DOMAIN Put(q, name, cs) :
              \/ Put(q, name, cs)[j] = [name |-> name, state |-> cs]
              \/ Put(q, name, cs)[j] \in {q[k] : k \in DOMAIN q}
         /\ \A j \in DOMAIN q : Position(Put(q, name, cs), q[j].name) = {} =>
              q[j].name = name \/ (Len(q) = capacity /\ j = Len(q))
<1> DEFINE e == [name |-> name, state |-> cs]
           i == Find(q, name)
<1>0. Len(q) \in Nat /\ capacity \in Nat /\ capacity > 0 /\ DOMAIN q = 1..Len(q)
  BY SessionsAssumption
<1>e. e \in Entry /\ e.name = name
  BY DEF Entry
<1>i. Position(q, name) # {} => i \in 1..Len(q) /\ q[i].name = name
  BY <1>0, FindProps
<1> HIDE DEF e, i
<1>1. CASE Position(q, name) # {} /\ cs = None
  <2>1. Put(q, name, cs) = RemoveAt(q, i)
    BY <1>1 DEF Put, i
  <2>2. \A j \in DOMAIN q : q[j].name # name => j # i
    BY <1>1, <1>i
  <2>3. /\ RemoveAt(q, i) \in Seq(Entry) /\ Len(RemoveAt(q, i)) = Len(q) - 1
        /\ UniqueNames(RemoveAt(q, i))
        /\ \A j \in DOMAIN RemoveAt(q, i) : RemoveAt(q, i)[j] \in {q[k] : k \in DOMAIN q}
        /\ \A j \in DOMAIN q : j # i => Position(RemoveAt(q, i), q[j].name) # {}
    BY <1>1, <1>i, RemoveKeeps
  <2>4. Len(RemoveAt(q, i)) <= capacity
    BY <1>0, <2>3
  <2> QED
    BY <2>1, <2>2, <2>3, <2>4
<1>2. CASE Position(q, name) # {} /\ cs # None
  <2>1. Put(q, name, cs) = MoveToFront(q, i, e)
    BY <1>2 DEF Put, i, e
  <2> QED
    BY <1>2, <1>e, <1>i, <2>1, MoveKeeps DEF e
<1>3. CASE Position(q, name) = {} /\ Len(q) < capacity
  <2>1. Put(q, name, cs) = <<e>> \o q
    BY <1>3 DEF Put, e
  <2>2. Len(q) + 1 <= capacity
    BY <1>0, <1>3
  <2> QED
    BY <1>3, <1>e, <2>1, <2>2, PushKeeps DEF e
<1>4. CASE Position(q, name) = {} /\ ~(Len(q) < capacity)
  <2>1. Put(q, name, cs) = MoveToFront(q, Len(q), e)
    BY <1>4 DEF Put, e
  <2>0. \A m, n \in Nat : m <= n /\ ~(m < n) => m = n
    OBVIOUS
  <2>2. Len(q) = capacity
    BY <1>0, <1>4, <2>0
  <2>3. Len(q) \in 1..Len(q)
    BY <1>0, <2>2
  <2>4. LET r == MoveToFront(q, Len(q), e)
        IN  /\ r \in Seq(Entry) /\ Len(r) = Len(q) /\ UniqueNames(r)
            /\ \A j \in DOMAIN r : r[j] = e \/ r[j] \in {q[k] : k \in DOMAIN q}
            /\ \A j \in DOMAIN q :
                 j # Len(q) \/ e.name = q[Len(q)].name => Position(r, q[j].name) # {}
    BY <1>4, <1>e, <2>3, MoveKeeps
  <2> QED
    BY <2>1, <2>2, <2>4 DEF e
<1> QED
  BY <1>1, <1>2, <1>3, <1>4

\* Put drops an entry because nil is put under its name, or because another name
\* that is not there yet takes the place of the last in a full list.
LEMMA PutDrops ==
  ASSUME capacity \in Capacities, NEW q \in Seq(Entry), UniqueNames(q), Len(q) <= capacity,
         NEW name \in Names, NEW cs \in [key : Key] \cup {None},
         NEW j \in DOMAIN q, Position(Put(q, name, cs), q[j].name) = {}
  PROVE  \/ q[j].name = name /\ cs = None
         \/ /\ Len(q) = capacity /\ j = Len(q) /\ Position(q, name) = {}
            /\ Put(q, name, cs)[1] = [name |-> name, state |-> cs]
<1> DEFINE e == [name |-> name, state |-> cs]
           i == Find(q, name)
<1>1. Len(q) \in Nat /\ DOMAIN q = 1..Len(q) /\ e \in Entry /\ e.name = name
  BY DEF Entry
<1>2. Position(q, name) # {} => i \in 1..Len(q) /\ q[i].name = name
  BY <1>1, FindProps
<1> HIDE DEF e, i
<1>3. CASE Position(q, name) # {} /\ cs = None
  <2>1. Put(q, name, cs) = RemoveAt(q, i)
    BY <1>3 DEF Put, i
  <2>2. j # i => Position(RemoveAt(q, i), q[j].name) # {}
    BY <1>2, <1>3, RemoveKeeps
  <2> QED
    BY <1>2, <1>3, <2>1, <2>2
<1>4. CASE Position(q, name) # {} /\ cs # None
  <2>1. Put(q, name, cs) = MoveToFront(q, i, e)
    BY <1>4 DEF Put, i, e
  <2>2. Position(MoveToFront(q, i, e), q[j].name) # {}
    BY <1>1, <1>2, <1>4, MoveKeeps
  <2> QED
    BY <2>1, <2>2
<1>5. CASE Position(q, name) = {} /\ Len(q) < capacity
  <2>1. Put(q, name, cs) = <<e>> \o q
    BY <1>5 DEF Put, e
  <2>2. Position(<<e>> \o q, q[j].name) # {}
    BY <1>1, <1>5, PushKeeps
  <2> QED
    BY <2>1, <2>2
<1>6. CASE Position(q, name) = {} /\ ~(Len(q) < capacity)
  <2>1. Put(q, name, cs) = MoveToFront(q, Len(q), e)
    BY <1>6 DEF Put, e
  <2>2. q[j].name # name
    BY <1>6 DEF Position
  <2>3. Len(q) = capacity /\ j = Len(q)
    BY <2>2, PutKeeps
  <2>4. Len(q) \in 1..Len(q)
    BY <1>1, <2>3
  <2>5. MoveToFront(q, Len(q), e)[1] = e
    BY <1>1, <2>4, MovedFirst
  <2> QED
    BY <1>6, <2>1, <2>3, <2>5 DEF e
<1> QED
  BY <1>3, <1>4, <1>5, <1>6

\* What Get does to the list: nobody leaves it.
LEMMA GetKeeps ==
  ASSUME NEW q \in Seq(Entry), UniqueNames(q), NEW name
  PROVE  /\ AfterGet(q, name) \in Seq(Entry) /\ Len(AfterGet(q, name)) = Len(q)
         /\ UniqueNames(AfterGet(q, name))
         /\ \A j \in DOMAIN AfterGet(q, name) : AfterGet(q, name)[j] \in {q[k] : k \in DOMAIN q}
         /\ \A j \in DOMAIN q : Position(AfterGet(q, name), q[j].name) # {}
<1>1. CASE Position(q, name) = {}
  BY <1>1 DEF AfterGet, Position
<1>2. CASE Position(q, name) # {}
  <2> DEFINE i == Find(q, name)
  <2>1. i \in 1..Len(q) /\ q[i] \in Entry /\ q[i] \in {q[k] : k \in DOMAIN q}
    BY <1>2, FindProps
  <2>2. AfterGet(q, name) = MoveToFront(q, i, q[i])
    BY <1>2 DEF AfterGet
  <2> HIDE DEF i
  <2> QED
    BY <2>1, <2>2, MoveKeeps
<1> QED
  BY <1>1, <1>2
---------------------------------------------------------------------------
(* The steps keep the invariant, one part of it at a time *)

\* The first state satisfies the invariant.
LEMMA InitInv == Init => IInv
<1> SUFFICES ASSUME Init
             PROVE  IInv
  OBVIOUS
<1>1. TypeInv /\ ConnInv
  BY SessionsAssumption DEF Init, At, TypeInv, ConnInv, Record, Places, Equipped
<1>2. KeysInv
  BY DEF Init, At, KeysInv, RotationSafe, autoSessionTicketKeys
<1>3. LruInv
  BY SessionsAssumption DEF Init, LruInv, UniqueNames
<1>4. CertInv
  <2>1. \A e \in Conns : Holders(e) = {}
    BY DEF Init, At, Holders
  <2> QED
    BY <2>1, FS_EmptySet DEF Init, CertInv
<1> QED
  BY <1>1, <1>2, <1>3, <1>4 DEF IInv

\* What is common to the steps of a connection: the others do not move, and the
\* capacity stays.
LEMMA OthersStay ==
  ASSUME TypeInv, NEW p \in Conns, Step(p)
  PROVE  /\ \A q \in Conns : q # p => conn'[q] = conn[q]
         /\ DOMAIN conn' = Conns /\ capacity' = capacity
PROOF BY DEF TypeInv, Step, StartConn, ticketKeys, initLegacySessionTicketKey, RotateKeys, Load,
             LoadOrStore, active, Finish, Cleanup, evict, Goes

\* A connection's new record keeps what is said of connections when it has what its place needs.
LEMMA MoveConn ==
  ASSUME TypeInv, ConnInv, NEW p \in Conns, NEW r \in Record, Equipped(r),
         conn' = [conn EXCEPT ![p] = r]
  PROVE  conn' \in [Conns -> Record] /\ ConnInv'
<1>1. \A q \in Conns : conn'[q] = IF q = p THEN r ELSE conn[q]
  BY DEF TypeInv
<1> QED
  BY <1>1 DEF TypeInv, ConnInv

\* A connection's step keeps the types.
LEMMA StepType ==
  ASSUME IInv, NEW p \in Conns, Step(p)
  PROVE  TypeInv' /\ ConnInv'
<1> USE DEF IInv
<1>p. /\ conn[p] \in Record /\ Equipped(conn[p])
      /\ conn[p].key \in Key \cup {None} /\ conn[p].entry \in Conns \cup {None}
      /\ conn[p].name \in Names \cup {None} /\ conn[p].pc \in Places
      /\ conn[p].offers \in BOOLEAN
      /\ certs \in Conns \cup {None} /\ config.set \in Key \cup {None}
      /\ config.first \in Key \cup {None}
  BY DEF TypeInv, ConnInv, Record
<1>1. CASE \E name \in Names : StartConn(p, name)
  <2> PICK name \in Names : StartConn(p, name)
    BY <1>1
  <2> DEFINE r == [conn[p] EXCEPT !.pc = "rlock", !.name = name,
                                  !.offers = Get(lru, name) # None]
  <2>1. lru' \in Seq(Entry)
    BY GetKeeps DEF StartConn, TypeInv, LruInv
  <2>2. r \in Record /\ Equipped(r)
    BY <1>p DEF Record, Places, Equipped
  <2>3. conn' = [conn EXCEPT ![p] = r]
    BY DEF StartConn, TypeInv
  <2> QED
    BY <2>1, <2>2, <2>3, MoveConn DEF StartConn, TypeInv
<1>2. CASE ticketKeys(p)
  <2>1. PICK pc \in {"lockLegacy", "rotate", "load"}, k \in Key \cup {None} :
            /\ conn' = [conn EXCEPT ![p] = [conn[p] EXCEPT !.pc = pc, !.key = k]]
            /\ pc = "load" => k \in Key
    <3>k. \A pc : [conn[p] EXCEPT !.pc = pc, !.key = conn[p].key] = [conn[p] EXCEPT !.pc = pc]
      BY <1>p DEF Record
    <3>1. CASE conn[p].pc = "rlock" /\ NeedsLegacy
      <4>1. conn' = [conn EXCEPT ![p] = [conn[p] EXCEPT !.pc = "lockLegacy"]]
        BY <1>2, <1>p, <3>1 DEF ticketKeys, TypeInv
      <4> QED
        BY <1>p, <3>k, <4>1
    <3>2. CASE ~(conn[p].pc = "rlock" /\ NeedsLegacy) /\ config.set # None
      <4>1. conn' = [conn EXCEPT ![p] = [conn[p] EXCEPT !.key = config.set, !.pc = "load"]]
        BY <1>2, <1>p, <3>2 DEF ticketKeys, TypeInv
      <4>2. [conn[p] EXCEPT !.key = config.set, !.pc = "load"]
              = [conn[p] EXCEPT !.pc = "load", !.key = config.set]
        BY <1>p DEF Record
      <4> QED
        BY <1>p, <3>2, <4>1, <4>2
    <3>3. CASE ~(conn[p].pc = "rlock" /\ NeedsLegacy) /\ config.set = None /\ Fresh
      <4>1. conn' = [conn EXCEPT ![p] = [conn[p] EXCEPT !.key = config.first, !.pc = "load"]]
        BY <1>2, <1>p, <3>3 DEF ticketKeys, TypeInv
      <4>2. [conn[p] EXCEPT !.key = config.first, !.pc = "load"]
              = [conn[p] EXCEPT !.pc = "load", !.key = config.first]
        BY <1>p DEF Record
      <4>3. config.first \in Key
        BY <1>p, <3>3 DEF Fresh
      <4> QED
        BY <4>1, <4>2, <4>3
    <3>4. CASE ~(conn[p].pc = "rlock" /\ NeedsLegacy) /\ config.set = None /\ ~Fresh
      <4>1. conn' = [conn EXCEPT ![p] = [conn[p] EXCEPT !.pc = "rotate"]]
        BY <1>2, <1>p, <3>4 DEF ticketKeys, TypeInv
      <4> QED
        BY <1>p, <3>k, <4>1
    <3> QED
      BY <3>1, <3>2, <3>3, <3>4
  <2> DEFINE r == [conn[p] EXCEPT !.pc = pc, !.key = k]
  <2>2. r \in Record /\ Equipped(r)
    <3>1. conn[p].name \in Names
      BY <1>2, <1>p DEF ticketKeys, Equipped
    <3> QED
      BY <1>p, <2>1, <3>1 DEF Record, Places, Equipped
  <2> QED
    BY <1>2, <2>1, <2>2, MoveConn DEF ticketKeys, TypeInv
<1>3. CASE initLegacySessionTicketKey(p)
  <2> DEFINE r == [conn[p] EXCEPT !.pc = "relock"]
  <2>1. r \in Record /\ Equipped(r)
    BY <1>3, <1>p DEF initLegacySessionTicketKey, Record, Places, Equipped
  <2>2. conn' = [conn EXCEPT ![p] = r]
    BY <1>3 DEF initLegacySessionTicketKey, Goes, TypeInv
  <2>3. TypeInv!2'
    BY <1>3 DEF initLegacySessionTicketKey, ticketKeyFromBytes, TypeInv, Key
  <2> QED
    BY <1>3, <2>1, <2>2, <2>3, MoveConn DEF initLegacySessionTicketKey, TypeInv
<1>4. CASE RotateKeys(p)
  <2>1. config' \in [legacy : {"zero", "user", "deprecated"}, set : Key \cup {None},
                     first : Key \cup {None}, rest : SUBSET Key] /\ config'.first \in Key
    BY <1>4 DEF RotateKeys, ticketKeyFromBytes, Fresh, Unexpired, autoSessionTicketKeys,
                TypeInv, Key
  <2> DEFINE r == [conn[p] EXCEPT !.key = config'.first, !.pc = "load"]
  <2>2. r \in Record /\ Equipped(r)
    BY <1>4, <1>p, <2>1 DEF RotateKeys, Record, Places, Equipped
  <2>3. conn' = [conn EXCEPT ![p] = r]
    BY <1>4 DEF RotateKeys, TypeInv
  <2> QED
    BY <1>4, <2>1, <2>2, <2>3, MoveConn DEF RotateKeys, TypeInv
<1>5. CASE Load(p)
  <2> DEFINE r == IF certs # None THEN [conn[p] EXCEPT !.entry = certs, !.pc = "active"]
                  ELSE [conn[p] EXCEPT !.pc = "store"]
  <2>1. r \in Record /\ Equipped(r)
    BY <1>5, <1>p DEF Load, Record, Places, Equipped
  <2>2. conn' = [conn EXCEPT ![p] = r]
    BY <1>5 DEF Load, TypeInv
  <2> QED
    BY <1>5, <2>1, <2>2, MoveConn DEF Load, TypeInv
<1>6. CASE LoadOrStore(p)
  <2> DEFINE e == IF certs # None THEN certs ELSE p
             r == [conn[p] EXCEPT !.entry = e, !.pc = "active"]
  <2>1. e \in Conns
    BY <1>p
  <2>2. conn' = [conn EXCEPT ![p] = r] /\ certs' = e
    BY <1>6 DEF LoadOrStore, TypeInv
  <2> HIDE DEF e
  <2>3. r \in Record /\ Equipped(r)
    BY <1>6, <1>p, <2>1 DEF LoadOrStore, Record, Places, Equipped
  <2> QED
    BY <1>6, <2>1, <2>2, <2>3, MoveConn DEF LoadOrStore, TypeInv
<1>7. CASE active(p)
  <2> DEFINE r == [conn[p] EXCEPT !.pc = "handshake"]
  <2>1. r \in Record /\ Equipped(r)
    BY <1>7, <1>p DEF active, Record, Places, Equipped
  <2>2. conn' = [conn EXCEPT ![p] = r]
    BY <1>7 DEF active, Goes, TypeInv
  <2>3. refs' \in [Conns -> Int]
    <3>1. refs \in [Conns -> Int] /\ conn[p].entry \in Conns
      BY <1>7, <1>p DEF active, TypeInv, Equipped
    <3>2. refs' = [refs EXCEPT ![conn[p].entry] = refs[conn[p].entry] + 1]
      BY <1>7 DEF active
    <3> QED
      BY <3>1, <3>2
  <2> QED
    BY <1>7, <2>1, <2>2, <2>3, MoveConn DEF active, TypeInv
<1>8. CASE Finish(p)
  <2> DEFINE r == [At("hold") EXCEPT !.entry = conn[p].entry]
  <2>1. conn[p].name \in Names /\ [key |-> conn[p].key] \in [key : Key]
    BY <1>8, <1>p DEF Finish, Equipped
  <2>2. lru' \in Seq(Entry)
    BY <1>8, <2>1, PutKeeps DEF Finish, TypeInv, LruInv
  <2>3. r \in Record /\ Equipped(r)
    BY <1>8, <1>p DEF Finish, At, Record, Places, Equipped
  <2>4. conn' = [conn EXCEPT ![p] = r]
    BY <1>8 DEF Finish
  <2> QED
    BY <1>8, <2>2, <2>3, <2>4, MoveConn DEF Finish, TypeInv
<1>9. CASE Cleanup(p)
  <2> PICK pc \in {"evict", "done"} : conn' = [conn EXCEPT ![p] = At(pc)]
    BY <1>9 DEF Cleanup, TypeInv
  <2>1. At(pc) \in Record /\ Equipped(At(pc))
    BY DEF At, Record, Places, Equipped
  <2>3. refs' \in [Conns -> Int]
    <3>1. refs \in [Conns -> Int] /\ conn[p].entry \in Conns
      BY <1>9, <1>p DEF Cleanup, TypeInv, Equipped
    <3>2. refs' = [refs EXCEPT ![conn[p].entry] = refs[conn[p].entry] - 1]
      BY <1>9 DEF Cleanup
    <3> QED
      BY <3>1, <3>2
  <2> QED
    BY <1>9, <2>1, <2>3, MoveConn DEF Cleanup, TypeInv
<1>10. CASE evict(p)
  <2> DEFINE r == [conn[p] EXCEPT !.pc = "done"]
  <2>1. r \in Record /\ Equipped(r)
    BY <1>p DEF Record, Places, Equipped
  <2>2. conn' = [conn EXCEPT ![p] = r]
    BY <1>10 DEF evict, Goes, TypeInv
  <2> QED
    BY <1>10, <2>1, <2>2, MoveConn DEF evict, TypeInv
<1> QED
  BY <1>1, <1>2, <1>3, <1>4, <1>5, <1>6, <1>7, <1>8, <1>9, <1>10 DEF Step

\* A connection's step keeps the session cache in order.
LEMMA StepLru ==
  ASSUME IInv, NEW p \in Conns, Step(p)
  PROVE  LruInv'
<1> USE DEF IInv
<1>0. capacity' = capacity
  BY OthersStay
<1>1. CASE \E name \in Names : StartConn(p, name)
  BY <1>0, <1>1, GetKeeps DEF StartConn, TypeInv, LruInv
<1>2. CASE Finish(p)
  <2>1. conn[p].name \in Names /\ [key |-> conn[p].key] \in [key : Key]
    BY <1>2 DEF Finish, ConnInv, Equipped
  <2> QED
    BY <1>0, <1>2, <2>1, PutKeeps DEF Finish, TypeInv, LruInv
<1>3. CASE UNCHANGED lru
  BY <1>0, <1>3 DEF LruInv, UniqueNames
<1> QED
  BY <1>1, <1>2, <1>3
  DEF Step, ticketKeys, initLegacySessionTicketKey, RotateKeys, Load, LoadOrStore, active,
      Cleanup, evict
\* The keys are safe in the next state when the automatic ones are the same
\* and no session appears that could not be resumed.
LEMMA SameKeys ==
  ASSUME TypeInv, KeysInv, now' = now, config'.first = config.first, config'.rest = config.rest,
         config'.set # None => ~config'.set.auto,
         \A p \in Conns : conn'[p].key # None => Resumable(conn'[p].key),
         \A i \in DOMAIN lru' : lru'[i].state # None => Resumable(lru'[i].state.key)
  PROVE  KeysInv'
<1>1. autoSessionTicketKeys' = autoSessionTicketKeys
  BY DEF autoSessionTicketKeys
<1>2. \A k : Resumable(k)' <=> Resumable(k)
  BY <1>1 DEF Resumable
<1>3. RotationSafe'
  BY <1>1 DEF KeysInv, RotationSafe, Resumable
<1> QED
  BY <1>1, <1>3 DEF KeysInv, Resumable

\* A connection's step keeps the ticket keys usable.
LEMMA StepKeys ==
  ASSUME IInv, NEW p \in Conns, Step(p)
  PROVE  KeysInv'
<1> USE DEF IInv
<1>0. /\ \A q \in Conns : q # p => conn'[q] = conn[q]
      /\ \A q \in Conns : conn[q].key # None => Resumable(conn[q].key)
      /\ \A i \in DOMAIN lru : lru[i].state # None => Resumable(lru[i].state.key)
  BY OthersStay DEF KeysInv, RotationSafe, Resumable
<1>1. CASE \E name \in Names : StartConn(p, name)
  <2> PICK name \in Names : StartConn(p, name)
    BY <1>1
  <2>1. \A i \in DOMAIN lru' : lru'[i] \in {lru[k] : k \in DOMAIN lru}
    BY GetKeeps DEF StartConn, TypeInv, LruInv
  <2>2. conn'[p].key = conn[p].key
    BY DEF StartConn, TypeInv, Record
  <2> QED
    BY <1>0, <2>1, <2>2, SameKeys DEF StartConn, KeysInv
<1>2. CASE ticketKeys(p)
  <2>1. conn'[p].key \in {conn[p].key, config.set, config.first}
    <3>1. conn[p] \in Record
      BY DEF TypeInv
    <3>2. \/ \E pc \in {"lockLegacy", "rotate"} : conn'[p] = [conn[p] EXCEPT !.pc = pc]
          \/ \E k \in {config.set, config.first} :
               conn'[p] = [conn[p] EXCEPT !.key = k, !.pc = "load"]
      BY <1>2 DEF ticketKeys, TypeInv
    <3> QED
      BY <3>1, <3>2 DEF Record
  <2>2. config.set # None => Resumable(config.set)
    BY DEF KeysInv, Resumable
  <2>3. config.first # None => Resumable(config.first)
    BY DEF Resumable, autoSessionTicketKeys
  <2> QED
    BY <1>0, <1>2, <2>1, <2>2, <2>3, SameKeys DEF ticketKeys, KeysInv
<1>3. CASE initLegacySessionTicketKey(p)
  <2>1. conn'[p].key = conn[p].key
    BY <1>3 DEF initLegacySessionTicketKey, Goes, TypeInv, Record
  <2>2. /\ config'.first = config.first /\ config'.rest = config.rest
        /\ config'.set # None => ~config'.set.auto
    BY <1>3 DEF initLegacySessionTicketKey, ticketKeyFromBytes, TypeInv, KeysInv
  <2> QED
    BY <1>0, <1>3, <2>1, <2>2, SameKeys DEF initLegacySessionTicketKey
<1>4. CASE RotateKeys(p)
  <2>1. CASE Fresh
    <3>1. conn'[p].key = config.first /\ config' = config /\ lru' = lru /\ now' = now
      BY <1>4, <2>1 DEF RotateKeys, TypeInv, Record
    <3>2. Resumable(config.first)
      BY <2>1 DEF Resumable, autoSessionTicketKeys, Fresh
    <3> QED
      BY <1>0, <3>1, <3>2, SameKeys DEF KeysInv
  <2>2. CASE ~Fresh
    <3> PICK new : new = [auto |-> TRUE, created |-> now]
      OBVIOUS
    <3>1. /\ config'.first = new /\ config'.rest = Unexpired /\ config'.set = config.set
          /\ conn'[p].key = new /\ lru' = lru /\ now' = now
      <4>1. config' = [config EXCEPT !.first = new, !.rest = Unexpired]
        BY <1>4, <2>2 DEF RotateKeys, ticketKeyFromBytes
      <4>2. conn[p] \in Record /\ conn'[p] = [conn[p] EXCEPT !.key = config'.first, !.pc = "load"]
        BY <1>4 DEF RotateKeys, TypeInv
      <4>3. config'.first = new /\ config'.rest = Unexpired /\ config'.set = config.set
        BY <4>1 DEF TypeInv
      <4>4. conn'[p].key = new
        BY <4>2, <4>3 DEF Record
      <4> QED
        BY <1>4, <4>3, <4>4 DEF RotateKeys
    <3>2. new \in Key /\ new.created = now /\ now \in Nat /\ new # None
      <4>1. now \in 0..MaxTime /\ now \in Nat
        BY SessionsAssumption DEF TypeInv
      <4>2. new \in Key /\ new.created = now
        BY <4>1 DEF Key
      <4> QED
        BY <4>1, <4>2, KeyIsSome
    <3>3. Unexpired = {k \in autoSessionTicketKeys : now - k.created < KeyLifetime}
      BY DEF Unexpired
    <3>4. autoSessionTicketKeys' = Unexpired \cup {new}
      BY <3>1, <3>2 DEF autoSessionTicketKeys
    <3>5. \A k : Resumable(k) => (Resumable(k))'
      BY <3>1, <3>3, <3>4 DEF Resumable
    <3>6. Resumable(new)'
      BY <3>4 DEF Resumable
    <3>7. ASSUME NEW k \in Unexpired
          PROVE  /\ k \in Key /\ k.created \in Nat /\ k.created <= now
                 /\ now >= k.created + Rotation
                 /\ k \in config.rest \/ k = config.first
      <4>1. k \in autoSessionTicketKeys /\ (k \in config.rest \/ (k = config.first /\ k # None))
        BY <3>3 DEF autoSessionTicketKeys
      <4>2. /\ config.first # None /\ config.first \in Key /\ config.first.created \in Nat
            /\ config.first.created <= now /\ now - config.first.created >= Rotation
        BY <2>2, <3>2, <4>1, SessionsAssumption
        DEF TypeInv, KeysInv, Fresh, Key, autoSessionTicketKeys
      <4>3. k \in Key /\ k.created \in Nat
        BY <4>1, <4>2 DEF TypeInv, Key
      <4>4. k = config.first \/ config.first.created >= k.created + Rotation
        BY <4>1 DEF KeysInv, RotationSafe
      <4> QED
        BY <3>2, <4>1, <4>2, <4>3, <4>4, SessionsAssumption DEF KeysInv
    <3>8. RotationSafe'
      <4>1. \A k, l \in Unexpired : k # l => \/ k.created >= l.created + Rotation
                                             \/ l.created >= k.created + Rotation
        BY <3>7 DEF KeysInv, RotationSafe
      <4>2. \A k \in Unexpired : new.created >= k.created + Rotation
        BY <3>2, <3>7
      <4>3. \A i \in DOMAIN lru : lru[i].state # None => (Resumable(lru[i].state.key))'
        BY <1>0, <3>1, <3>5 DEF Resumable
      <4> QED
        BY <3>1, <4>1, <4>2, <4>3 DEF RotationSafe, Resumable
    <3>9. \A k \in autoSessionTicketKeys' : k.created <= now'
      BY <3>1, <3>2, <3>4, <3>7
    <3>10. \A q \in Conns : conn'[q].key # None => (Resumable(conn[q].key))'
      BY <1>0, <3>1, <3>5, <3>6
    <3> QED
      BY <3>1, <3>2, <3>8, <3>9, <3>10 DEF KeysInv
  <2> QED
    BY <2>1, <2>2
<1>5. CASE Finish(p)
  <2>1. conn[p].name \in Names /\ [key |-> conn[p].key] \in [key : Key]
    BY <1>5 DEF Finish, ConnInv, Equipped
  <2>2. Resumable(conn[p].key)
    BY <1>0, <2>1, KeyIsSome
  <2>3. \A i \in DOMAIN lru' :
          \/ lru'[i].state \in {None, [key |-> conn[p].key]}
          \/ lru'[i] \in {lru[k] : k \in DOMAIN lru}
    <3>1. ASSUME NEW cs \in [key : Key] \cup {None}, lru' = Put(lru, conn[p].name, cs)
          PROVE  \A i \in DOMAIN lru' : \/ lru'[i].state = cs
                                        \/ lru'[i] \in {lru[k] : k \in DOMAIN lru}
      BY <2>1, <3>1, PutKeeps DEF TypeInv, LruInv
    <3> QED
      BY <1>5, <2>1, <3>1 DEF Finish
  <2>4. conn'[p].key = None
    BY <1>5 DEF Finish, At, TypeInv
  <2> QED
    BY <1>0, <1>5, <2>2, <2>3, <2>4, SameKeys DEF Finish, KeysInv
<1>6. CASE UNCHANGED <<now, config, lru>> /\ conn'[p].key \in {conn[p].key, None}
  BY <1>0, <1>6, SameKeys DEF KeysInv
<1>7. CASE Load(p)
  BY <1>6, <1>7 DEF Load, TypeInv, Record
<1>8. CASE LoadOrStore(p)
  BY <1>6, <1>8 DEF LoadOrStore, TypeInv, Record
<1>9. CASE active(p)
  BY <1>6, <1>9 DEF active, Goes, TypeInv, Record
<1>10. CASE Cleanup(p)
  BY <1>6, <1>10 DEF Cleanup, At, TypeInv
<1>11. CASE evict(p)
  BY <1>6, <1>11 DEF evict, Goes, TypeInv, Record
<1> QED
  BY <1>1, <1>2, <1>3, <1>4, <1>5, <1>7, <1>8, <1>9, <1>10, <1>11 DEF Step
\* The count is right in the next state when the handles are.
LEMMA StepCert ==
  ASSUME IInv, NEW p \in Conns, Step(p)
  PROVE  CertInv'
<1> USE DEF IInv
<1>0. \A q \in Conns : q # p => conn'[q] = conn[q]
  BY OthersStay
<1>s. ASSUME (conn'[p].pc \in {"handshake", "hold"}) <=> (conn[p].pc \in {"handshake", "hold"}),
             conn[p].pc \in {"handshake", "hold"} => conn'[p].entry = conn[p].entry,
             refs' = refs
      PROVE  \A e \in Conns : IsFiniteSet(Holders(e))' /\ refs'[e] = Cardinality(Holders(e))'
  <2>1. \A e \in Conns : (Holders(e))' = Holders(e)
    BY <1>0, <1>s DEF Holders
  <2> QED
    BY <1>s, <2>1 DEF CertInv
<1>1. CASE /\ certs' = certs /\ refs' = refs
           /\ conn[p].pc \notin {"active", "handshake", "hold", "evict"}
           /\ conn'[p].pc \notin {"handshake", "hold"}
  BY <1>0, <1>1, <1>s DEF CertInv
<1>2. CASE \E name \in Names : StartConn(p, name)
  BY <1>1, <1>2 DEF StartConn, TypeInv, Record
<1>3. CASE ticketKeys(p)
  <2>1. conn'[p].pc \in {"lockLegacy", "load", "rotate"}
    BY <1>3 DEF ticketKeys, TypeInv, Record
  <2> QED
    BY <1>1, <1>3, <2>1 DEF ticketKeys
<1>4. CASE initLegacySessionTicketKey(p)
  BY <1>1, <1>4 DEF initLegacySessionTicketKey, Goes, TypeInv, Record
<1>5. CASE RotateKeys(p)
  BY <1>1, <1>5 DEF RotateKeys, TypeInv, Record
<1>6. CASE Load(p)
  BY <1>1, <1>6 DEF Load, TypeInv, Record
<1>7. CASE LoadOrStore(p)
  <2>1. conn'[p].pc = "active" /\ conn'[p].entry = certs' /\ conn[p].pc = "store" /\ refs' = refs
    BY <1>7 DEF LoadOrStore, TypeInv, Record
  <2> QED
    BY <1>s, <2>1 DEF CertInv
<1>8. CASE active(p)
  <2>0. PICK e \in Conns : e = conn[p].entry
    BY <1>8 DEF active, ConnInv, Equipped
  <2>1. /\ conn[p].pc = "active" /\ conn'[p].pc = "handshake" /\ conn'[p].entry = e
        /\ certs' = certs /\ refs' = [refs EXCEPT ![e] = refs[e] + 1]
    BY <1>8, <2>0 DEF active, Goes, TypeInv, Record
  <2>2. (Holders(e))' = Holders(e) \cup {p} /\ p \notin Holders(e)
    BY <1>0, <2>1 DEF Holders
  <2>3. \A f \in Conns : f # e => (Holders(f))' = Holders(f)
    BY <1>0, <2>1 DEF Holders
  <2>4. IsFiniteSet(Holders(e) \cup {p})
        /\ Cardinality(Holders(e) \cup {p}) = Cardinality(Holders(e)) + 1
    BY <2>2, FS_AddElement DEF CertInv
  <2>5. \A f \in Conns : IsFiniteSet(Holders(f))' /\ refs'[f] = Cardinality(Holders(f))'
    BY <2>1, <2>2, <2>3, <2>4 DEF CertInv, TypeInv
  <2>6. CASE certs # None
    <3> PICK q \in Conns :
          \/ conn[q].pc \in {"active", "handshake", "hold"} /\ conn[q].entry = certs
          \/ conn[q].pc = "evict"
      BY <2>6 DEF CertInv
    <3> QED
      BY <1>0, <2>0, <2>1, <2>5 DEF CertInv
  <2> QED
    BY <2>1, <2>5, <2>6 DEF CertInv
<1>9. CASE Finish(p)
  <2>1. /\ conn[p].pc = "handshake" /\ conn'[p].pc = "hold" /\ conn'[p].entry = conn[p].entry
        /\ certs' = certs /\ refs' = refs
    BY <1>9 DEF Finish, At, TypeInv
  <2> QED
    BY <1>0, <1>s, <2>1 DEF CertInv
<1>10. CASE Cleanup(p)
  <2>0. PICK e \in Conns : e = conn[p].entry
    BY <1>10 DEF Cleanup, ConnInv, Equipped
  <2>1. /\ conn[p].pc = "hold" /\ certs' = certs /\ refs' = [refs EXCEPT ![e] = refs[e] - 1]
        /\ conn'[p].pc = IF refs'[e] = 0 THEN "evict" ELSE "done"
    BY <1>10, <2>0 DEF Cleanup, At, TypeInv
  <2>2. (Holders(e))' = Holders(e) \ {p} /\ p \in Holders(e)
    BY <1>0, <2>0, <2>1 DEF Holders
  <2>3. \A f \in Conns : f # e => (Holders(f))' = Holders(f)
    BY <1>0, <2>0, <2>1 DEF Holders
  <2>4. IsFiniteSet(Holders(e) \ {p})
        /\ Cardinality(Holders(e) \ {p}) = Cardinality(Holders(e)) - 1
    BY <2>2, FS_RemoveElement DEF CertInv
  <2>5. \A f \in Conns : IsFiniteSet(Holders(f))' /\ refs'[f] = Cardinality(Holders(f))'
    BY <2>1, <2>2, <2>3, <2>4 DEF CertInv, TypeInv
  <2>6. CASE refs'[e] = 0
    BY <2>1, <2>5, <2>6 DEF CertInv
  <2>7. CASE refs'[e] # 0 /\ certs = e
    <3>1. Holders(e) \ {p} # {}
      BY <2>2, <2>5, <2>7, FS_EmptySet
    <3> PICK q \in Conns : q # p /\ conn[q].pc \in {"handshake", "hold"} /\ conn[q].entry = e
      BY <3>1 DEF Holders
    <3> QED
      BY <1>0, <2>1, <2>5, <2>7 DEF CertInv
  <2>8. CASE certs # e /\ certs # None
    <3> PICK q \in Conns :
          \/ conn[q].pc \in {"active", "handshake", "hold"} /\ conn[q].entry = certs
          \/ conn[q].pc = "evict"
      BY <2>8 DEF CertInv
    <3>1. q # p
      BY <2>0, <2>1, <2>8
    <3> QED
      BY <1>0, <2>1, <2>5, <3>1 DEF CertInv
  <2>9. CASE certs = None
    BY <2>1, <2>5, <2>9 DEF CertInv
  <2> QED
    BY <2>6, <2>7, <2>8, <2>9
<1>11. CASE evict(p)
  <2>1. conn[p].pc = "evict" /\ conn'[p].pc = "done" /\ certs' = None /\ refs' = refs
    BY <1>11 DEF evict, Goes, TypeInv, Record
  <2> QED
    BY <1>s, <2>1 DEF CertInv
<1> QED
  BY <1>2, <1>3, <1>4, <1>5, <1>6, <1>7, <1>8, <1>9, <1>10, <1>11 DEF Step

\* Time passes.
LEMMA TickInv ==
  ASSUME IInv, Tick
  PROVE  IInv'
<1> USE DEF IInv
<1>1. /\ now \in Nat /\ now' = now + 1 /\ now' \in 0..MaxTime
      /\ UNCHANGED <<config, sets, capacity, lru, certs, refs, conn>>
  BY SessionsAssumption DEF Tick, TypeInv
<1>2. TypeInv' /\ ConnInv'
  BY <1>1 DEF TypeInv, ConnInv
<1>3. LruInv' /\ CertInv'
  BY <1>1 DEF LruInv, UniqueNames, CertInv, Holders
<1>4. autoSessionTicketKeys' = autoSessionTicketKeys
  BY <1>1 DEF autoSessionTicketKeys
<1>5. \A k \in Key : Resumable(k) => (Resumable(k))'
  BY <1>1, <1>4, SessionsAssumption DEF Resumable, Key
<1>6. KeysInv'
  <2>1. \A k \in autoSessionTicketKeys : k.created <= now'
    BY <1>1, KeyIsSome DEF KeysInv, autoSessionTicketKeys, TypeInv, Key
  <2>2. \A p \in Conns : conn[p].key # None => conn[p].key \in Key
    BY DEF TypeInv, Record
  <2>3. \A i \in DOMAIN lru : lru[i].state # None => lru[i].state.key \in Key
    <3>1. \A i \in DOMAIN lru : lru[i] \in Entry
      BY DEF TypeInv
    <3> QED
      BY <3>1 DEF Entry
  <2>4. \A i \in DOMAIN lru : lru[i].state # None => (Resumable(lru[i].state.key))'
    BY <1>1, <1>5, <2>3 DEF KeysInv, RotationSafe, Resumable
  <2>5. RotationSafe'
    BY <1>1, <1>4, <2>4 DEF KeysInv, RotationSafe, Resumable
  <2>6. \A p \in Conns : conn[p].key # None => (Resumable(conn[p].key))'
    BY <1>1, <1>5, <2>2 DEF KeysInv
  <2> QED
    BY <1>1, <1>4, <2>1, <2>5, <2>6 DEF KeysInv
<1> QED
  BY <1>2, <1>3, <1>6

\* The application sets the ticket keys.
LEMMA SetSessionTicketKeysInv ==
  ASSUME IInv, SetSessionTicketKeys
  PROVE  IInv'
<1> USE DEF IInv
<1>1. config' = [config EXCEPT !.set = [auto |-> FALSE, created |-> now]]
  BY DEF SetSessionTicketKeys, ticketKeyFromBytes
<1>2. UNCHANGED <<now, capacity, lru, certs, refs, conn>>
  BY DEF SetSessionTicketKeys
<1>3. TypeInv' /\ ConnInv'
  BY <1>1, <1>2 DEF TypeInv, ConnInv, Key
<1>4. LruInv' /\ CertInv'
  BY <1>2 DEF LruInv, UniqueNames, CertInv, Holders
<1>5. KeysInv'
  <2>1. /\ config'.first = config.first /\ config'.rest = config.rest
        /\ config'.set # None => ~config'.set.auto
    BY <1>1 DEF TypeInv
  <2> QED
    BY <1>2, <2>1, SameKeys DEF KeysInv, RotationSafe, Resumable
<1> QED
  BY <1>3, <1>4, <1>5

\* The inductive invariant holds in every reachable state.
THEOREM SessionsInvariant == Spec => []IInv
<1>1. IInv /\ [Next]_vars => IInv'
  <2> SUFFICES ASSUME IInv, [Next]_vars
               PROVE  IInv'
    OBVIOUS
  <2>1. CASE UNCHANGED vars
    <3>1. UNCHANGED <<now, config, sets, capacity, lru, certs, refs, conn>>
      BY <2>1 DEF vars
    <3>2. (autoSessionTicketKeys' = autoSessionTicketKeys) /\ \A e \in Conns : (Holders(e))' = Holders(e)
      BY <3>1 DEF autoSessionTicketKeys, Holders
    <3> QED
      BY <3>1, <3>2 DEF IInv, TypeInv, ConnInv, KeysInv, RotationSafe, Resumable, LruInv,
                        UniqueNames, CertInv
  <2>2. CASE \E p \in Conns : Step(p)
    BY <2>2, StepType, StepLru, StepKeys, StepCert DEF IInv
  <2> QED
    BY <2>1, <2>2, TickInv, SetSessionTicketKeysInv DEF Next
<1> QED
  BY <1>1, InitInv, PTL DEF Spec

\* Whatever connections interleave between the read lock and the lock, the
\* ticket keys rotate once in a period and no live key is lost, for every
\* period, lifetime and number of connections.
THEOREM RotationIsSafe == Spec => []RotationSafe
PROOF BY SessionsInvariant, PTL DEF IInv, KeysInv

\* Once all handles and cleanups are gone the certificate is out of the cache,
\* for any number of connections.
THEOREM CertificatesReleased == Spec => []CertsReleased
<1>1. IInv => CertsReleased
  BY DEF IInv, CertInv, CertsReleased
<1> QED
  BY <1>1, SessionsInvariant, PTL

\* The cache stays within its capacity and has every name once; a session leaves
\* it because a connection that offered it failed, or as the last of a full cache
\* when a connection that has no entry puts its session in front, or nil.
THEOREM OnlyLeastRecentEvicted == Spec => EvictsLeastRecent
<1>1. IInv /\ IInv' /\ [Next]_vars => [LeavesInTurn]_vars
  <2> SUFFICES ASSUME IInv, IInv', Next
               PROVE  LeavesInTurn
    OBVIOUS
  <2>1. Len(lru') <= capacity /\ \A i, j \in DOMAIN lru' : lru'[i].name = lru'[j].name => i = j
    <3>1. capacity' = capacity
      BY OthersStay DEF IInv, Next, Tick, SetSessionTicketKeys
    <3> QED
      BY <3>1 DEF IInv, LruInv, UniqueNames
  <2>2. CASE UNCHANGED lru
    BY <2>1, <2>2 DEF Position, LeavesInTurn
  <2>3. ASSUME NEW p \in Conns, \E name \in Names : StartConn(p, name)
        PROVE  LeavesInTurn
    BY <2>1, <2>3, GetKeeps DEF StartConn, IInv, TypeInv, LruInv, LeavesInTurn
  <2>4. ASSUME NEW p \in Conns, Finish(p)
        PROVE  LeavesInTurn
    <3>1. /\ Finishing(p) /\ conn[p].name \in Names /\ conn[p].key \in Key
          /\ [key |-> conn[p].key] \in [key : Key]
      BY <2>4 DEF Finish, Finishing, At, IInv, TypeInv, ConnInv, Equipped
    <3>2. [key |-> conn[p].key] # None
      BY <3>1, SessionsAssumption DEF Key
    <3>3. ASSUME NEW cs \in [key : Key] \cup {None}, lru' = Put(lru, conn[p].name, cs),
                 cs = [key |-> conn[p].key] \/ (cs = None /\ conn[p].offers)
          PROVE  LeavesInTurn
      <4>1. lru \in Seq(Entry) /\ UniqueNames(lru) /\ Len(lru) <= capacity /\ capacity \in Capacities
        BY DEF IInv, TypeInv, LruInv
      <4>2. \A j \in DOMAIN lru : Position(lru', lru[j].name) = {} =>
              \/ lru[j].name = conn[p].name /\ cs = None
              \/ /\ Len(lru) = capacity /\ j = Len(lru) /\ Position(lru, conn[p].name) = {}
                 /\ lru'[1] = [name |-> conn[p].name, state |-> cs]
        BY <3>1, <3>3, <4>1, PutDrops
      <4>3. \A j \in DOMAIN lru : Position(lru', lru[j].name) = {} =>
              (conn[p].name = lru[j].name /\ conn[p].offers) \/ MakesRoom(j, p)
        BY <3>2, <3>3, <4>2 DEF MakesRoom
      <4> QED
        BY <2>1, <3>1, <4>3 DEF LeavesInTurn
    <3> QED
      BY <2>2, <2>4, <3>1, <3>3 DEF Finish
  <2> QED
    BY <2>2, <2>3, <2>4
    DEF Next, Step, Tick, SetSessionTicketKeys, ticketKeys, initLegacySessionTicketKey,
        RotateKeys, Load, LoadOrStore, active, Cleanup, evict
<1> QED
  BY <1>1, SessionsInvariant, PTL DEF Spec, EvictsLeastRecent
===========================================================================
