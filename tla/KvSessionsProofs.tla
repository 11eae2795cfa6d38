-------------------------- MODULE KvSessionsProofs --------------------------
(***************************************************************************)
(* A session that KV holds can be found, and its links open it.  A call    *)
(* writes the keys of a session one after the other, so the invariant says *)
(* what the keys will be when the call has made its last write: the map m  *)
(* of ScopesSettled.  Other calls do not spoil it, because every key belongs to  *)
(* one scope: a session id is given out to one scope, and a token hash to  *)
(* one session (own and holder of Owned).                                  *)
(***************************************************************************)
EXTENDS KvSessions, FiniteSetTheorems, TLAPS

Maps == [Key -> Entry \cup {NoKey}]

\* No write of ws is about key k; or the last that is leaves entry e there.
Untouched(ws, k) == \A i \in 1 .. Len(ws) : ws[i].key # k
Leaves(ws, k, e) ==
    \E i \in 1 .. Len(ws) :
        ws[i].key = k /\ ws[i].entry = e /\ \A j \in i + 1 .. Len(ws) : ws[j].key # k

\* The writes ws, all made, turn map a into map b.
Outcome(ws, a, b) ==
    \A k \in Key : (Untouched(ws, k) /\ b[k] = a[k]) \/ Leaves(ws, k, b[k])

\* The writes that a call about scope x may make, of ids that were given out: own
\* is the scope of a session id, holder the session id of a token hash.
WritesOf(own, holder, given, x) ==
    {w \in PendingWrite :
       \/ \E s \in given \cap Sid :
              /\ w.key = <<"session", s>> /\ own[s] = x
              /\ w.entry # NoKey =>
                     /\ w.entry.value \in SessionData
                     /\ w.entry.value.id = s /\ w.entry.value.scope = x
                     /\ \A h \in w.entry.value.hashes : h \in given /\ holder[h] = s
       \/ /\ w.key = <<"agent", x>>
          /\ w.entry # NoKey => w.entry.value \in given \cap Sid /\ own[w.entry.value] = x
       \/ \E h \in given \cap TokenHash :
              /\ w.key = <<"link", h>> /\ holder[h] \in given \cap Sid /\ own[holder[h]] = x
              /\ w.entry # NoKey => w.entry.value = holder[h]}

\* Every key of map m was written for one scope.
OwnedMap(own, holder, given, m) ==
    \A k \in Key : m[k] # NoKey =>
        \E x \in Scope : [key |-> k, entry |-> m[k]] \in WritesOf(own, holder, given, x)

Owners == [Sid -> Scope \cup {NoKey}]
Holders == [TokenHash -> Sid \cup {NoKey}]

OwnedBy(own, holder) ==
    /\ OwnedMap(own, holder, issued, kv)
    /\ \A c \in KvCall : todo[c] \in Seq(WritesOf(own, holder, issued, within[c]))

Owned == \E own \in Owners, holder \in Holders : OwnedBy(own, holder)

\* The keys of map m lead to the sessions of scope x that have not expired: there
\* is at most one, its index entry and its links last as long as it does.
Good(x, m) ==
    \A s \in Sid :
        LET e == m[<<"session", s>>]
            i == m[<<"agent", x>>]
        IN  e # NoKey /\ e.value.scope = x /\ ~IsExpired(e.value) =>
              /\ i # NoKey /\ i.value = s /\ i.ends >= ExpiresAt(e.value)
              /\ e.value.status = "ready" => e.ends = Forever /\ i.ends = Forever
              /\ second <= ExpiresAt(e.value) => \A h \in e.value.hashes :
                     LET l == m[<<"link", h>>]
                     IN  l # NoKey /\ l.value = s /\ l.ends >= ExpiresAt(e.value)

\* Where no two calls overlapped, none stopped and none took time, the keys are
\* good, or will be once the one call in flight has made its writes.
ScopeSettled(x) ==
    /\ KvInFlight(x) = {} => Good(x, kv)
    /\ \A c \in KvInFlight(x) : \E m \in Maps : Outcome(todo[c], kv, m) /\ Good(x, m)
    /\ \A c, d \in KvInFlight(x) : c = d

ScopesSettled == links => \A x \in Scope \ mixed : ScopeSettled(x)

KvInv == KvTypeOK /\ Owned /\ ScopesSettled

-----------------------------------------------------------------------------
(* Lists of writes *)

LEMMA EntryIsThere ==
    ASSUME NEW e \in Entry
    PROVE  e # NoKey /\ e.value \in SessionData \cup Sid /\ e.ends \in 0 .. Forever
<1>1. "value" \in DOMAIN e /\ "value" \notin DOMAIN NoKey
  BY DEF Entry, NoKey
<1> QED BY <1>1 DEF Entry

LEMMA NumbersOK ==
    /\ Forever \in Nat /\ PendingTtl \in Nat /\ MinAhead \in Nat /\ MaxSecond \in Nat
    /\ Forever > MaxSecond /\ Forever > MaxSecond + PendingTtl /\ Forever > MaxSecond + MinAhead
BY KvAssumption DEF Forever

\* What is left of a list when its first element is taken.
LEMMA SeqParts ==
    ASSUME NEW S
    PROVE  /\ <<>> \in Seq(S)
           /\ \A ws \in Seq(S) : ws # <<>> => Head(ws) \in S /\ Tail(ws) \in Seq(S)
OBVIOUS

\* A set in some order: every element once.
LEMMA SetToSeqOK ==
    ASSUME NEW S, IsFiniteSet(S)
    PROVE  /\ Cardinality(S) \in Nat
           /\ SetToSeq(S) \in [1 .. Cardinality(S) -> S]
           /\ \A i, j \in 1 .. Cardinality(S) : SetToSeq(S)[i] = SetToSeq(S)[j] => i = j
           /\ \A x \in S : \E i \in 1 .. Cardinality(S) : SetToSeq(S)[i] = x
<1> DEFINE n == Cardinality(S)
           f == SetToSeq(S)
<1>1. n \in Nat /\ ExistsBijection(1 .. n, S)
  BY FS_CardinalityType
<1>2. \E g \in [1 .. n -> S] : IsInjective(g)
  BY <1>1 DEF ExistsBijection, Bijection, Injection
<1>3. f \in [1 .. n -> S] /\ IsInjective(f)
  BY <1>2 DEF SetToSeq
<1>4. f \in Injection(1 .. n, S)
  BY <1>3 DEF Injection
<1>5. IsFiniteSet(1 .. n) /\ Cardinality(1 .. n) = n
  BY <1>1, FS_Interval
<1>6. f \in Surjection(1 .. n, S)
  BY <1>4, <1>5, FS_Injection
<1> QED BY <1>1, <1>3, <1>6 DEF IsInjective, Surjection

\* No writes change nothing, and one write changes its key.
LEMMA OutcomeNone ==
    ASSUME NEW a, NEW b, a \in Maps, b \in Maps
    PROVE  Outcome(<<>>, a, b) <=> b = a
BY DEF Outcome, Untouched, Leaves, Maps

LEMMA OutcomeOne ==
    ASSUME NEW w \in PendingWrite, NEW a \in Maps
    PROVE  Outcome(<<w>>, a, [a EXCEPT ![w.key] = w.entry])
BY DEF Outcome, Untouched, Leaves, Maps, PendingWrite

\* Two lists, one after the other.
LEMMA OutcomeChain ==
    ASSUME NEW v \in Seq(PendingWrite), NEW w \in Seq(PendingWrite),
           NEW a, NEW b, NEW d, Outcome(v, a, b), Outcome(w, b, d)
    PROVE  Outcome(v \o w, a, d) /\ v \o w \in Seq(PendingWrite)
<1> DEFINE u == v \o w
<1>1. /\ Len(u) = Len(v) + Len(w) /\ Len(v) \in Nat /\ Len(w) \in Nat
      /\ \A i \in 1 .. Len(v) : u[i] = v[i]
      /\ \A i \in 1 .. Len(w) : u[Len(v) + i] = w[i]
  OBVIOUS
<1>2. \A i \in 1 .. Len(u) : i \in 1 .. Len(v) \/ (i - Len(v) \in 1 .. Len(w) /\ u[i] = w[i - Len(v)])
  BY <1>1
<1> HIDE DEF u
<1> SUFFICES ASSUME NEW k \in Key
             PROVE  (Untouched(u, k) /\ d[k] = a[k]) \/ Leaves(u, k, d[k])
  BY DEF Outcome, u
<1>3. CASE Leaves(w, k, d[k])
  <2>1. PICK i \in 1 .. Len(w) :
            w[i].key = k /\ w[i].entry = d[k] /\ \A j \in i + 1 .. Len(w) : w[j].key # k
    BY <1>3 DEF Leaves
  <2>2. Len(v) + i \in 1 .. Len(u) /\ u[Len(v) + i] = w[i]
    BY <1>1
  <2>3. \A j \in Len(v) + i + 1 .. Len(u) : j - Len(v) \in i + 1 .. Len(w) /\ u[j] = w[j - Len(v)]
    BY <1>1, <1>2
  <2> QED BY <2>1, <2>2, <2>3 DEF Leaves
<1>4. CASE Untouched(w, k) /\ d[k] = b[k] /\ Leaves(v, k, b[k])
  <2>1. PICK i \in 1 .. Len(v) :
            v[i].key = k /\ v[i].entry = b[k] /\ \A j \in i + 1 .. Len(v) : v[j].key # k
    BY <1>4 DEF Leaves
  <2>2. i \in 1 .. Len(u) /\ u[i] = v[i]
    BY <1>1
  <2>3. \A j \in i + 1 .. Len(u) : u[j].key # k
    <3> SUFFICES ASSUME NEW j \in i + 1 .. Len(u) PROVE u[j].key # k
      OBVIOUS
    <3>1. j \in 1 .. Len(u)
      BY <1>1
    <3>2. CASE j \in 1 .. Len(v)
      <4>1. j \in i + 1 .. Len(v)
        BY <3>2
      <4> QED BY <1>1, <2>1, <3>2, <4>1
    <3>3. CASE j - Len(v) \in 1 .. Len(w) /\ u[j] = w[j - Len(v)]
      BY <1>4, <3>3 DEF Untouched
    <3> QED BY <1>2, <3>1, <3>2, <3>3
  <2> QED BY <1>4, <2>1, <2>2, <2>3 DEF Leaves
<1>5. CASE Untouched(w, k) /\ d[k] = b[k] /\ Untouched(v, k) /\ b[k] = a[k]
  BY <1>1, <1>2, <1>5 DEF Untouched
<1> QED BY <1>3, <1>4, <1>5 DEF Outcome

\* The first write made, the others lead to the same map.
LEMMA OutcomeTail ==
    ASSUME NEW ws \in Seq(PendingWrite), ws # <<>>, NEW a \in Maps, NEW m, Outcome(ws, a, m)
    PROVE  Outcome(Tail(ws), [a EXCEPT ![Head(ws).key] = Head(ws).entry], m)
<1> DEFINE t == Tail(ws)
           b == [a EXCEPT ![Head(ws).key] = Head(ws).entry]
<1>1. /\ Len(ws) \in Nat \ {0} /\ Len(t) = Len(ws) - 1 /\ Head(ws) = ws[1]
      /\ \A i \in 1 .. Len(t) : t[i] = ws[i + 1]
      /\ Head(ws) \in PendingWrite
  OBVIOUS
<1>2. \A k \in Key : b[k] = IF k = ws[1].key THEN ws[1].entry ELSE a[k]
  BY <1>1 DEF Maps
<1> HIDE DEF t, b
<1> SUFFICES ASSUME NEW k \in Key
             PROVE  (Untouched(t, k) /\ m[k] = b[k]) \/ Leaves(t, k, m[k])
  BY DEF Outcome, t, b
<1>3. CASE Untouched(ws, k) /\ m[k] = a[k]
  BY <1>1, <1>2, <1>3 DEF Untouched
<1>4. CASE Leaves(ws, k, m[k])
  <2>1. PICK i \in 1 .. Len(ws) :
            ws[i].key = k /\ ws[i].entry = m[k] /\ \A j \in i + 1 .. Len(ws) : ws[j].key # k
    BY <1>4 DEF Leaves
  <2>2. CASE i = 1
    <3>1. \A j \in 1 .. Len(t) : t[j].key # k
      BY <1>1, <2>1, <2>2
    <3> QED BY <1>2, <2>1, <2>2, <3>1 DEF Untouched
  <2>3. CASE i # 1
    <3>1. i - 1 \in 1 .. Len(t) /\ t[i - 1] = ws[i]
      BY <1>1, <2>3
    <3>2. \A j \in (i - 1) + 1 .. Len(t) : t[j].key # k
      BY <1>1, <2>1, <2>3
    <3> QED BY <2>1, <3>1, <3>2 DEF Leaves
  <2> QED BY <2>2, <2>3
<1> QED BY <1>3, <1>4 DEF Outcome

\* One entry is written for each link of S.
LinkWrites(S, e) == [i \in 1 .. Cardinality(S) |-> [key |-> <<"link", SetToSeq(S)[i]>>, entry |-> e]]

WithLinks(m, S, e) == [k \in Key |-> IF \E h \in S : k = <<"link", h>> THEN e ELSE m[k]]

LEMMA OutcomeLinks ==
    ASSUME NEW S \in SUBSET TokenHash, NEW e \in Entry \cup {NoKey}, NEW m \in Maps
    PROVE  /\ LinkWrites(S, e) \in Seq(PendingWrite)
           /\ Outcome(LinkWrites(S, e), m, WithLinks(m, S, e))
           /\ \A i \in 1 .. Len(LinkWrites(S, e)) :
                  \E h \in S : LinkWrites(S, e)[i] = [key |-> <<"link", h>>, entry |-> e]
<1> DEFINE n == Cardinality(S)
           f == SetToSeq(S)
           ws == LinkWrites(S, e)
<1>1. IsFiniteSet(S)
  BY KvAssumption, FS_Subset
<1>2. /\ n \in Nat /\ f \in [1 .. n -> S]
      /\ \A i, j \in 1 .. n : f[i] = f[j] => i = j
      /\ \A x \in S : \E i \in 1 .. n : f[i] = x
  BY <1>1, SetToSeqOK
<1> HIDE DEF n, f
<1>3. ws = [i \in 1 .. n |-> [key |-> <<"link", f[i]>>, entry |-> e]]
  BY DEF LinkWrites, n, f
<1>4. \A i \in 1 .. n : f[i] \in S /\ <<"link", f[i]>> \in Key
  BY <1>2 DEF Key
<1>5. \A i \in 1 .. n : /\ ws[i] = [key |-> <<"link", f[i]>>, entry |-> e]
                         /\ ws[i].key = <<"link", f[i]>> /\ ws[i].entry = e
                         /\ ws[i] \in PendingWrite
  BY <1>3, <1>4 DEF PendingWrite
<1>6. ws \in Seq(PendingWrite) /\ Len(ws) = n
  BY <1>2, <1>3, <1>5
<1> HIDE DEF ws
<1>7. ASSUME NEW k \in Key
      PROVE  \/ Untouched(ws, k) /\ WithLinks(m, S, e)[k] = m[k]
             \/ Leaves(ws, k, WithLinks(m, S, e)[k])
  <2>1. CASE \E h \in S : k = <<"link", h>>
    <3>1. PICK h \in S : k = <<"link", h>>
      BY <2>1
    <3>2. PICK i \in 1 .. n : f[i] = h
      BY <1>2
    <3>3. ws[i].key = k /\ ws[i].entry = e
      BY <1>5, <3>1, <3>2
    <3>4. \A j \in i + 1 .. n : j \in 1 .. n /\ f[j] # h
      BY <1>2, <3>2
    <3>5. \A j \in i + 1 .. n : ws[j].key = <<"link", f[j]>>
      BY <1>5, <3>4
    <3>6. \A j \in i + 1 .. n : ws[j].key # k
      BY <3>1, <3>4, <3>5
    <3>7. WithLinks(m, S, e)[k] = e
      BY <2>1 DEF WithLinks
    <3> QED BY <1>6, <3>3, <3>6, <3>7 DEF Leaves
  <2>2. CASE ~ \E h \in S : k = <<"link", h>>
    BY <1>4, <1>5, <1>6, <2>2 DEF Untouched, WithLinks
  <2> QED BY <2>1, <2>2
<1> QED BY <1>4, <1>5, <1>6, <1>7 DEF Outcome, ws

-----------------------------------------------------------------------------
(* What a call writes, and what that leads to *)

\* A list of allowed writes is a list of writes, and two of them make one.
LEMMA WritesJoin ==
    ASSUME NEW own, NEW holder, NEW given, NEW x,
           NEW v \in Seq(WritesOf(own, holder, given, x)),
           NEW w \in Seq(WritesOf(own, holder, given, x))
    PROVE  /\ v \o w \in Seq(WritesOf(own, holder, given, x))
           /\ v \in Seq(PendingWrite)
<1>1. WritesOf(own, holder, given, x) \subseteq PendingWrite
  BY DEF WritesOf
<1> QED BY <1>1

LEMMA EndsOK ==
    ASSUME NEW s \in SessionData, second \in 0 .. MaxSecond
    PROVE  /\ Ends(s) \in 0 .. Forever
           /\ ExpiresAt(s) \in Nat /\ ExpiresAt(s) < Forever
           /\ s.status = "ready" => Ends(s) = Forever
           /\ links => Ends(s) >= ExpiresAt(s)
<1>1. s.created_at \in 0 .. MaxSecond
  BY DEF SessionData
<1> QED BY <1>1, NumbersOK DEF Ends, ExpiresAt, Latest

Stored(m, s) == [m EXCEPT ![<<"session", s.id>>] = [value |-> s, ends |-> Ends(s)]]
Indexed(m, s) == [m EXCEPT ![<<"agent", s.scope>>] = [value |-> s.id, ends |-> Ends(s)]]
Linked(m, s, hs) == WithLinks(m, hs, [value |-> s.id, ends |-> Ends(s)])

Created(m, s) == Linked(Indexed(Stored(m, s), s), s, s.hashes)
Updated(m, old, new) ==
    Linked(IF new.status # old.status THEN Indexed(Stored(m, new), new) ELSE Stored(m, new),
           new, new.hashes \ old.hashes)
Deleted(m, s) ==
    [WithLinks([m EXCEPT ![<<"agent", s.scope>>] = NoKey], s.hashes, NoKey)
        EXCEPT ![<<"session", s.id>>] = NoKey]

\* The ids of a session are given out, to its scope and to it.
Known(own, holder, given, x, s) ==
    /\ s.id \in given \cap Sid /\ own[s.id] = x /\ s.scope = x
    /\ \A h \in s.hashes : h \in given /\ holder[h] = s.id

LEMMA PartsOK ==
    ASSUME NEW s \in SessionData, second \in 0 .. MaxSecond
    PROVE  /\ s.id \in Sid /\ s.scope \in Scope /\ s.hashes \in SUBSET TokenHash
           /\ <<"session", s.id>> \in Key /\ <<"agent", s.scope>> \in Key
           /\ \A h \in TokenHash : <<"link", h>> \in Key
           /\ [value |-> s, ends |-> Ends(s)] \in Entry
           /\ [value |-> s.id, ends |-> Ends(s)] \in Entry
<1>1. s.id \in Sid /\ s.scope \in Scope /\ s.hashes \in SUBSET TokenHash
  BY DEF SessionData
<1>2. <<"session", s.id>> \in Key /\ <<"agent", s.scope>> \in Key /\ \A h \in TokenHash : <<"link", h>> \in Key
  BY <1>1 DEF Key
<1>3. [value |-> s, ends |-> Ends(s)] \in Entry /\ [value |-> s.id, ends |-> Ends(s)] \in Entry
  BY <1>1, EndsOK DEF Entry
<1> QED BY <1>1, <1>2, <1>3

LEMMA MapsOK ==
    ASSUME NEW s \in SessionData, NEW m \in Maps, second \in 0 .. MaxSecond,
           NEW hs \in SUBSET TokenHash
    PROVE  /\ Stored(m, s) \in Maps /\ Indexed(m, s) \in Maps /\ Linked(m, s, hs) \in Maps
           /\ WithLinks(m, hs, NoKey) \in Maps
           /\ \A k \in Key : [m EXCEPT ![k] = NoKey] \in Maps
BY PartsOK DEF Stored, Indexed, Linked, WithLinks, Maps

LEMMA CreateOutcome ==
    ASSUME NEW s \in SessionData, NEW m \in Maps, second \in 0 .. MaxSecond
    PROVE  /\ CreateWrites(s) \in Seq(PendingWrite)
           /\ Created(m, s) \in Maps
           /\ Outcome(CreateWrites(s), m, Created(m, s))
<1> DEFINE p == Put(<<"session", s.id>>, s, Ends(s))
           q == Put(<<"agent", s.scope>>, s.id, Ends(s))
           l == PutHashes(s, s.hashes)
           e == [value |-> s.id, ends |-> Ends(s)]
           m1 == Stored(m, s)
           m2 == Indexed(m1, s)
<1>1. /\ p \in PendingWrite /\ q \in PendingWrite /\ e \in Entry
      /\ p.key = <<"session", s.id>> /\ p.entry = [value |-> s, ends |-> Ends(s)]
      /\ q.key = <<"agent", s.scope>> /\ q.entry = e
  BY PartsOK DEF Put, PendingWrite
<1>2. m1 \in Maps /\ m2 \in Maps /\ Created(m, s) \in Maps /\ s.hashes \in SUBSET TokenHash
  BY PartsOK, MapsOK DEF Created
<1>3. Outcome(<<p>>, m, m1)
  BY <1>1, OutcomeOne DEF Stored
<1>4. Outcome(<<q>>, m1, m2)
  BY <1>1, <1>2, OutcomeOne DEF Indexed
<1>5. l = LinkWrites(s.hashes, e) /\ Created(m, s) = WithLinks(m2, s.hashes, e)
  BY DEF PutHashes, Put, LinkWrites, Created, Linked
<1>6. l \in Seq(PendingWrite) /\ Outcome(l, m2, Created(m, s))
  <2>1. e \in Entry \cup {NoKey} /\ m2 \in Maps /\ s.hashes \in SUBSET TokenHash
    BY <1>1, <1>2
  <2> HIDE DEF l, m2, e
  <2>2. LinkWrites(s.hashes, e) \in Seq(PendingWrite) /\ Outcome(LinkWrites(s.hashes, e), m2, WithLinks(m2, s.hashes, e))
    BY <2>1, OutcomeLinks
  <2> QED BY <1>5, <2>2
<1>7. CreateWrites(s) = (<<p>> \o <<q>>) \o l
  BY DEF CreateWrites
<1> HIDE DEF p, q, l, e, m1, m2
<1>8. <<p>> \in Seq(PendingWrite) /\ <<q>> \in Seq(PendingWrite) /\ <<p>> \o <<q>> \in Seq(PendingWrite)
  BY <1>1
<1>9. Outcome(<<p>> \o <<q>>, m, m2)
  BY <1>3, <1>4, <1>8, OutcomeChain
<1> DEFINE v == <<p>> \o <<q>>
           w == l
<1>10. v \in Seq(PendingWrite) /\ w \in Seq(PendingWrite)
  BY <1>6, <1>8
<1> HIDE DEF v, w
<1>11. Outcome(v \o w, m, Created(m, s)) /\ v \o w \in Seq(PendingWrite)
  BY <1>6, <1>9, <1>10, OutcomeChain DEF v, w
<1> QED BY <1>2, <1>7, <1>11 DEF v, w

LEMMA UpdateOutcome ==
    ASSUME NEW old \in SessionData, NEW s \in SessionData, NEW m \in Maps, second \in 0 .. MaxSecond
    PROVE  /\ UpdateWrites(old, s) \in Seq(PendingWrite)
           /\ Updated(m, old, s) \in Maps
           /\ Outcome(UpdateWrites(old, s), m, Updated(m, old, s))
<1> DEFINE p == Put(<<"session", s.id>>, s, Ends(s))
           q == Put(<<"agent", s.scope>>, s.id, Ends(s))
           i == IF s.status # old.status THEN <<q>> ELSE <<>>
           hs == s.hashes \ old.hashes
           l == PutHashes(s, hs)
           e == [value |-> s.id, ends |-> Ends(s)]
           m1 == Stored(m, s)
           m2 == IF s.status # old.status THEN Indexed(m1, s) ELSE m1
<1>1. /\ p \in PendingWrite /\ q \in PendingWrite /\ e \in Entry
      /\ p.key = <<"session", s.id>> /\ p.entry = [value |-> s, ends |-> Ends(s)]
      /\ q.key = <<"agent", s.scope>> /\ q.entry = e
  BY PartsOK DEF Put, PendingWrite
<1>2. m1 \in Maps /\ m2 \in Maps /\ Updated(m, old, s) \in Maps /\ hs \in SUBSET TokenHash
  BY PartsOK, MapsOK DEF Updated
<1>3. Outcome(<<p>>, m, m1)
  BY <1>1, OutcomeOne DEF Stored
<1>4. Outcome(i, m1, m2)
  BY <1>1, <1>2, OutcomeOne, OutcomeNone DEF Indexed
<1>5. l = LinkWrites(hs, e) /\ Updated(m, old, s) = WithLinks(m2, hs, e)
  BY DEF PutHashes, Put, LinkWrites, Updated, Linked
<1>6. l \in Seq(PendingWrite) /\ Outcome(l, m2, Updated(m, old, s))
  <2>1. e \in Entry \cup {NoKey} /\ m2 \in Maps /\ hs \in SUBSET TokenHash
    BY <1>1, <1>2
  <2> HIDE DEF l, m2, e, hs
  <2>2. LinkWrites(hs, e) \in Seq(PendingWrite) /\ Outcome(LinkWrites(hs, e), m2, WithLinks(m2, hs, e))
    BY <2>1, OutcomeLinks
  <2> QED BY <1>5, <2>2
<1>7. UpdateWrites(old, s) = (<<p>> \o i) \o l
  BY DEF UpdateWrites
<1>8. <<p>> \in Seq(PendingWrite) /\ i \in Seq(PendingWrite) /\ <<p>> \o i \in Seq(PendingWrite)
  BY <1>1
<1> HIDE DEF p, q, i, l, e, m1, m2
<1>9. Outcome(<<p>> \o i, m, m2)
  BY <1>3, <1>4, <1>8, OutcomeChain
<1> DEFINE v == <<p>> \o i
           w == l
<1>10. v \in Seq(PendingWrite) /\ w \in Seq(PendingWrite)
  BY <1>6, <1>8
<1> HIDE DEF v, w
<1>11. Outcome(v \o w, m, Updated(m, old, s)) /\ v \o w \in Seq(PendingWrite)
  BY <1>6, <1>9, <1>10, OutcomeChain DEF v, w
<1> QED BY <1>2, <1>7, <1>11 DEF v, w

LEMMA DeleteOutcome ==
    ASSUME NEW s \in SessionData, NEW m \in Maps, second \in 0 .. MaxSecond
    PROVE  /\ DeleteWrites(s) \in Seq(PendingWrite)
           /\ Deleted(m, s) \in Maps
           /\ Outcome(DeleteWrites(s), m, Deleted(m, s))
<1> DEFINE p == Del(<<"agent", s.scope>>)
           q == Del(<<"session", s.id>>)
           l == [i \in 1 .. Cardinality(s.hashes) |-> Del(<<"link", SetToSeq(s.hashes)[i]>>)]
           m1 == [m EXCEPT ![<<"agent", s.scope>>] = NoKey]
           m2 == WithLinks(m1, s.hashes, NoKey)
<1>1. /\ p \in PendingWrite /\ q \in PendingWrite
      /\ p.key = <<"agent", s.scope>> /\ p.entry = NoKey
      /\ q.key = <<"session", s.id>> /\ q.entry = NoKey
  BY PartsOK DEF Del, PendingWrite
<1>2. m1 \in Maps /\ m2 \in Maps /\ Deleted(m, s) \in Maps /\ s.hashes \in SUBSET TokenHash
  BY PartsOK, MapsOK DEF Deleted
<1>3. Outcome(<<p>>, m, m1)
  BY <1>1, OutcomeOne
<1>4. l = LinkWrites(s.hashes, NoKey)
  BY DEF Del, LinkWrites
<1>5. l \in Seq(PendingWrite) /\ Outcome(l, m1, m2)
  BY <1>2, <1>4, OutcomeLinks
<1>6. Outcome(<<q>>, m2, Deleted(m, s))
  BY <1>1, <1>2, OutcomeOne DEF Deleted
<1>7. DeleteWrites(s) = (<<p>> \o l) \o <<q>>
  BY DEF DeleteWrites
<1> HIDE DEF p, q, l, m1, m2
<1>8. <<p>> \in Seq(PendingWrite) /\ <<q>> \in Seq(PendingWrite) /\ l \in Seq(PendingWrite) /\ <<p>> \o l \in Seq(PendingWrite)
  BY <1>1, <1>5
<1>9. Outcome(<<p>> \o l, m, m2)
  BY <1>3, <1>5, <1>8, OutcomeChain
<1> DEFINE v == <<p>> \o l
           w == <<q>>
<1>10. v \in Seq(PendingWrite) /\ w \in Seq(PendingWrite)
  BY <1>6, <1>8
<1> HIDE DEF v, w
<1>11. Outcome(v \o w, m, Deleted(m, s)) /\ v \o w \in Seq(PendingWrite)
  BY <1>6, <1>9, <1>10, OutcomeChain DEF v, w
<1> QED BY <1>2, <1>7, <1>11 DEF v, w

-----------------------------------------------------------------------------
(* Whose keys they are *)

\* What the three kinds of keys of an owned map hold.
LEMMA OwnedKeys ==
    ASSUME NEW own, NEW holder, NEW given, NEW m, OwnedMap(own, holder, given, m)
    PROVE  /\ \A s \in Sid : LET e == m[<<"session", s>>] IN e # NoKey =>
                  /\ e.value \in SessionData /\ s \in given
                  /\ Known(own, holder, given, own[s], e.value) /\ e.value.id = s
           /\ \A x \in Scope : LET i == m[<<"agent", x>>] IN i # NoKey =>
                  i.value \in given \cap Sid /\ own[i.value] = x
           /\ \A h \in TokenHash : LET l == m[<<"link", h>>] IN l # NoKey =>
                  h \in given /\ l.value \in given \cap Sid /\ l.value = holder[h]
<1>1. ASSUME NEW s \in Sid, m[<<"session", s>>] # NoKey
      PROVE  LET e == m[<<"session", s>>]
             IN  /\ e.value \in SessionData /\ s \in given
                 /\ Known(own, holder, given, own[s], e.value) /\ e.value.id = s
  <2>1. <<"session", s>> \in Key
    BY DEF Key
  <2>2. PICK x \in Scope : [key |-> <<"session", s>>, entry |-> m[<<"session", s>>]]
                               \in WritesOf(own, holder, given, x)
    BY <1>1, <2>1 DEF OwnedMap
  <2> QED BY <1>1, <2>2 DEF WritesOf, Known
<1>2. ASSUME NEW x \in Scope, m[<<"agent", x>>] # NoKey
      PROVE  m[<<"agent", x>>].value \in given \cap Sid /\ own[m[<<"agent", x>>].value] = x
  <2>1. <<"agent", x>> \in Key
    BY DEF Key
  <2>2. PICK y \in Scope : [key |-> <<"agent", x>>, entry |-> m[<<"agent", x>>]]
                               \in WritesOf(own, holder, given, y)
    BY <1>2, <2>1 DEF OwnedMap
  <2> QED BY <1>2, <2>2 DEF WritesOf
<1>3. ASSUME NEW h \in TokenHash, m[<<"link", h>>] # NoKey
      PROVE  LET l == m[<<"link", h>>]
             IN  h \in given /\ l.value \in given \cap Sid /\ l.value = holder[h]
  <2>1. <<"link", h>> \in Key
    BY DEF Key
  <2>2. PICK y \in Scope : [key |-> <<"link", h>>, entry |-> m[<<"link", h>>]]
                               \in WritesOf(own, holder, given, y)
    BY <1>3, <2>1 DEF OwnedMap
  <2> QED BY <1>3, <2>2 DEF WritesOf
<1> QED BY <1>1, <1>2, <1>3

\* A list of writes about x leads from an owned map to an owned map.
LEMMA OutcomeOwned ==
    ASSUME NEW own, NEW holder, NEW given, NEW x \in Scope,
           NEW ws \in Seq(WritesOf(own, holder, given, x)),
           NEW a, NEW b \in Maps, OwnedMap(own, holder, given, a), Outcome(ws, a, b)
    PROVE  OwnedMap(own, holder, given, b)
<1> SUFFICES ASSUME NEW k \in Key, b[k] # NoKey
             PROVE  \E y \in Scope : [key |-> k, entry |-> b[k]] \in WritesOf(own, holder, given, y)
  BY DEF OwnedMap
<1>1. CASE b[k] = a[k]
  BY <1>1 DEF OwnedMap
<1>2. CASE Leaves(ws, k, b[k])
  <2>1. PICK i \in 1 .. Len(ws) : ws[i].key = k /\ ws[i].entry = b[k]
    BY <1>2 DEF Leaves
  <2>2. ws[i] \in WritesOf(own, holder, given, x) /\ ws[i] \in PendingWrite
    BY DEF WritesOf
  <2>3. ws[i] = [key |-> k, entry |-> b[k]]
    BY <2>1, <2>2 DEF PendingWrite
  <2> QED BY <2>2, <2>3
<1> QED BY <1>1, <1>2 DEF Outcome

\* Two maps that agree on the keys of scope x.
SameFor(own, holder, x, m, n) ==
    /\ \A s \in Sid : own[s] = x => m[<<"session", s>>] = n[<<"session", s>>]
    /\ m[<<"agent", x>>] = n[<<"agent", x>>]
    /\ \A h \in TokenHash : own[holder[h]] = x => m[<<"link", h>>] = n[<<"link", h>>]

LEMMA GoodOfKeys ==
    ASSUME NEW own, NEW holder, NEW given, NEW x \in Scope, NEW m, NEW n,
           OwnedMap(own, holder, given, n), SameFor(own, holder, x, m, n), Good(x, m)
    PROVE  Good(x, n)
<1> SUFFICES ASSUME NEW s \in Sid, n[<<"session", s>>] # NoKey,
                    n[<<"session", s>>].value.scope = x, ~IsExpired(n[<<"session", s>>].value)
             PROVE  LET e == n[<<"session", s>>]
                        i == n[<<"agent", x>>]
                    IN  /\ i # NoKey /\ i.value = s /\ i.ends >= ExpiresAt(e.value)
                        /\ e.value.status = "ready" => e.ends = Forever /\ i.ends = Forever
                        /\ second <= ExpiresAt(e.value) => \A h \in e.value.hashes :
                               LET l == n[<<"link", h>>]
                               IN  l # NoKey /\ l.value = s /\ l.ends >= ExpiresAt(e.value)
  BY DEF Good
<1>1. /\ own[s] = x /\ n[<<"session", s>>].value.hashes \subseteq TokenHash
      /\ \A h \in n[<<"session", s>>].value.hashes : holder[h] = s
  BY OwnedKeys DEF Known, SessionData
<1>2. /\ n[<<"session", s>>] = m[<<"session", s>>] /\ n[<<"agent", x>>] = m[<<"agent", x>>]
      /\ \A h \in n[<<"session", s>>].value.hashes : n[<<"link", h>>] = m[<<"link", h>>]
  BY <1>1 DEF SameFor
<1> QED BY <1>2 DEF Good

\* A write about another scope leaves the keys of x alone.
LEMMA OtherScope ==
    ASSUME NEW own, NEW holder, NEW given, NEW x \in Scope, NEW y \in Scope, x # y,
           NEW w \in WritesOf(own, holder, given, y), NEW m \in Maps
    PROVE  /\ SameFor(own, holder, x, m, [m EXCEPT ![w.key] = w.entry])
           /\ \A v \in WritesOf(own, holder, given, x) : v.key # w.key
<1>1. \A s \in Sid : own[s] = x => w.key # <<"session", s>>
  BY DEF WritesOf
<1>2. w.key # <<"agent", x>>
  BY DEF WritesOf
<1>3. \A h \in TokenHash : own[holder[h]] = x => w.key # <<"link", h>>
  BY DEF WritesOf
<1>4. \A v \in WritesOf(own, holder, given, x) : v.key # w.key
  BY <1>1, <1>2, <1>3 DEF WritesOf
<1>5. \A k \in Key : k # w.key => [m EXCEPT ![w.key] = w.entry][k] = m[k]
  BY DEF Maps
<1>6. /\ \A s \in Sid : <<"session", s>> \in Key
      /\ <<"agent", x>> \in Key /\ \A h \in TokenHash : <<"link", h>> \in Key
  BY DEF Key
<1> QED BY <1>1, <1>2, <1>3, <1>4, <1>5, <1>6 DEF SameFor

-----------------------------------------------------------------------------
(* What the store calls write is allowed and good *)

LEMMA LinkWritesOwned ==
    ASSUME NEW own, NEW holder, NEW given, NEW x, NEW s \in SessionData,
           Known(own, holder, given, x, s), NEW hs \in SUBSET s.hashes,
           NEW e \in Entry \cup {NoKey}, e # NoKey => e.value = s.id
    PROVE  LinkWrites(hs, e) \in Seq(WritesOf(own, holder, given, x))
<1> DEFINE ws == LinkWrites(hs, e)
<1>1. hs \in SUBSET TokenHash
  BY DEF SessionData
<1>2. ws \in Seq(PendingWrite)
      /\ \A i \in 1 .. Len(ws) : \E h \in hs : ws[i] = [key |-> <<"link", h>>, entry |-> e]
  <2>1. [k \in Key |-> NoKey] \in Maps
    BY DEF Maps
  <2> QED BY <1>1, <2>1, OutcomeLinks
<1> HIDE DEF ws
<1>3. ASSUME NEW i \in 1 .. Len(ws)
      PROVE  ws[i] \in WritesOf(own, holder, given, x)
  <2>1. PICK h \in hs : ws[i] = [key |-> <<"link", h>>, entry |-> e]
    BY <1>2
  <2>2. h \in given \cap TokenHash /\ holder[h] = s.id /\ s.id \in given \cap Sid /\ own[s.id] = x
    BY <1>1 DEF Known
  <2>3. ws[i].key = <<"link", h>> /\ ws[i].entry = e /\ ws[i] \in PendingWrite
    BY <1>2, <2>1
  <2> QED BY <2>2, <2>3 DEF WritesOf
<1>4. ws \in Seq(WritesOf(own, holder, given, x))
  BY <1>2, <1>3
<1> QED BY <1>4 DEF ws

LEMMA CallWritesOwned ==
    ASSUME NEW own, NEW holder, NEW given, NEW x \in Scope, NEW s \in SessionData,
           Known(own, holder, given, x, s), second \in 0 .. MaxSecond, NEW old \in SessionData
    PROVE  /\ CreateWrites(s) \in Seq(WritesOf(own, holder, given, x))
           /\ UpdateWrites(old, s) \in Seq(WritesOf(own, holder, given, x))
           /\ DeleteWrites(s) \in Seq(WritesOf(own, holder, given, x))
<1> DEFINE W == WritesOf(own, holder, given, x)
           e == [value |-> s.id, ends |-> Ends(s)]
           p == Put(<<"session", s.id>>, s, Ends(s))
           q == Put(<<"agent", s.scope>>, s.id, Ends(s))
           a == Del(<<"agent", s.scope>>)
           d == Del(<<"session", s.id>>)
<1>1. /\ <<"session", s.id>> \in Key /\ <<"agent", s.scope>> \in Key
      /\ [value |-> s, ends |-> Ends(s)] \in Entry /\ e \in Entry
  BY PartsOK
<1>2. /\ s.id \in given \cap Sid /\ own[s.id] = x /\ s.scope = x
      /\ \A h \in s.hashes : h \in given /\ holder[h] = s.id
  BY DEF Known
<1>3. p \in W
  BY <1>1, <1>2 DEF Put, PendingWrite, WritesOf
<1>4. q \in W
  BY <1>1, <1>2 DEF Put, PendingWrite, WritesOf
<1>5. a \in W
  BY <1>1, <1>2, EntryIsThere DEF Del, PendingWrite, WritesOf
<1>6. d \in W
  BY <1>1, <1>2, EntryIsThere DEF Del, PendingWrite, WritesOf
<1>7. LinkWrites(s.hashes, e) \in Seq(W) /\ LinkWrites(s.hashes \ old.hashes, e) \in Seq(W)
  BY <1>1, LinkWritesOwned
<1>8. LinkWrites(s.hashes, NoKey) \in Seq(W)
  BY LinkWritesOwned
<1>9. /\ PutHashes(s, s.hashes) = LinkWrites(s.hashes, e)
      /\ PutHashes(s, s.hashes \ old.hashes) = LinkWrites(s.hashes \ old.hashes, e)
  BY DEF PutHashes, Put, LinkWrites
<1>10. DeleteWrites(s) = (<<a>> \o LinkWrites(s.hashes, NoKey)) \o <<d>>
  BY DEF DeleteWrites, Del, LinkWrites
<1>11. CreateWrites(s) = <<p, q>> \o LinkWrites(s.hashes, e)
  BY <1>9 DEF CreateWrites
<1>12. UpdateWrites(old, s) = (<<p>> \o IF s.status # old.status THEN <<q>> ELSE <<>>)
                                \o LinkWrites(s.hashes \ old.hashes, e)
  BY <1>9 DEF UpdateWrites
<1> HIDE DEF W, e, p, q, a, d
<1>13. /\ <<p, q>> \in Seq(W) /\ <<a>> \in Seq(W) /\ <<d>> \in Seq(W)
       /\ <<p>> \o (IF s.status # old.status THEN <<q>> ELSE <<>>) \in Seq(W)
  BY <1>3, <1>4, <1>5, <1>6
<1>14. \A v, w \in Seq(W) : v \o w \in Seq(W)
  OBVIOUS
<1> QED BY <1>7, <1>8, <1>10, <1>11, <1>12, <1>13, <1>14 DEF W

\* No session of scope x is live in map m.
Vacant(x, m) ==
    \A s \in Sid :
        LET e == m[<<"session", s>>] IN e # NoKey /\ e.value.scope = x => IsExpired(e.value)

LEMMA VacantGood ==
    ASSUME NEW x, NEW m, Vacant(x, m)
    PROVE  Good(x, m)
BY DEF Vacant, Good

\* A session created where none is live.
LEMMA CreateGood ==
    ASSUME NEW s \in SessionData, NEW m \in Maps, second \in 0 .. MaxSecond, links,
           Vacant(s.scope, m)
    PROVE  Good(s.scope, Created(m, s))
<1> DEFINE n == Created(m, s)
           e == [value |-> s.id, ends |-> Ends(s)]
<1>1. /\ \A o \in Sid : <<"session", o>> \in Key
      /\ <<"agent", s.scope>> \in Key /\ \A h \in TokenHash : <<"link", h>> \in Key
      /\ s.hashes \subseteq TokenHash
  BY PartsOK DEF Key
<1>2. /\ \A o \in Sid : n[<<"session", o>>] =
             IF o = s.id THEN [value |-> s, ends |-> Ends(s)] ELSE m[<<"session", o>>]
      /\ n[<<"agent", s.scope>>] = e
      /\ \A h \in s.hashes : n[<<"link", h>>] = e
  BY <1>1 DEF Created, Linked, WithLinks, Indexed, Stored, Maps
<1>3. /\ e # NoKey /\ e.value = s.id /\ e.ends = Ends(s) /\ e.ends >= ExpiresAt(s)
      /\ s.status = "ready" => e.ends = Forever
  BY PartsOK, EntryIsThere, EndsOK
<1> HIDE DEF n, e
<1> SUFFICES ASSUME NEW o \in Sid, n[<<"session", o>>] # NoKey,
                    n[<<"session", o>>].value.scope = s.scope, ~IsExpired(n[<<"session", o>>].value)
             PROVE  LET g == n[<<"session", o>>]
                        i == n[<<"agent", s.scope>>]
                    IN  /\ i # NoKey /\ i.value = o /\ i.ends >= ExpiresAt(g.value)
                        /\ g.value.status = "ready" => g.ends = Forever /\ i.ends = Forever
                        /\ second <= ExpiresAt(g.value) => \A h \in g.value.hashes :
                               LET l == n[<<"link", h>>]
                               IN  l # NoKey /\ l.value = o /\ l.ends >= ExpiresAt(g.value)
  BY DEF Good, n
<1>4. o = s.id
  BY <1>2 DEF Vacant
<1>5. n[<<"session", o>>].value = s /\ n[<<"session", o>>].ends = Ends(s)
  BY <1>2, <1>4
<1> QED BY <1>2, <1>3, <1>4, <1>5, EndsOK

-----------------------------------------------------------------------------
(* What the store's reads find *)

LEMMA LiveFacts ==
    ASSUME KvTypeOK, NEW own, NEW holder, OwnedBy(own, holder), NEW s \in Sid, Live(s)
    PROVE  /\ Get(s) \in SessionData /\ Get(s).scope = own[s] /\ own[s] \in Scope /\ Get(s).id = s
           /\ Known(own, holder, issued, own[s], Get(s))
           /\ kv[<<"session", s>>] # NoKey
           /\ links => ~IsExpired(Get(s))
<1>1. kv[<<"session", s>>] # NoKey /\ (links => ~IsExpired(Get(s)))
  BY DEF Live, Get
<1>2. Get(s) \in SessionData /\ Known(own, holder, issued, own[s], Get(s)) /\ Get(s).id = s
  BY <1>1, OwnedKeys DEF OwnedBy, Get
<1> QED BY <1>1, <1>2 DEF Known, SessionData

LEMMA FoundFacts ==
    ASSUME KvTypeOK, NEW own, NEW holder, OwnedBy(own, holder), NEW x \in Scope, NEW s \in Found(x)
    PROVE  /\ s \in Sid /\ Live(s) /\ own[s] = x
           /\ Get(s) \in SessionData /\ Known(own, holder, issued, x, Get(s))
<1>1. kv[<<"agent", x>>] # NoKey /\ s = kv[<<"agent", x>>].value /\ Live(s)
  BY DEF Found
<1>2. s \in Sid /\ own[s] = x
  BY <1>1, OwnedKeys DEF OwnedBy
<1> QED BY <1>1, <1>2, LiveFacts

LEMMA LiveFound ==
    ASSUME NEW x, NEW s \in Sid, links, Good(x, kv), Live(s), Get(s).scope = x
    PROVE  Found(x) = {s}
BY DEF Good, Live, Get, Found

\* With the agent's session deleted, or none found, no session of x is live.
LEMMA NoneVacant ==
    ASSUME NEW x, links, Good(x, kv), Found(x) = {}
    PROVE  Vacant(x, kv)
<1> SUFFICES ASSUME NEW s \in Sid, kv[<<"session", s>>] # NoKey,
                    kv[<<"session", s>>].value.scope = x, ~IsExpired(kv[<<"session", s>>].value)
             PROVE  FALSE
  BY DEF Vacant
<1>1. Live(s) /\ Get(s).scope = x
  BY DEF Live, Get
<1> QED BY <1>1, LiveFound

LEMMA DeleteVacant ==
    ASSUME KvTypeOK, NEW own, NEW holder, OwnedBy(own, holder), NEW x \in Scope,
           links, Good(x, kv), NEW old \in Found(x)
    PROVE  Vacant(x, Deleted(kv, Get(old)))
<1> DEFINE n == Deleted(kv, Get(old))
<1>1. old \in Sid /\ Live(old) /\ Get(old) \in SessionData /\ Get(old).id = old
  <2>1. old \in Sid /\ Live(old) /\ Get(old) \in SessionData
    BY FoundFacts
  <2> QED BY <2>1, LiveFacts
<1>2. \A s \in Sid : <<"session", s>> \in Key
  BY DEF Key
<1>3. \A s \in Sid : n[<<"session", s>>] = IF s = old THEN NoKey ELSE kv[<<"session", s>>]
  BY <1>1, <1>2 DEF Deleted, WithLinks, KvTypeOK
<1> HIDE DEF n
<1> SUFFICES ASSUME NEW s \in Sid, n[<<"session", s>>] # NoKey,
                    n[<<"session", s>>].value.scope = x, ~IsExpired(n[<<"session", s>>].value)
             PROVE  FALSE
  BY DEF Vacant, n
<1>4. s # old /\ Live(s) /\ Get(s).scope = x
  BY <1>3 DEF Live, Get
<1> QED BY <1>4, LiveFound

\* A live session updated: it stays the one that is found, with all its links.
LEMMA UpdateGood ==
    ASSUME KvTypeOK, NEW own, NEW holder, OwnedBy(own, holder), links,
           NEW s \in Sid, Live(s), Good(Get(s).scope, kv), NEW new \in SessionData,
           new.id = s, new.scope = Get(s).scope, new.created_at = Get(s).created_at,
           new.status = "ready" => Get(s).status # "ready"
    PROVE  Good(Get(s).scope, Updated(kv, Get(s), new))
<1> DEFINE old == Get(s)
           x == Get(s).scope
           n == Updated(kv, Get(s), new)
           e == [value |-> s, ends |-> Ends(new)]
<1>1. /\ old \in SessionData /\ x \in Scope /\ old.id = s
      /\ kv[<<"session", s>>] # NoKey /\ kv[<<"session", s>>].value = old /\ ~IsExpired(old)
  BY LiveFacts DEF Get
<1>2. /\ \A o \in Sid : <<"session", o>> \in Key
      /\ <<"agent", x>> \in Key /\ \A h \in TokenHash : <<"link", h>> \in Key
      /\ new.hashes \subseteq TokenHash
  BY <1>1 DEF Key, SessionData
<1>3. /\ \A o \in Sid : n[<<"session", o>>] =
             IF o = s THEN [value |-> new, ends |-> Ends(new)] ELSE kv[<<"session", o>>]
      /\ n[<<"agent", x>>] = IF new.status # old.status THEN e ELSE kv[<<"agent", x>>]
      /\ \A h \in new.hashes : n[<<"link", h>>] = IF h \in old.hashes THEN kv[<<"link", h>>] ELSE e
  BY <1>2 DEF Updated, Linked, WithLinks, Indexed, Stored, KvTypeOK
<1>4. /\ e # NoKey /\ e.value = s /\ e.ends = Ends(new) /\ e.ends >= ExpiresAt(new)
      /\ new.status = "ready" => e.ends = Forever /\ Ends(new) = Forever
  BY PartsOK, EntryIsThere, EndsOK DEF KvTypeOK
<1>5. ExpiresAt(new) = ExpiresAt(old)
  BY DEF ExpiresAt
<1>6. LET i == kv[<<"agent", x>>]
      IN  /\ i # NoKey /\ i.value = s /\ i.ends >= ExpiresAt(old)
          /\ second <= ExpiresAt(old) => \A h \in old.hashes :
                 LET l == kv[<<"link", h>>]
                 IN  l # NoKey /\ l.value = s /\ l.ends >= ExpiresAt(old)
  BY <1>1 DEF Good
<1>7. ASSUME NEW o \in Sid, o # s, kv[<<"session", o>>] # NoKey,
             kv[<<"session", o>>].value.scope = x
      PROVE  IsExpired(kv[<<"session", o>>].value)
  BY <1>6, <1>7 DEF Good
<1> HIDE DEF n, e, old, x
<1> SUFFICES ASSUME NEW o \in Sid, n[<<"session", o>>] # NoKey,
                    n[<<"session", o>>].value.scope = x, ~IsExpired(n[<<"session", o>>].value)
             PROVE  LET g == n[<<"session", o>>]
                        i == n[<<"agent", x>>]
                    IN  /\ i # NoKey /\ i.value = o /\ i.ends >= ExpiresAt(g.value)
                        /\ g.value.status = "ready" => g.ends = Forever /\ i.ends = Forever
                        /\ second <= ExpiresAt(g.value) => \A h \in g.value.hashes :
                               LET l == n[<<"link", h>>]
                               IN  l # NoKey /\ l.value = o /\ l.ends >= ExpiresAt(g.value)
  BY DEF Good, n, x
<1>8. o = s
  BY <1>3, <1>7
<1>9. n[<<"session", o>>].value = new /\ n[<<"session", o>>].ends = Ends(new)
  BY <1>3, <1>8
<1>10. /\ n[<<"agent", x>>] # NoKey /\ n[<<"agent", x>>].value = s
       /\ n[<<"agent", x>>].ends >= ExpiresAt(new)
       /\ new.status = "ready" => n[<<"agent", x>>].ends = Forever
  BY <1>3, <1>4, <1>5, <1>6 DEF old
<1>11. second <= ExpiresAt(new) => \A h \in new.hashes :
           LET l == n[<<"link", h>>]
           IN  l # NoKey /\ l.value = s /\ l.ends >= ExpiresAt(new)
  BY <1>3, <1>4, <1>5, <1>6
<1> QED BY <1>4, <1>8, <1>9, <1>10, <1>11

-----------------------------------------------------------------------------
(* The steps *)

\* What was allowed stays so when more ids are given out.
LEMMA GivenMore ==
    ASSUME NEW own, NEW holder, NEW given, NEW own2, NEW holder2, NEW given2, given \subseteq given2,
           \A s \in given \cap Sid : own2[s] = own[s],
           \A h \in given \cap TokenHash : holder2[h] = holder[h], NEW x
    PROVE  WritesOf(own, holder, given, x) \subseteq WritesOf(own2, holder2, given2, x)
<1> SUFFICES ASSUME NEW w \in WritesOf(own, holder, given, x)
             PROVE  w \in WritesOf(own2, holder2, given2, x)
  OBVIOUS
<1>0. w \in PendingWrite
  BY DEF WritesOf
<1>1. CASE \E s \in given \cap Sid :
              /\ w.key = <<"session", s>> /\ own[s] = x
              /\ w.entry # NoKey =>
                     /\ w.entry.value \in SessionData
                     /\ w.entry.value.id = s /\ w.entry.value.scope = x
                     /\ \A h \in w.entry.value.hashes : h \in given /\ holder[h] = s
  <2>1. PICK s \in given \cap Sid :
              /\ w.key = <<"session", s>> /\ own[s] = x
              /\ w.entry # NoKey =>
                     /\ w.entry.value \in SessionData
                     /\ w.entry.value.id = s /\ w.entry.value.scope = x
                     /\ \A h \in w.entry.value.hashes : h \in given /\ holder[h] = s
    BY <1>1
  <2>2. w.entry # NoKey => \A h \in w.entry.value.hashes : h \in given2 /\ holder2[h] = s
    BY <2>1 DEF SessionData
  <2>3. s \in given2 \cap Sid /\ own2[s] = x
    BY <2>1
  <2> QED BY <1>0, <2>1, <2>2, <2>3 DEF WritesOf
<1>2. CASE /\ w.key = <<"agent", x>>
           /\ w.entry # NoKey => w.entry.value \in given \cap Sid /\ own[w.entry.value] = x
  <2>1. w.entry # NoKey => w.entry.value \in given2 \cap Sid /\ own2[w.entry.value] = x
    BY <1>2
  <2> QED BY <1>0, <1>2, <2>1 DEF WritesOf
<1>3. CASE \E h \in given \cap TokenHash :
              /\ w.key = <<"link", h>> /\ holder[h] \in given \cap Sid /\ own[holder[h]] = x
              /\ w.entry # NoKey => w.entry.value = holder[h]
  <2>1. PICK h \in given \cap TokenHash :
              /\ w.key = <<"link", h>> /\ holder[h] \in given \cap Sid /\ own[holder[h]] = x
              /\ w.entry # NoKey => w.entry.value = holder[h]
    BY <1>3
  <2>2. h \in given2 \cap TokenHash /\ holder2[h] = holder[h] /\ holder2[h] \in given2 \cap Sid
        /\ own2[holder2[h]] = x
    BY <2>1
  <2> QED BY <1>0, <2>1, <2>2 DEF WritesOf
<1> QED BY <1>1, <1>2, <1>3 DEF WritesOf

\* A call that begins, with ids that are given out to it.
LEMMA BeginOwned ==
    ASSUME KvTypeOK, NEW own, NEW holder, OwnedBy(own, holder),
           NEW own2 \in Owners, NEW holder2 \in Holders, issued \subseteq issued',
           \A s \in issued \cap Sid : own2[s] = own[s],
           \A h \in issued \cap TokenHash : holder2[h] = holder[h],
           NEW c \in KvCall, NEW x \in Scope, NEW ws \in Seq(WritesOf(own2, holder2, issued', x)),
           Begin(c, x, ws)
    PROVE  Owned'
<1>1. \A y : WritesOf(own, holder, issued, y) \subseteq WritesOf(own2, holder2, issued', y)
  BY GivenMore
<1>2. OwnedMap(own2, holder2, issued', kv)
  BY <1>1 DEF OwnedMap, OwnedBy
<1>3. kv' = kv /\ todo' = [todo EXCEPT ![c] = ws] /\ within' = [within EXCEPT ![c] = x]
  BY DEF Begin
<1>4. ASSUME NEW d \in KvCall
      PROVE  todo'[d] \in Seq(WritesOf(own2, holder2, issued', within'[d]))
  <2>1. CASE d = c
    BY <1>3, <2>1 DEF KvTypeOK
  <2>2. CASE d # c
    <3>1. todo'[d] = todo[d] /\ within'[d] = within[d]
      BY <1>3, <2>2 DEF KvTypeOK
    <3>2. todo[d] \in Seq(WritesOf(own, holder, issued, within[d]))
      BY DEF OwnedBy
    <3>3. WritesOf(own, holder, issued, within[d]) \subseteq WritesOf(own2, holder2, issued', within[d])
      BY <1>1
    <3> QED BY <3>1, <3>2, <3>3
  <2> QED BY <2>1, <2>2
<1>5. OwnedMap(own2, holder2, issued', kv')
  BY <1>2, <1>3
<1>6. OwnedBy(own2, holder2)'
  BY <1>4, <1>5 DEF OwnedBy
<1> QED BY <1>6 DEF Owned

LEMMA BeginType ==
    ASSUME KvTypeOK, NEW c \in KvCall, NEW x \in Scope, NEW ws \in Seq(PendingWrite),
           Begin(c, x, ws), issued' \subseteq Sid \cup TokenHash
    PROVE  KvTypeOK'
BY DEF KvTypeOK, Begin

\* Goodness is about the keys and the clock only.
LEMMA GoodSame ==
    ASSUME NEW x, NEW m, second' = second, Good(x, m)
    PROVE  Good(x, m)'
BY DEF Good, IsExpired, ExpiresAt

LEMMA BeginSettled ==
    ASSUME KvTypeOK, ScopesSettled, NEW c \in KvCall, NEW x \in Scope, NEW ws \in Seq(PendingWrite),
           Begin(c, x, ws),
           links /\ x \notin mixed /\ KvInFlight(x) = {} =>
               \E m \in Maps : Outcome(ws, kv, m) /\ Good(x, m)
    PROVE  ScopesSettled'
<1>1. /\ todo[c] = <<>> /\ todo' = [todo EXCEPT ![c] = ws] /\ within' = [within EXCEPT ![c] = x]
      /\ links' = links /\ second' = second /\ kv' = kv
      /\ mixed \subseteq mixed' /\ (x \notin mixed' => KvInFlight(x) = {})
  BY DEF Begin
<1>2. /\ \A d \in KvCall : d # c => todo'[d] = todo[d] /\ within'[d] = within[d]
      /\ todo'[c] = ws /\ within'[c] = x
  BY <1>1 DEF KvTypeOK
<1> SUFFICES ASSUME links, NEW y \in Scope \ mixed'
             PROVE  ScopeSettled(y)'
  BY <1>1 DEF ScopesSettled
<1>3. y \notin mixed /\ ScopeSettled(y)
  BY <1>1 DEF ScopesSettled
<1>4. \A d \in KvInFlight(y) : d \in KvCall /\ d # c
  BY <1>1 DEF KvInFlight
<1>5. CASE y # x
  <2>1. KvInFlight(y)' = KvInFlight(y)
    BY <1>1, <1>2, <1>4, <1>5 DEF KvInFlight
  <2>2. \A d \in KvInFlight(y) : todo'[d] = todo[d]
    BY <1>2, <1>4
  <2>3. KvInFlight(y) = {} => Good(y, kv)'
    BY <1>1, <1>3, GoodSame DEF ScopeSettled
  <2>4. ASSUME NEW d \in KvInFlight(y)
        PROVE  \E m \in Maps : Outcome(todo'[d], kv', m) /\ Good(y, m)'
    <3>1. PICK m \in Maps : Outcome(todo[d], kv, m) /\ Good(y, m)
      BY <1>3 DEF ScopeSettled
    <3> QED BY <1>1, <2>2, <3>1, GoodSame
  <2> QED BY <1>3, <2>1, <2>3, <2>4 DEF ScopeSettled
<1>6. CASE y = x
  <2>1. KvInFlight(x) = {}
    BY <1>1, <1>6
  <2>2. \A d \in KvInFlight(x)' : d = c
    BY <1>2, <2>1 DEF KvInFlight
  <2>3. PICK m \in Maps : Outcome(ws, kv, m) /\ Good(x, m)
    BY <1>3, <1>6, <2>1
  <2>4. Good(x, m)' /\ Good(x, kv)'
    BY <1>1, <1>3, <1>6, <2>1, <2>3, GoodSame DEF ScopeSettled
  <2>5. \A d \in KvInFlight(x)' : \E n \in Maps : Outcome(todo'[d], kv', n) /\ Good(x, n)'
    BY <1>1, <1>2, <2>2, <2>3, <2>4
  <2> QED BY <1>6, <2>2, <2>4, <2>5 DEF ScopeSettled
<1> QED BY <1>5, <1>6

\* The first write of a call made: what it leads to is as before, and what the
\* calls of other scopes lead to only has that key changed.
LEMMA WriteKeeps ==
    ASSUME KvInv, NEW c \in KvCall, Write(c)
    PROVE  KvInv'
<1> DEFINE w == Head(todo[c])
           y == within[c]
<1>1. /\ todo[c] # <<>> /\ kv' = [kv EXCEPT ![w.key] = w.entry]
      /\ todo' = [todo EXCEPT ![c] = Tail(@)]
      /\ UNCHANGED <<links, second, within, issued, mixed>>
  BY DEF Write
<1>2. PICK own \in Owners, holder \in Holders : OwnedBy(own, holder)
  BY DEF KvInv, Owned
<1> DEFINE W(x) == WritesOf(own, holder, issued, x)
<1>3. /\ todo[c] \in Seq(PendingWrite) /\ todo[c] \in Seq(W(y)) /\ y \in Scope
      /\ kv \in Maps
  BY <1>2 DEF KvInv, KvTypeOK, OwnedBy, Maps
<1>4. w \in PendingWrite /\ w \in W(y) /\ Tail(todo[c]) \in Seq(PendingWrite) /\ Tail(todo[c]) \in Seq(W(y))
  <2> HIDE DEF W
  <2> QED BY <1>1, <1>3, SeqParts
<1>5. /\ \A d \in KvCall : d # c => todo'[d] = todo[d]
      /\ todo'[c] = Tail(todo[c])
  BY <1>1 DEF KvInv, KvTypeOK
<1>6. kv' \in Maps
  BY <1>1, <1>3, <1>4 DEF Maps, PendingWrite
<1>7. KvTypeOK'
  BY <1>1, <1>4, <1>6 DEF KvInv, KvTypeOK, Maps
<1> HIDE DEF w, y
<1>8. OwnedMap(own, holder, issued, kv')
  <2>1. Outcome(<<w>>, kv, kv')
    BY <1>1, <1>3, <1>4, OutcomeOne
  <2>2. <<w>> \in Seq(W(y))
    BY <1>4
  <2> QED BY <1>2, <1>3, <1>6, <2>1, <2>2, OutcomeOwned DEF OwnedBy
<1>9. Owned'
  <2>1. \A d \in KvCall : todo'[d] \in Seq(W(within[d]))
    BY <1>2, <1>4, <1>5 DEF OwnedBy, y
  <2>2. OwnedBy(own, holder)'
    BY <1>1, <1>8, <2>1 DEF OwnedBy
  <2> QED BY <2>2 DEF Owned
<1>10. ScopesSettled'
  <2> SUFFICES ASSUME links, NEW x \in Scope \ mixed
               PROVE  ScopeSettled(x)'
    BY <1>1 DEF ScopesSettled
  <2>1. ScopeSettled(x)
    BY DEF KvInv, ScopesSettled
  <2>2. CASE x = y
    <3>1. c \in KvInFlight(x) /\ KvInFlight(x) = {c}
      BY <1>1, <2>1, <2>2 DEF ScopeSettled, KvInFlight, y
    <3>2. PICK m \in Maps : Outcome(todo[c], kv, m) /\ Good(x, m)
      BY <2>1, <3>1 DEF ScopeSettled
    <3>3. Outcome(todo'[c], kv', m)
      BY <1>1, <1>3, <1>5, <3>2, OutcomeTail DEF w
    <3>4. Good(x, m)'
      BY <1>1, <3>2, GoodSame
    <3>5. \A d \in KvInFlight(x)' : d = c
      BY <1>1, <1>5, <3>1 DEF KvInFlight
    <3>6. KvInFlight(x)' = {} => Good(x, kv)'
      <4> SUFFICES ASSUME KvInFlight(x)' = {}
                   PROVE  Good(x, kv)'
        OBVIOUS
      <4>1. todo'[c] = <<>>
        BY <1>1, <2>2 DEF KvInFlight, y
      <4>2. m = kv'
        BY <1>6, <3>2, <3>3, <4>1, OutcomeNone
      <4> QED BY <1>1, <3>2, <4>2, GoodSame
    <3> QED BY <3>3, <3>4, <3>5, <3>6 DEF ScopeSettled
  <2>3. CASE x # y
    <3>1. /\ \A d \in KvInFlight(x) : d \in KvCall /\ d # c /\ within[d] = x /\ todo'[d] = todo[d]
          /\ KvInFlight(x)' = KvInFlight(x)
      BY <1>1, <1>5, <2>3 DEF KvInFlight, y
    <3>2. ASSUME NEW m \in Maps, Good(x, m), OwnedMap(own, holder, issued, [m EXCEPT ![w.key] = w.entry])
          PROVE  Good(x, [m EXCEPT ![w.key] = w.entry])
      <4>1. SameFor(own, holder, x, m, [m EXCEPT ![w.key] = w.entry])
        BY <1>3, <1>4, <2>3, OtherScope
      <4> QED BY <3>2, <4>1, GoodOfKeys
    <3>3. KvInFlight(x)' = {} => Good(x, kv)'
      <4>1. KvInFlight(x) = {} => Good(x, kv')
        BY <1>1, <1>3, <1>8, <2>1, <3>2 DEF ScopeSettled
      <4> QED BY <1>1, <3>1, <4>1, GoodSame
    <3>4. ASSUME NEW d \in KvInFlight(x)
          PROVE  \E n \in Maps : Outcome(todo'[d], kv', n) /\ Good(x, n)'
      <4>1. PICK m \in Maps : Outcome(todo[d], kv, m) /\ Good(x, m)
        BY <2>1 DEF ScopeSettled
      <4> DEFINE n == [m EXCEPT ![w.key] = w.entry]
      <4>2. n \in Maps
        BY <1>4, <4>1 DEF Maps, PendingWrite
      <4>3. todo[d] \in Seq(W(x))
        BY <1>2, <3>1 DEF OwnedBy
      <4>4. \A v \in W(x) : v.key # w.key
        BY <1>3, <1>4, <2>3, OtherScope
      <4>5. Untouched(todo[d], w.key)
        BY <4>3, <4>4 DEF Untouched
      <4>6. Outcome(todo[d], kv', n)
        <5> SUFFICES ASSUME NEW k \in Key
                     PROVE  (Untouched(todo[d], k) /\ n[k] = kv'[k]) \/ Leaves(todo[d], k, n[k])
          BY DEF Outcome
        <5>1. CASE k = w.key
          BY <1>1, <1>3, <4>1, <4>5, <5>1 DEF Maps
        <5>2. CASE k # w.key
          <6>1. n[k] = m[k] /\ kv'[k] = kv[k]
            BY <1>1, <1>3, <4>1, <5>2 DEF Maps
          <6> QED BY <4>1, <6>1 DEF Outcome
        <5> QED BY <5>1, <5>2
      <4>7. OwnedMap(own, holder, issued, n)
        <5> HIDE DEF n
        <5> QED BY <1>8, <4>2, <4>3, <4>6, OutcomeOwned
      <4>8. Good(x, n)
        BY <3>2, <4>1, <4>7
      <4> QED BY <1>1, <3>1, <4>2, <4>6, <4>8, GoodSame
    <3> QED BY <2>1, <3>1, <3>3, <3>4 DEF ScopeSettled
  <2> QED BY <2>2, <2>3
<1> QED BY <1>7, <1>9, <1>10 DEF KvInv

LEMMA StopKeeps ==
    ASSUME KvInv, NEW c \in KvCall, StopWriting(c)
    PROVE  KvInv'
<1>1. /\ todo' = [todo EXCEPT ![c] = <<>>] /\ mixed' = mixed \cup {within[c]}
      /\ UNCHANGED <<links, second, kv, within, issued>>
  BY DEF StopWriting
<1>2. KvTypeOK'
  BY <1>1 DEF KvInv, KvTypeOK
<1>3. /\ \A d \in KvCall : d # c => todo'[d] = todo[d]
      /\ todo'[c] = <<>>
  BY <1>1 DEF KvInv, KvTypeOK
<1>4. Owned'
  <2>1. PICK own \in Owners, holder \in Holders : OwnedBy(own, holder)
    BY DEF KvInv, Owned
  <2>2. \A d \in KvCall : todo'[d] \in Seq(WritesOf(own, holder, issued, within[d]))
    BY <1>3, <2>1, SeqParts DEF OwnedBy
  <2>3. OwnedBy(own, holder)'
    BY <1>1, <2>1, <2>2 DEF OwnedBy
  <2> QED BY <2>3 DEF Owned
<1>5. ScopesSettled'
  <2> SUFFICES ASSUME links, NEW x \in Scope \ mixed'
               PROVE  ScopeSettled(x)'
    BY <1>1 DEF ScopesSettled
  <2>1. x \notin mixed /\ x # within[c] /\ ScopeSettled(x)
    BY <1>1 DEF KvInv, ScopesSettled
  <2>2. KvInFlight(x)' = KvInFlight(x) /\ \A d \in KvInFlight(x) : todo'[d] = todo[d]
    BY <1>1, <1>3, <2>1 DEF KvInFlight
  <2>3. KvInFlight(x) = {} => Good(x, kv)'
    BY <1>1, <2>1, GoodSame DEF ScopeSettled
  <2>4. ASSUME NEW d \in KvInFlight(x)
        PROVE  \E m \in Maps : Outcome(todo'[d], kv', m) /\ Good(x, m)'
    <3>1. PICK m \in Maps : Outcome(todo[d], kv, m) /\ Good(x, m)
      BY <2>1 DEF ScopeSettled
    <3> QED BY <1>1, <2>2, <3>1, GoodSame
  <2> QED BY <2>1, <2>2, <2>3, <2>4 DEF ScopeSettled
<1> QED BY <1>2, <1>4, <1>5 DEF KvInv

\* A second passes: a key that ends is one of a session that expires with it.
LEMMA PassKeeps ==
    ASSUME KvInv, PassSecond
    PROVE  KvInv'
<1>1. /\ second < MaxSecond /\ second' = second + 1
      /\ kv' = [k \in Key |-> IF kv[k] # NoKey /\ kv[k].ends <= second THEN NoKey ELSE kv[k]]
      /\ mixed' = mixed \cup {x \in Scope : KvInFlight(x) # {}}
      /\ UNCHANGED <<links, todo, within, issued>>
  BY DEF PassSecond
<1>2. second \in 0 .. MaxSecond /\ second' \in 0 .. MaxSecond /\ second' \in Int
  BY <1>1, NumbersOK DEF KvInv, KvTypeOK
<1>3. KvTypeOK'
  BY <1>1, <1>2 DEF KvInv, KvTypeOK
<1>4. \A k \in Key : kv'[k] # NoKey => kv'[k] = kv[k]
  BY <1>1
<1>5. \A k \in Key : kv[k] # NoKey /\ kv'[k] = NoKey => kv[k].ends <= second
  BY <1>1
<1>6. Owned'
  <2>1. PICK own \in Owners, holder \in Holders : OwnedBy(own, holder)
    BY DEF KvInv, Owned
  <2>2. OwnedMap(own, holder, issued', kv')
    BY <1>1, <1>4, <2>1 DEF OwnedBy, OwnedMap
  <2>3. OwnedBy(own, holder)'
    BY <1>1, <2>1, <2>2 DEF OwnedBy
  <2> QED BY <2>3 DEF Owned
<1>7. ScopesSettled'
  <2> SUFFICES ASSUME links, NEW x \in Scope \ mixed'
               PROVE  ScopeSettled(x)'
    BY <1>1 DEF ScopesSettled
  <2>1. x \notin mixed /\ KvInFlight(x) = {} /\ KvInFlight(x)' = {} /\ Good(x, kv)
    BY <1>1 DEF KvInv, ScopesSettled, ScopeSettled, KvInFlight
  <2> SUFFICES Good(x, kv)'
    BY <2>1 DEF ScopeSettled
  <2> SUFFICES ASSUME NEW s \in Sid, kv'[<<"session", s>>] # NoKey,
                      kv'[<<"session", s>>].value.scope = x,
                      ~(/\ kv'[<<"session", s>>].value.status # "ready"
                        /\ second' > ExpiresAt(kv'[<<"session", s>>].value))
               PROVE  LET e == kv'[<<"session", s>>]
                          i == kv'[<<"agent", x>>]
                      IN  /\ i # NoKey /\ i.value = s /\ i.ends >= ExpiresAt(e.value)
                          /\ e.value.status = "ready" => e.ends = Forever /\ i.ends = Forever
                          /\ second' <= ExpiresAt(e.value) => \A h \in e.value.hashes :
                                 LET l == kv'[<<"link", h>>]
                                 IN  l # NoKey /\ l.value = s /\ l.ends >= ExpiresAt(e.value)
    BY DEF Good, IsExpired, ExpiresAt
  <2> DEFINE e == kv[<<"session", s>>]
             i == kv[<<"agent", x>>]
  <2>2. /\ <<"session", s>> \in Key /\ <<"agent", x>> \in Key
        /\ \A h \in TokenHash : <<"link", h>> \in Key
    BY DEF Key
  <2>3. e # NoKey /\ kv'[<<"session", s>>] = e /\ e.value.scope = x
    BY <1>4, <2>2
  <2>4. e.value \in SessionData
    BY <1>3, <2>2, <2>3, OwnedKeys DEF KvInv, Owned, OwnedBy
  <2>5. e.value.status # "ready" => second' <= ExpiresAt(e.value)
    BY <1>2, <2>3, <2>4, EndsOK
  <2>6. ExpiresAt(e.value) \in Nat
    BY <1>2, <2>4, EndsOK
  <2>7. ~IsExpired(e.value)
    BY <1>1, <1>2, <2>5, <2>6 DEF IsExpired
  <2>8. /\ i # NoKey /\ i.value = s /\ i.ends >= ExpiresAt(e.value)
        /\ e.value.status = "ready" => e.ends = Forever /\ i.ends = Forever
        /\ second <= ExpiresAt(e.value) => \A h \in e.value.hashes :
               LET l == kv[<<"link", h>>]
               IN  l # NoKey /\ l.value = s /\ l.ends >= ExpiresAt(e.value)
    BY <2>1, <2>3, <2>7 DEF Good
  <2>9. i.ends \in Nat /\ i.ends > second
    <3>1. i.ends \in Nat
      BY <2>2, <2>8, EntryIsThere, NumbersOK DEF KvInv, KvTypeOK
    <3>2. CASE e.value.status = "ready"
      BY <1>2, <2>8, <3>2, NumbersOK
    <3>3. CASE e.value.status # "ready"
      BY <1>1, <1>2, <2>5, <2>6, <2>8, <3>1, <3>3
    <3> QED BY <3>1, <3>2, <3>3
  <2>10. kv'[<<"agent", x>>] = i
    BY <1>1, <1>2, <2>2, <2>9
  <2>11. ASSUME second' <= ExpiresAt(e.value), NEW h \in e.value.hashes
         PROVE  LET l == kv'[<<"link", h>>]
                IN  l # NoKey /\ l.value = s /\ l.ends >= ExpiresAt(e.value)
    <3> DEFINE l == kv[<<"link", h>>]
    <3>1. <<"link", h>> \in Key
      BY <2>2, <2>4 DEF SessionData
    <3>2. l # NoKey /\ l.value = s /\ l.ends >= ExpiresAt(e.value)
      BY <1>1, <1>2, <2>6, <2>8, <2>11
    <3>3. l.ends \in Nat
      BY <3>1, <3>2, EntryIsThere, NumbersOK DEF KvInv, KvTypeOK
    <3>4. l.ends > second
      BY <1>1, <1>2, <2>6, <2>11, <3>2, <3>3
    <3>5. kv'[<<"link", h>>] = l
      BY <1>1, <1>2, <3>1, <3>3, <3>4
    <3> QED BY <3>2, <3>5
  <2> QED BY <2>3, <2>8, <2>10, <2>11
<1> QED BY <1>3, <1>6, <1>7 DEF KvInv

\* A join: fresh ids for a new session, and the agent's earlier one deleted first.
LEMMA JoinKeeps ==
    ASSUME KvInv, NEW c \in KvCall, Join(c)
    PROVE  KvInv'
<1>1. PICK x \in Scope, sid \in Sid, st \in {"pending", "ready"}, hs \in SUBSET TokenHash :
        /\ ({sid} \cup hs) \cap issued = {}
        /\ \A old \in Found(x) : Get(old).status # "ready"
        /\ LET new == [id |-> sid, scope |-> x, status |-> st,
                       created_at |-> second, hashes |-> hs]
           IN  Begin(c, x, IF Found(x) = {} THEN CreateWrites(new)
                   ELSE DeleteWrites(Get(CHOOSE old \in Found(x) : TRUE))
                          \o CreateWrites(new))
        /\ issued' = issued \cup {sid} \cup hs
  BY DEF Join
<1>2. PICK own \in Owners, holder \in Holders : OwnedBy(own, holder)
  BY DEF KvInv, Owned
<1> DEFINE new == [id |-> sid, scope |-> x, status |-> st, created_at |-> second, hashes |-> hs]
           old == CHOOSE o \in Found(x) : TRUE
           ws == IF Found(x) = {} THEN CreateWrites(new)
                 ELSE DeleteWrites(Get(old)) \o CreateWrites(new)
           own2 == [own EXCEPT ![sid] = x]
           holder2 == [h \in TokenHash |-> IF h \in hs THEN sid ELSE holder[h]]
           given2 == issued'
           m1 == IF Found(x) = {} THEN kv ELSE Deleted(kv, Get(old))
<1>3. /\ second \in 0 .. MaxSecond /\ kv \in Maps /\ new \in SessionData
      /\ new.id = sid /\ new.scope = x /\ new.hashes = hs
  BY DEF KvInv, KvTypeOK, Maps, SessionData
<1>4. /\ own2 \in Owners /\ holder2 \in Holders /\ issued \subseteq given2
      /\ \A s \in issued \cap Sid : own2[s] = own[s]
      /\ \A h \in issued \cap TokenHash : holder2[h] = holder[h]
  BY <1>1 DEF Owners, Holders
<1>5. Known(own2, holder2, given2, x, new)
  BY <1>1, <1>3, <1>4 DEF Known, Owners
<1>6. Begin(c, x, ws)
  BY <1>1
<1> HIDE DEF new
<1>7. CreateWrites(new) \in Seq(PendingWrite) /\ CreateWrites(new) \in Seq(WritesOf(own2, holder2, given2, x))
  BY <1>3, <1>5, CreateOutcome, CallWritesOwned
<1>8. Found(x) # {} =>
        /\ old \in Found(x) /\ old \in Sid /\ Live(old) /\ own[old] = x
        /\ Get(old) \in SessionData /\ Known(own, holder, issued, x, Get(old))
  <2> SUFFICES ASSUME Found(x) # {}
               PROVE  /\ old \in Found(x) /\ old \in Sid /\ Live(old) /\ own[old] = x
                      /\ Get(old) \in SessionData /\ Known(own, holder, issued, x, Get(old))
    OBVIOUS
  <2>1. old \in Found(x) /\ KvTypeOK
    BY DEF KvInv
  <2> HIDE DEF old
  <2> QED BY <1>2, <2>1, FoundFacts
<1>9. Found(x) # {} =>
        /\ DeleteWrites(Get(old)) \in Seq(PendingWrite)
        /\ Deleted(kv, Get(old)) \in Maps
        /\ Outcome(DeleteWrites(Get(old)), kv, Deleted(kv, Get(old)))
        /\ DeleteWrites(Get(old)) \in Seq(WritesOf(own2, holder2, given2, x))
  <2> SUFFICES ASSUME Found(x) # {}
               PROVE  /\ DeleteWrites(Get(old)) \in Seq(PendingWrite)
                      /\ Deleted(kv, Get(old)) \in Maps
                      /\ Outcome(DeleteWrites(Get(old)), kv, Deleted(kv, Get(old)))
                      /\ DeleteWrites(Get(old)) \in Seq(WritesOf(own2, holder2, given2, x))
    OBVIOUS
  <2> HIDE DEF old, own2, holder2
  <2>1. DeleteWrites(Get(old)) \in Seq(WritesOf(own, holder, issued, x))
    BY <1>3, <1>8, CallWritesOwned
  <2>2. WritesOf(own, holder, issued, x) \subseteq WritesOf(own2, holder2, given2, x)
    BY <1>4, GivenMore
  <2>3. DeleteWrites(Get(old)) \in Seq(WritesOf(own2, holder2, given2, x))
    <3> DEFINE A == WritesOf(own, holder, issued, x)
               B == WritesOf(own2, holder2, given2, x)
    <3> HIDE DEF A, B
    <3> SUFFICES ASSUME DeleteWrites(Get(old)) \in Seq(A), A \subseteq B
                 PROVE  DeleteWrites(Get(old)) \in Seq(B)
      BY <2>1, <2>2 DEF A, B
    <3> QED OBVIOUS
  <2> QED BY <1>3, <1>8, <2>3, DeleteOutcome
<1> HIDE DEF old, own2, holder2, given2
<1>10. ws \in Seq(PendingWrite) /\ ws \in Seq(WritesOf(own2, holder2, given2, x))
  <2>1. CASE Found(x) = {}
    BY <1>7, <2>1
  <2>2. CASE Found(x) # {}
    <3>1. /\ DeleteWrites(Get(old)) \o CreateWrites(new) \in Seq(WritesOf(own2, holder2, given2, x))
      BY <1>7, <1>9, <2>2, WritesJoin
    <3>2. WritesOf(own2, holder2, given2, x) \subseteq PendingWrite
      BY DEF WritesOf
    <3>3. DeleteWrites(Get(old)) \o CreateWrites(new) \in Seq(PendingWrite)
      BY <1>7, <1>9, <2>2
    <3> QED BY <2>2, <3>1, <3>3
  <2> QED BY <2>1, <2>2
<1>11. ASSUME links, x \notin mixed, KvInFlight(x) = {}
       PROVE  \E m \in Maps : Outcome(ws, kv, m) /\ Good(x, m)
  <2>1. Good(x, kv)
    BY <1>11 DEF KvInv, ScopesSettled, ScopeSettled
  <2>2. m1 \in Maps /\ Vacant(x, m1)
    <3>1. CASE Found(x) = {}
      BY <1>3, <1>11, <2>1, <3>1, NoneVacant
    <3>2. CASE Found(x) # {}
      BY <1>2, <1>8, <1>9, <1>11, <2>1, <3>2, DeleteVacant DEF KvInv
    <3> QED BY <3>1, <3>2
  <2>3. /\ Created(m1, new) \in Maps /\ Outcome(CreateWrites(new), m1, Created(m1, new))
        /\ Good(x, Created(m1, new))
    <3> HIDE DEF m1
    <3> QED BY <1>3, <1>11, <2>2, CreateOutcome, CreateGood
  <2>4. Outcome(ws, kv, Created(m1, new))
    <3>1. CASE Found(x) = {}
      BY <2>3, <3>1
    <3>2. CASE Found(x) # {}
      <4>1. /\ Outcome(DeleteWrites(Get(old)), kv, m1) /\ ws = DeleteWrites(Get(old)) \o CreateWrites(new)
            /\ DeleteWrites(Get(old)) \in Seq(PendingWrite)
        BY <1>9, <3>2
      <4> HIDE DEF m1, ws
      <4> QED BY <1>7, <2>3, <4>1, OutcomeChain
    <3> QED BY <3>1, <3>2
  <2> QED BY <2>3, <2>4
<1> HIDE DEF ws, m1
<1>12. KvTypeOK'
  BY <1>1, <1>6, <1>10, BeginType DEF KvInv, KvTypeOK
<1>13. Owned'
  BY <1>2, <1>4, <1>6, <1>10, BeginOwned DEF KvInv, given2
<1>14. ScopesSettled'
  BY <1>6, <1>10, <1>11, BeginSettled DEF KvInv
<1> QED BY <1>12, <1>13, <1>14 DEF KvInv

\* A join that is refused after the agent's earlier session is deleted.
LEMMA RefusedJoinKeeps ==
    ASSUME KvInv, NEW c \in KvCall, RefusedJoin(c)
    PROVE  KvInv'
<1>1. PICK x \in Scope : \E old \in Found(x) : Begin(c, x, DeleteWrites(Get(old))) /\ issued' = issued
  BY DEF RefusedJoin
<1>2. PICK old \in Found(x) : Begin(c, x, DeleteWrites(Get(old))) /\ issued' = issued
  BY <1>1
<1>3. PICK own \in Owners, holder \in Holders : OwnedBy(own, holder)
  BY DEF KvInv, Owned
<1>4. /\ second \in 0 .. MaxSecond /\ kv \in Maps
      /\ Get(old) \in SessionData /\ Known(own, holder, issued, x, Get(old))
  <2>1. KvTypeOK /\ second \in 0 .. MaxSecond /\ kv \in Maps
    BY DEF KvInv, KvTypeOK, Maps
  <2> QED BY <1>3, <2>1, FoundFacts
<1>5. /\ DeleteWrites(Get(old)) \in Seq(PendingWrite) /\ Deleted(kv, Get(old)) \in Maps
      /\ Outcome(DeleteWrites(Get(old)), kv, Deleted(kv, Get(old)))
      /\ DeleteWrites(Get(old)) \in Seq(WritesOf(own, holder, issued', x))
  BY <1>2, <1>4, DeleteOutcome, CallWritesOwned
<1>6. ASSUME links, x \notin mixed, KvInFlight(x) = {}
      PROVE  \E m \in Maps : Outcome(DeleteWrites(Get(old)), kv, m) /\ Good(x, m)
  <2>1. Good(x, kv)
    BY <1>6 DEF KvInv, ScopesSettled, ScopeSettled
  <2> QED BY <1>3, <1>5, <1>6, <2>1, DeleteVacant, VacantGood DEF KvInv
<1>7. KvTypeOK'
  BY <1>2, <1>5, BeginType DEF KvInv, KvTypeOK
<1>8. Owned'
  BY <1>2, <1>3, <1>5, BeginOwned DEF KvInv
<1>9. ScopesSettled'
  BY <1>2, <1>5, <1>6, BeginSettled DEF KvInv
<1> QED BY <1>7, <1>8, <1>9 DEF KvInv

\* An update of a session the handler has the id of.
LEMMA UpdateKeeps ==
    ASSUME KvInv, NEW c \in KvCall, Update(c)
    PROVE  KvInv'
<1>1. PICK sid \in Sid, st \in {"pending", "ready", "rejected"}, hs \in SUBSET TokenHash :
        /\ hs \cap issued = {}
        /\ Live(sid)
        /\ Get(sid).status = "pending" \/ (Get(sid).status = "ready" /\ st = "rejected")
        /\ Begin(c, Get(sid).scope, UpdateWrites(Get(sid),
               [Get(sid) EXCEPT !.status = st, !.hashes = @ \cup hs]))
        /\ issued' = issued \cup hs
  BY DEF Update
<1>2. PICK own \in Owners, holder \in Holders : OwnedBy(own, holder)
  BY DEF KvInv, Owned
<1> DEFINE new == [Get(sid) EXCEPT !.status = st, !.hashes = @ \cup hs]
           x == Get(sid).scope
           ws == UpdateWrites(Get(sid), new)
           holder2 == [h \in TokenHash |-> IF h \in hs THEN sid ELSE holder[h]]
           given2 == issued'
<1>3. /\ second \in 0 .. MaxSecond /\ kv \in Maps /\ x \in Scope
      /\ Get(sid) \in SessionData /\ Known(own, holder, issued, x, Get(sid)) /\ Get(sid).id = sid
  BY <1>1, <1>2, LiveFacts DEF KvInv, KvTypeOK, Maps
<1>4. /\ new \in SessionData /\ new.id = sid /\ new.scope = x /\ new.status = st
      /\ new.created_at = Get(sid).created_at /\ new.hashes = Get(sid).hashes \cup hs
  BY <1>3 DEF SessionData
<1>5. /\ holder2 \in Holders /\ issued \subseteq given2
      /\ \A h \in issued \cap TokenHash : holder2[h] = holder[h]
  BY <1>1 DEF Holders
<1>6. Known(own, holder2, given2, x, new)
  <2>1. ASSUME NEW h \in new.hashes
        PROVE  h \in given2 /\ holder2[h] = sid
    <3>1. h \in TokenHash
      BY <1>4 DEF SessionData
    <3>2. CASE h \in hs
      BY <1>1, <3>1, <3>2
    <3>3. CASE h \notin hs
      BY <1>3, <1>4, <1>5, <3>1, <3>3 DEF Known
    <3> QED BY <3>2, <3>3
  <2> QED BY <1>3, <1>4, <1>5, <2>1 DEF Known
<1>7. Begin(c, x, ws)
  BY <1>1
<1> HIDE DEF new, x, holder2, given2
<1>8. /\ ws \in Seq(PendingWrite) /\ Updated(kv, Get(sid), new) \in Maps
      /\ Outcome(ws, kv, Updated(kv, Get(sid), new))
      /\ ws \in Seq(WritesOf(own, holder2, given2, x))
  BY <1>3, <1>4, <1>6, UpdateOutcome, CallWritesOwned
<1>9. ASSUME links, x \notin mixed, KvInFlight(x) = {}
      PROVE  \E m \in Maps : Outcome(ws, kv, m) /\ Good(x, m)
  <2>1. Good(x, kv)
    BY <1>3, <1>9 DEF KvInv, ScopesSettled, ScopeSettled
  <2>2. Good(x, Updated(kv, Get(sid), new))
    BY <1>1, <1>2, <1>4, <1>9, <2>1, UpdateGood DEF KvInv, x
  <2> QED BY <1>8, <2>2
<1> HIDE DEF ws
<1>10. KvTypeOK'
  BY <1>1, <1>3, <1>7, <1>8, BeginType DEF KvInv, KvTypeOK
<1>11. Owned'
  BY <1>2, <1>3, <1>5, <1>7, <1>8, BeginOwned DEF KvInv, given2
<1>12. ScopesSettled'
  BY <1>3, <1>7, <1>8, <1>9, BeginSettled DEF KvInv
<1> QED BY <1>10, <1>11, <1>12 DEF KvInv

LEMMA KvInitInv == KvInit => KvInv
<1> SUFFICES ASSUME KvInit PROVE KvInv
  OBVIOUS
<1>1. \A k \in Key : kv[k] = NoKey
  BY DEF KvInit
<1>2. KvTypeOK
  BY NumbersOK, SeqParts DEF KvInit, KvTypeOK
<1>3. Owned
  <2> DEFINE own == [s \in Sid |-> NoKey]
             holder == [h \in TokenHash |-> NoKey]
  <2>1. own \in Owners /\ holder \in Holders
    BY DEF Owners, Holders
  <2> HIDE DEF own, holder
  <2>2. \A c \in KvCall : todo[c] \in Seq(WritesOf(own, holder, issued, within[c]))
    BY SeqParts DEF KvInit
  <2>3. OwnedBy(own, holder)
    BY <1>1, <2>2 DEF OwnedBy, OwnedMap
  <2> QED BY <2>1, <2>3 DEF Owned
<1>4. \A x \in Scope : KvInFlight(x) = {} /\ Good(x, kv)
  <2>1. \A s \in Sid : <<"session", s>> \in Key
    BY DEF Key
  <2> QED BY <1>1, <2>1 DEF KvInit, KvInFlight, Good
<1>5. ScopesSettled
  BY <1>4 DEF ScopesSettled, ScopeSettled
<1> QED BY <1>2, <1>3, <1>5 DEF KvInv

LEMMA KvNextInv == KvInv /\ [KvNext]_kvVars => KvInv'
<1> SUFFICES ASSUME KvInv, [KvNext]_kvVars PROVE KvInv'
  OBVIOUS
<1>1. ASSUME NEW c \in KvCall, Join(c)
      PROVE  KvInv'
  BY <1>1, JoinKeeps
<1>2. ASSUME NEW c \in KvCall, RefusedJoin(c)
      PROVE  KvInv'
  BY <1>2, RefusedJoinKeeps
<1>3. ASSUME NEW c \in KvCall, Update(c)
      PROVE  KvInv'
  BY <1>3, UpdateKeeps
<1>4. ASSUME NEW c \in KvCall, Write(c)
      PROVE  KvInv'
  BY <1>4, WriteKeeps
<1>5. ASSUME NEW c \in KvCall, StopWriting(c)
      PROVE  KvInv'
  BY <1>5, StopKeeps
<1>6. ASSUME PassSecond
      PROVE  KvInv'
  BY <1>6, PassKeeps
<1>7. ASSUME UNCHANGED kvVars
      PROVE  KvInv'
  <2>1. UNCHANGED <<links, second, kv, todo, within, issued, mixed>>
    BY <1>7 DEF kvVars
  <2>2. KvTypeOK'
    BY <2>1 DEF KvInv, KvTypeOK
  <2>3. Owned'
    BY <2>1 DEF KvInv, Owned, OwnedBy
  <2>4. \A x : KvInFlight(x)' = KvInFlight(x)
    BY <2>1 DEF KvInFlight
  <2>5. \A x, m : Good(x, m) => Good(x, m)'
    BY <2>1, GoodSame
  <2>6. \A x : ScopeSettled(x) => ScopeSettled(x)'
    BY <2>1, <2>4, <2>5 DEF ScopeSettled
  <2>7. ScopesSettled'
    BY <2>1, <2>6 DEF KvInv, ScopesSettled
  <2> QED BY <2>2, <2>3, <2>7 DEF KvInv
<1> QED BY <1>1, <1>2, <1>3, <1>4, <1>5, <1>6, <1>7 DEF KvNext

\* KvSessionStore: every key belongs to one scope, and each store call leads to keys
\* that can be found.
THEOREM KvInvariant == KvSpec => []KvInv
<1>1. KvInit => KvInv
  BY KvInitInv
<1>2. KvInv /\ [KvNext]_kvVars => KvInv'
  BY KvNextInv
<1> QED BY <1>1, <1>2, PTL DEF KvSpec

\* KvSessionStore: every variable keeps its type.
THEOREM KvTypeCorrect == KvSpec => []KvTypeOK
<1>1. KvInv => KvTypeOK
  BY DEF KvInv
<1> QED BY <1>1, KvInvariant, PTL

LEMMA QuietGood ==
    ASSUME KvInv, links, NEW s \in Sid, Live(s), Quiet(Get(s).scope)
    PROVE  Good(Get(s).scope, kv) /\ Get(s).scope \in Scope /\ Get(s) \in SessionData
<1>1. Get(s).scope \in Scope /\ Get(s) \in SessionData
  BY LiveFacts DEF KvInv, Owned
<1> QED BY <1>1 DEF KvInv, ScopesSettled, ScopeSettled, Quiet

\* findByAgentKey (kv-store.ts): where the store calls of an agent and network came
\* one after the other, a live session is the one its index entry leads to, and a
\* ready one is kept for good.
THEOREM SessionsAreFound == KvSpec => []LiveIsFound
<1>1. KvInv => LiveIsFound
  <2> SUFFICES ASSUME KvInv, NEW s \in Sid, links, Live(s), Quiet(Get(s).scope)
               PROVE  /\ Found(Get(s).scope) = {s}
                      /\ Get(s).status = "ready" =>
                             /\ kv[<<"session", s>>].ends = Forever
                             /\ kv[<<"agent", Get(s).scope>>].ends = Forever
    BY DEF LiveIsFound
  <2>1. Good(Get(s).scope, kv)
    BY QuietGood
  <2>2. Found(Get(s).scope) = {s}
    BY <2>1, LiveFound
  <2> QED BY <2>1, <2>2 DEF Good, Live, Get
<1> QED BY <1>1, KvInvariant, PTL

\* SessionStore (store.ts): where every session holds a link, an agent whose store
\* calls came one after the other holds at most one live session per network.
THEOREM OneWithLinks ==
    ASSUME LinkConfig = {TRUE}
    PROVE  KvSpec => []AgentHoldsOne
<1>1. KvTypeOK => links
  BY DEF KvTypeOK
<1>2. LiveIsFound /\ links => AgentHoldsOne
  <2> SUFFICES ASSUME LiveIsFound, links, NEW s \in Sid, NEW t \in Sid, Live(s), Live(t),
                      Get(s).scope = Get(t).scope, Quiet(Get(s).scope)
               PROVE  s = t
    BY DEF AgentHoldsOne
  <2>1. Found(Get(s).scope) = {s} /\ Found(Get(t).scope) = {t}
    BY DEF LiveIsFound
  <2> QED BY <2>1
<1> QED BY <1>1, <1>2, SessionsAreFound, KvTypeCorrect, PTL

\* findByLinkHash (kv-store.ts): every link emailed for a live session that is not
\* ready opens it, however often the link was resent.
THEOREM LinksFindSessions == KvSpec => []LinksOpen
<1>1. KvInv => LinksOpen
  <2> SUFFICES ASSUME KvInv, NEW s \in Sid, links, Live(s), Get(s).status # "ready",
                      Quiet(Get(s).scope), NEW h \in Get(s).hashes
               PROVE  FoundByLink(h) = {s}
    BY DEF LinksOpen
  <2>1. Good(Get(s).scope, kv) /\ Get(s) \in SessionData
    BY QuietGood
  <2>2. second \in 0 .. MaxSecond /\ ExpiresAt(Get(s)) \in Nat
    BY <2>1, EndsOK DEF KvInv, KvTypeOK
  <2>3. kv[<<"session", s>>] # NoKey /\ ~IsExpired(Get(s)) /\ second <= ExpiresAt(Get(s))
    BY <2>2 DEF Live, Get, IsExpired
  <2>4. kv[<<"link", h>>] # NoKey /\ kv[<<"link", h>>].value = s
    BY <2>1, <2>3 DEF Good, Get
  <2> QED BY <2>4 DEF FoundByLink
<1> QED BY <1>1, KvInvariant, PTL

=============================================================================
