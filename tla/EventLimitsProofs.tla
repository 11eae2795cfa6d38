------------------------- MODULE EventLimitsProofs -------------------------
(***************************************************************************)
(* Proofs that EventLimits keeps its limits, for every number of           *)
(* reservations and over both kinds of store.                              *)
(*                                                                         *)
(* The argument over KV: an event is put before any key is listed.  Of two *)
(* reservations the one that lists later sees the other's event, so the    *)
(* one that lists last in a window has counted all the others in it.  The  *)
(* invariant therefore bounds the reservations that have PASSED a key, not *)
(* only those that are recorded.                                           *)
(***************************************************************************)
EXTENDS EventLimits, FiniteSetTheorems, TLAPS

\* The event is stored, or has lapsed.
Present(i, k) == <<i, k>> \in event \/ at[i] + Window(k) <= now

IsRecorded(i) == pc[i] \in {"held", "sent", "unsure"}

\* What a reservation's events are, by the point it has reached.
EventsOf(i) ==
    /\ \A k \in Key : <<i, k>> \in event => k \in Keys(kind[i])
    /\ pc[i] \in {"new", "out", "opens"} => \A k \in Key : <<i, k>> \notin event
    /\ pc[i] \in {"put", "list", "withdraw"} => todo[i] \subseteq Keys(kind[i])
    /\ pc[i] = "put" => \A k \in Keys(kind[i]) \ todo[i] : Present(i, k)
    /\ pc[i] = "list" \/ IsRecorded(i) => \A k \in Keys(kind[i]) : Present(i, k)
    /\ pc[i] = "withdraw" => \A k \in Key : <<i, k>> \in event => k \in todo[i]

Timely(i) ==
    /\ at[i] <= now
    /\ pc[i] \in {"put", "list"} => now <= at[i] + Delay

Fresh(i) == pc[i] \in {"new", "put"} => ~wait[i]

Bookkeeping == \A i \in Reservation : EventsOf(i) /\ Timely(i) /\ Fresh(i)

\* The reservations that key k did not make wait.
Passed(k) ==
    {i \in Reservation :
        /\ k \in Keys(kind[i])
        /\ IsRecorded(i) \/ (pc[i] = "list" /\ k \notin todo[i] /\ ~wait[i])}

InWindow(k, y) ==
    {i \in Passed(k) : y - (Window(k) - Delay) < at[i] /\ at[i] <= y}

PassedLimited ==
    \A k \in Key : Limited(k) =>
        \A y \in Int : Cardinality(InWindow(k, y)) <= Cap(k)

PassedSpaced ==
    \A k \in Key : Spaced(k) =>
        \A i, j \in Passed(k) :
            i # j => at[i] + Gap(k) <= at[j] \/ at[j] + Gap(k) <= at[i]

-----------------------------------------------------------------------------
(* Keys and limits.                                                        *)

\* The keys of a reservation are keys.
LEMMA KeysType ==
    ASSUME NEW kd \in Kind
    PROVE  Keys(kd) \subseteq Key
BY DEF Kind, Keys, Key, BilledSessions

\* Windows, intervals and limits are numbers.
LEMMA LimitsType ==
    ASSUME NEW k \in Key
    PROVE  /\ Window(k) \in Nat
           /\ Gap(k) \in Nat
           /\ Limited(k) => Cap(k) \in Nat
           /\ Spaced(k) => Limited(k)
BY LimitsAssumption DEF Key, Window, Gap, Cap, Limited, Spaced

\* A reservation reads a limited key over the window of its limit.
LEMMA TtlIsWindow ==
    ASSUME NEW kd \in Kind, NEW k \in Keys(kd), Limited(k)
    PROVE  Ttl(kd) = Window(k) /\ kd.type # "open"
BY DEF Kind, Keys, Ttl, Window, Limited, BilledSessions

\* A time-to-live is a number.
LEMMA TtlType ==
    ASSUME NEW kd \in Kind
    PROVE  Ttl(kd) \in Nat
BY LimitsAssumption DEF Kind, Ttl

-----------------------------------------------------------------------------
(* Counting.                                                               *)

\* The events under k let a reservation at time t pass.
Admitted(i, k, t) ==
    LET S == Earlier(i, k, t, Window(k))
    IN  /\ t <= now /\ now <= t + Delay
        /\ ~(Cardinality(S) >= Cap(k))
        /\ Spaced(k) => \A j \in S : ~(at[j] + Gap(k) > t)

\* A step of reservation i alone, which passes a limited key only when the
\* events under it let it.
Move(i) ==
    /\ \A j \in Reservation \ {i} :
          /\ at'[j] = at[j] /\ kind'[j] = kind[j] /\ pc'[j] = pc[j]
          /\ todo'[j] = todo[j] /\ wait'[j] = wait[j]
    /\ \A k \in Key : Limited(k) /\ i \in Passed(k)' =>
          (i \in Passed(k) /\ at'[i] = at[i]) \/ Admitted(i, k, at'[i])

\* A step of i makes no other reservation pass.
LEMMA OthersPassed ==
    ASSUME NEW i \in Reservation, Move(i), NEW k \in Key
    PROVE  \A j \in Passed(k)' : j # i => j \in Passed(k) /\ at'[j] = at[j]
BY DEF Move, Passed, IsRecorded

\* A passed reservation whose event could lie in the window of t is seen
\* there, or is so old that it has lapsed.
LEMMA PassedIsSeen ==
    ASSUME TypeOK, Bookkeeping, NEW i \in Reservation, NEW k \in Key,
           NEW t \in Nat, now <= t + Delay,
           NEW j \in Passed(k), j # i
    PROVE  \/ j \in Earlier(i, k, t, Window(k))
           \/ at[j] <= t - (Window(k) - Delay)
<1>1. Present(j, k)
  BY DEF Passed, Bookkeeping, EventsOf
<1>2. at[j] \in Nat /\ now \in Nat /\ Window(k) \in Nat /\ Delay \in Nat
  BY LimitsType, LimitsAssumption DEF TypeOK, Passed
<1>3. CASE at[j] + Window(k) <= now
  BY <1>2, <1>3
<1>4. CASE <<j, k>> \in event /\ at[j] > t - Window(k)
  BY <1>4 DEF Earlier, Passed
<1>5. CASE at[j] <= t - Window(k)
  BY <1>2, <1>5
<1> QED
  BY <1>1, <1>2, <1>3, <1>4, <1>5 DEF Present

\* Such a step keeps the limit: i has counted all others in its window.
LEMMA LimitedMove ==
    ASSUME TypeOK, TypeOK', Bookkeeping, PassedLimited,
           NEW i \in Reservation, Move(i)
    PROVE  PassedLimited'
<1> SUFFICES ASSUME NEW k \in Key, Limited(k), NEW y \in Int
             PROVE  Cardinality(InWindow(k, y)') <= Cap(k)
  BY DEF PassedLimited
<1> DEFINE now_in == InWindow(k, y)
           then_in == InWindow(k, y)'
<1>1. IsFiniteSet(now_in) /\ Cardinality(now_in) \in Nat /\ Cap(k) \in Nat
  BY LimitsAssumption, FS_Subset, FS_CardinalityType, LimitsType DEF InWindow, Passed
<1>2. Cardinality(now_in) <= Cap(k)
  BY DEF PassedLimited
<1>3. then_in \subseteq now_in \cup {i}
  BY OthersPassed DEF InWindow
<1>4. CASE i \notin then_in \/ i \in now_in
  <2>1. then_in \subseteq now_in
    BY <1>3, <1>4
  <2> HIDE DEF now_in, then_in
  <2>2. Cardinality(then_in) \in Nat /\ Cardinality(then_in) <= Cardinality(now_in)
    BY <2>1, <1>1, FS_Subset, FS_CardinalityType
  <2> QED
    BY <2>2, <1>1, <1>2 DEF then_in
<1>5. CASE i \in then_in /\ i \notin now_in
  <2> DEFINE S == Earlier(i, k, at'[i], Window(k))
  <2>1. i \in Passed(k)' /\ y - (Window(k) - Delay) < at'[i] /\ at'[i] <= y
    BY <1>5 DEF InWindow
  <2>2. Admitted(i, k, at'[i])
    BY <1>5, <2>1 DEF Move, InWindow
  <2>3. at'[i] \in Nat /\ Window(k) \in Nat /\ Delay \in Nat
    BY LimitsType, LimitsAssumption DEF TypeOK
  <2>4. then_in \subseteq S \cup {i}
    <3> SUFFICES ASSUME NEW j \in then_in, j # i
                 PROVE  j \in S
      OBVIOUS
    <3>1. j \in Passed(k) /\ at'[j] = at[j] /\ y - (Window(k) - Delay) < at'[j]
      BY OthersPassed DEF InWindow
    <3>2. at[j] \in Nat
      BY <3>1 DEF TypeOK, Passed
    <3>3. ~(at[j] <= at'[i] - (Window(k) - Delay))
      BY <3>1, <3>2, <2>1, <2>3
    <3> QED
      BY <3>1, <3>3, <2>2, <2>3, PassedIsSeen DEF Admitted
  <2>5. IsFiniteSet(S) /\ Cardinality(S) \in Nat /\ i \notin S
    BY LimitsAssumption, FS_Subset, FS_CardinalityType DEF Earlier
  <2>6. Cardinality(S) < Cap(k)
    BY <2>2, <2>5, <1>1 DEF Admitted
  <2> HIDE DEF S, then_in, now_in
  <2>7. IsFiniteSet(S \cup {i}) /\ Cardinality(S \cup {i}) = Cardinality(S) + 1
    BY <2>5, FS_AddElement
  <2>8. Cardinality(then_in) \in Nat /\ Cardinality(then_in) <= Cardinality(S \cup {i})
    BY <2>4, <2>7, FS_Subset, FS_CardinalityType
  <2> QED
    BY <2>5, <2>6, <2>7, <2>8, <1>1 DEF then_in
<1> QED
  BY <1>4, <1>5

\* A limit's interval fits into its window.
GapsFit == \A k \in Key : Spaced(k) => Gap(k) + Delay <= Window(k)

\* Such a step keeps the interval: i is shown every event within it.
LEMMA SpacedMove ==
    ASSUME TypeOK, TypeOK', Bookkeeping, PassedSpaced, GapsFit,
           NEW i \in Reservation, Move(i)
    PROVE  PassedSpaced'
<1>1. ASSUME NEW k \in Key, Spaced(k), NEW j \in Passed(k)', j # i,
             i \in Passed(k)'
      PROVE  at'[i] + Gap(k) <= at'[j] \/ at'[j] + Gap(k) <= at'[i]
  <2>1. j \in Passed(k) /\ at'[j] = at[j]
    BY <1>1, OthersPassed
  <2>2. Limited(k) /\ Gap(k) \in Nat /\ Window(k) \in Nat /\ Delay \in Nat
        /\ at[j] \in Nat /\ at'[i] \in Nat
    BY <1>1, <2>1, LimitsType, LimitsAssumption DEF TypeOK, Passed
  <2>3. CASE i \in Passed(k) /\ at'[i] = at[i]
    BY <2>1, <2>3, <1>1 DEF PassedSpaced
  <2>4. CASE Admitted(i, k, at'[i])
    <3>1. CASE j \in Earlier(i, k, at'[i], Window(k))
      BY <3>1, <2>1, <2>2, <2>4, <1>1 DEF Admitted
    <3>2. CASE at[j] <= at'[i] - (Window(k) - Delay)
      <4>1. Gap(k) + Delay <= Window(k)
        BY <1>1 DEF GapsFit
      <4> QED
        BY <3>2, <4>1, <2>1, <2>2
    <3> QED
      BY <3>1, <3>2, <2>1, <2>2, <2>4, <1>1, PassedIsSeen DEF Admitted
  <2> QED
    BY <2>2, <2>3, <2>4, <1>1 DEF Move
<1>2. ASSUME NEW k \in Key, Spaced(k), NEW j \in Passed(k)', NEW h \in Passed(k)',
             j # i, h # i, j # h
      PROVE  at'[j] + Gap(k) <= at'[h] \/ at'[h] + Gap(k) <= at'[j]
  BY <1>2, OthersPassed DEF PassedSpaced
<1> QED
  BY <1>1, <1>2 DEF PassedSpaced

-----------------------------------------------------------------------------
(* Each step of a reservation.                                             *)

\* Only the state of reservation i changes.
Alone(i) ==
    /\ now' = now
    /\ \A j \in Reservation \ {i} :
          /\ at'[j] = at[j] /\ kind'[j] = kind[j] /\ pc'[j] = pc[j]
          /\ todo'[j] = todo[j] /\ wait'[j] = wait[j]
          /\ \A k \in Key : <<j, k>> \in event' <=> <<j, k>> \in event

\* It passes a limited key only when the events under it let it.
Enters(i) ==
    \A k \in Key : Limited(k) /\ i \in Passed(k)' =>
        (i \in Passed(k) /\ at'[i] = at[i]) \/ Admitted(i, k, at'[i])

\* What every step of i keeps.
Kept(i) ==
    TypeOK' /\ Alone(i) /\ EventsOf(i)' /\ Timely(i)' /\ Fresh(i)' /\ Enters(i)

\* Memory and SQLite look at every key and record in one step.
LEMMA ReserveKeeps ==
    ASSUME TypeOK, Bookkeeping, NEW i \in Reservation, NEW kd \in Kind, Reserve(i, kd)
    PROVE  Kept(i)
<1> DEFINE waits == \E k \in Keys(kd) :
                        MustWait(kd, k, now, Earlier(i, k, now, Ttl(kd)))
<1>1. /\ kind' = [kind EXCEPT ![i] = kd] /\ at' = [at EXCEPT ![i] = now]
      /\ wait' = [wait EXCEPT ![i] = waits] /\ UNCHANGED <<store, now, todo>>
      /\ waits \in BOOLEAN
  BY DEF Reserve
<1>2. \/ /\ waits \/ kd.type = "open"
         /\ pc' = [pc EXCEPT ![i] = Withdrawn(kd, waits)] /\ event' = event
      \/ /\ ~waits
         /\ pc' = [pc EXCEPT ![i] = Recorded(kd)]
         /\ event' = event \cup ({i} \X Keys(kd))
  BY DEF Reserve
<1>3. pc[i] = "new" /\ (\A k \in Key : <<i, k>> \notin event) /\ Keys(kd) \subseteq Key
  BY KeysType DEF Reserve, Bookkeeping, EventsOf
<1>4. ASSUME NEW k \in Key, Limited(k), i \in Passed(k)'
      PROVE  Admitted(i, k, at'[i])
  <2>1. kind'[i] = kd /\ at'[i] = now /\ now \in Nat
    BY <1>1 DEF TypeOK
  <2>2. k \in Keys(kd)
    BY <1>4, <2>1 DEF Passed
  <2>3. ~waits
    <3>1. pc'[i] \in {"held", "sent", "unsure", "list"}
      BY <1>4 DEF Passed, IsRecorded
    <3> HIDE DEF waits
    <3> QED
      BY <3>1, <1>2, <2>2, <1>4, TtlIsWindow DEF TypeOK, Withdrawn
  <2>4. ~MustWait(kd, k, now, Earlier(i, k, now, Window(k)))
    BY <2>2, <2>3, <1>4, TtlIsWindow
  <2> QED
    BY <2>1, <2>2, <2>4, <1>4, TtlIsWindow, LimitsAssumption DEF MustWait, Admitted
<1>5. pc' \in [Reservation -> PC] /\ pc'[i] \in {"out", "opens", "held", "sent"}
  <2> HIDE DEF waits
  <2> QED
    BY <1>2 DEF TypeOK, PC, Withdrawn, Recorded
<1> HIDE DEF waits
<1>6. TypeOK' /\ Alone(i)
  BY <1>1, <1>2, <1>3, <1>5 DEF TypeOK, Alone
<1>7. EventsOf(i)'
  <2>1. CASE event' = event /\ pc'[i] \in {"out", "opens"}
    BY <2>1, <1>3 DEF EventsOf, IsRecorded
  <2>2. CASE event' = event \cup ({i} \X Keys(kd)) /\ pc'[i] \in {"held", "sent"}
    <3>1. kind'[i] = kd
      BY <1>1 DEF TypeOK
    <3>2. \A k \in Key : <<i, k>> \in event' <=> k \in Keys(kd)
      BY <2>2, <1>3
    <3> QED
      BY <2>2, <1>3, <3>1, <3>2 DEF EventsOf, Present
  <2> QED
    BY <1>2, <2>1, <2>2 DEF TypeOK, Withdrawn, Recorded
<1>8. Timely(i)' /\ Fresh(i)'
  BY <1>1, <1>5 DEF Timely, Fresh, TypeOK
<1> QED
  BY <1>4, <1>6, <1>7, <1>8 DEF Kept, Enters

\* A reservation on KV begins with nothing stored.
LEMMA BeginKeeps ==
    ASSUME TypeOK, Bookkeeping, NEW i \in Reservation, NEW kd \in Kind, Begin(i, kd)
    PROVE  Kept(i)
<1>1. pc[i] = "new" /\ (\A k \in Key : <<i, k>> \notin event) /\ Keys(kd) \subseteq Key
  BY KeysType DEF Begin, Bookkeeping, EventsOf
<1>2. TypeOK' /\ Alone(i)
  BY <1>1 DEF TypeOK, Alone, Begin, PC
<1>3. pc'[i] = "put" /\ todo'[i] = Keys(kd) /\ kind'[i] = kd /\ event' = event
      /\ at'[i] = now /\ wait'[i] = wait[i] /\ now' = now
  BY DEF Begin, TypeOK
<1>4. EventsOf(i)'
  BY <1>1, <1>3 DEF EventsOf, IsRecorded
<1>5. Timely(i)' /\ Fresh(i)'
  BY <1>1, <1>3, LimitsAssumption DEF Timely, Fresh, TypeOK, Bookkeeping
<1> QED
  BY <1>2, <1>3, <1>4, <1>5 DEF Kept, Enters, Passed, IsRecorded

\* KV puts one event; the key counts as done, and only then lists begin.
LEMMA PutKeeps ==
    ASSUME TypeOK, Bookkeeping, NEW i \in Reservation, NEW k \in Key, Put(i, k)
    PROVE  Kept(i)
<1> DEFINE left == todo[i] \ {k}
<1>1. /\ pc[i] = "put" /\ k \in todo[i] /\ event' = event \cup {<<i, k>>}
      /\ UNCHANGED <<store, now, kind, at, wait>>
      /\ Keys(kind[i]) \subseteq Key /\ kind[i] \in Kind
  BY KeysType DEF Put, IsNext, TypeOK
<1>2. \/ todo' = [todo EXCEPT ![i] = left] /\ pc' = pc /\ left # {}
      \/ /\ todo' = [todo EXCEPT ![i] = Keys(kind[i])] /\ left = {}
         /\ pc' = [pc EXCEPT ![i] = "list"]
  BY DEF Put
<1>3. TypeOK' /\ Alone(i)
  BY <1>1, <1>2 DEF TypeOK, Alone, PC
<1>4. /\ \A h \in Key : <<i, h>> \in event => h \in Keys(kind[i])
      /\ \A h \in Keys(kind[i]) \ todo[i] : Present(i, h)
      /\ Timely(i) /\ ~wait[i]
  BY <1>1 DEF Bookkeeping, EventsOf, Fresh
<1>5. EventsOf(i)'
  <2>1. /\ \A h \in Key : <<i, h>> \in event' <=> <<i, h>> \in event \/ h = k
        /\ \A h \in Key : Present(i, h) \/ h = k => Present(i, h)'
        /\ kind'[i] = kind[i] /\ k \in Keys(kind[i]) /\ todo[i] \subseteq Keys(kind[i])
    BY <1>1 DEF Present, Bookkeeping, EventsOf
  <2>2. CASE todo' = [todo EXCEPT ![i] = left] /\ pc' = pc
    <3>1. todo'[i] = todo[i] \ {k} /\ pc'[i] = "put"
      BY <1>1, <2>2 DEF TypeOK
    <3> QED
      BY <1>1, <1>4, <2>1, <3>1 DEF EventsOf, IsRecorded
  <2>3. CASE /\ todo' = [todo EXCEPT ![i] = Keys(kind[i])] /\ left = {}
             /\ pc' = [pc EXCEPT ![i] = "list"]
    <3>1. todo'[i] = Keys(kind[i]) /\ pc'[i] = "list"
      BY <2>3 DEF TypeOK
    <3> QED
      BY <1>1, <1>4, <2>1, <2>3, <3>1 DEF EventsOf, IsRecorded
  <2> QED
    BY <1>2, <2>2, <2>3
<1>6. pc'[i] \in {"put", "list"} /\ (pc'[i] = "list" => todo'[i] = Keys(kind[i]))
  BY <1>1, <1>2 DEF TypeOK
<1>7. Timely(i)' /\ Fresh(i)'
  BY <1>1, <1>4, <1>6 DEF Timely, Fresh
<1>8. Enters(i)
  BY <1>1, <1>6 DEF Enters, Passed, IsRecorded
<1> QED
  BY <1>3, <1>5, <1>7, <1>8 DEF Kept

\* KV lists one key: the reservation passes it if the events there let it.
LEMMA ListKeeps ==
    ASSUME TypeOK, Bookkeeping, NEW i \in Reservation, NEW k \in Key, List(i, k)
    PROVE  Kept(i)
<1> DEFINE left == todo[i] \ {k}
           waits == wait[i] \/ MustWait(kind[i], k, at[i],
                                        Earlier(i, k, at[i], Ttl(kind[i])))
<1>1. /\ pc[i] = "list" /\ k \in todo[i] /\ event' = event /\ waits \in BOOLEAN
      /\ UNCHANGED <<store, now, kind, at>> /\ wait' = [wait EXCEPT ![i] = waits]
      /\ Keys(kind[i]) \subseteq Key /\ kind[i] \in Kind
  <2>1. wait[i] \in BOOLEAN
    BY DEF TypeOK
  <2> QED
    BY <2>1, KeysType DEF List, IsNext, TypeOK
<1>2. \/ /\ todo' = [todo EXCEPT ![i] = left] /\ pc' = pc
      \/ /\ todo' = [todo EXCEPT ![i] = Keys(kind[i])] /\ pc' = [pc EXCEPT ![i] = "withdraw"]
      \/ /\ todo' = [todo EXCEPT ![i] = {}] /\ left = {} /\ ~waits
         /\ pc' = [pc EXCEPT ![i] = Recorded(kind[i])]
  BY DEF List
<1>3. /\ todo[i] \subseteq Keys(kind[i]) /\ at[i] <= now /\ now <= at[i] + Delay
      /\ \A h \in Key : <<i, h>> \in event => h \in Keys(kind[i])
      /\ \A h \in Keys(kind[i]) : Present(i, h)
  BY <1>1 DEF Bookkeeping, EventsOf, Timely
<1>4. ASSUME NEW h \in Key, Limited(h), i \in Passed(h)', i \notin Passed(h)
      PROVE  Admitted(i, h, at'[i])
  <2>1. h \in Keys(kind[i]) /\ (pc'[i] = "list" => ~wait'[i] /\ h \notin todo'[i])
        /\ pc'[i] \in {"list", "held", "sent", "unsure"}
    BY <1>1, <1>4 DEF Passed, IsRecorded
  <2>2. ~waits
    <3> HIDE DEF waits
    <3> QED
      BY <1>1, <1>2, <2>1 DEF TypeOK
  <2>3. h = k
    <3>1. h \in todo[i]
      BY <1>1, <1>4, <2>1, <2>2 DEF Passed
    <3> HIDE DEF waits
    <3>2. pc'[i] = "list" => todo'[i] = left
      BY <1>1, <1>2 DEF TypeOK, Recorded
    <3>3. pc'[i] # "list" => left = {}
      BY <1>1, <1>2, <2>1 DEF TypeOK
    <3> QED
      BY <2>1, <3>1, <3>2, <3>3
  <2>4. ~MustWait(kind[i], k, at[i], Earlier(i, k, at[i], Window(k)))
    BY <2>1, <2>2, <2>3, <1>1, <1>4, TtlIsWindow
  <2>5. kind[i].type # "open"
    BY <2>1, <1>1, <1>4, TtlIsWindow
  <2> QED
    BY <1>1, <1>3, <1>4, <2>3, <2>4, <2>5 DEF MustWait, Admitted
<1> HIDE DEF waits
<1>5. TypeOK' /\ Alone(i)
  BY <1>1, <1>2 DEF TypeOK, Alone, PC, Recorded
<1>6. pc'[i] \in {"list", "withdraw", "held", "sent"} /\ kind'[i] = kind[i]
      /\ todo'[i] \subseteq Keys(kind[i])
      /\ (pc'[i] = "withdraw" => todo'[i] = Keys(kind[i]))
  BY <1>1, <1>2, <1>3 DEF TypeOK, Recorded
<1>7. EventsOf(i)'
  <2>1. \A h \in Key : Present(i, h)' <=> Present(i, h)
    BY <1>1 DEF Present
  <2> QED
    BY <1>1, <1>3, <1>6, <2>1 DEF EventsOf, IsRecorded
<1>8. Timely(i)' /\ Fresh(i)'
  BY <1>1, <1>3, <1>6 DEF Timely, Fresh
<1>9. Enters(i)
  BY <1>1, <1>4 DEF Enters, TypeOK
<1> QED
  BY <1>5, <1>7, <1>8, <1>9 DEF Kept

\* A withdrawal ends with no event of the reservation left.
LEMMA WithdrawKeeps ==
    ASSUME TypeOK, Bookkeeping, NEW i \in Reservation, NEW k \in Key, Withdraw(i, k)
    PROVE  Kept(i)
<1>1. /\ pc[i] = "withdraw" /\ k \in todo[i] /\ event' = event \ {<<i, k>>}
      /\ UNCHANGED <<store, now, kind, at, wait>>
      /\ todo' = [todo EXCEPT ![i] = todo[i] \ {k}]
  BY DEF Withdraw, IsNext
<1>2. \/ pc' = pc
      \/ todo[i] \ {k} = {} /\ pc' = [pc EXCEPT ![i] = Withdrawn(kind[i], wait[i])]
  BY DEF Withdraw
<1>3. /\ todo[i] \subseteq Keys(kind[i]) /\ at[i] <= now
      /\ \A h \in Key : <<i, h>> \in event => h \in Keys(kind[i]) /\ h \in todo[i]
  BY <1>1 DEF Bookkeeping, EventsOf, Timely
<1>4. TypeOK' /\ Alone(i)
  BY <1>1, <1>2 DEF TypeOK, Alone, PC, Withdrawn
<1>5. todo'[i] = todo[i] \ {k} /\ (pc'[i] = "withdraw" \/ todo'[i] = {})
      /\ pc'[i] \in {"withdraw", "out", "opens"}
  BY <1>1, <1>2 DEF TypeOK, Withdrawn
<1>6. \A h \in Key : <<i, h>> \in event' => h \in Keys(kind[i]) /\ h \in todo'[i]
  BY <1>1, <1>3, <1>5
<1>7. EventsOf(i)'
  BY <1>1, <1>3, <1>5, <1>6 DEF EventsOf, IsRecorded
<1>8. Timely(i)' /\ Fresh(i)' /\ Enters(i)
  BY <1>1, <1>3, <1>5 DEF Timely, Fresh, Enters, Passed, IsRecorded
<1> QED
  BY <1>4, <1>7, <1>8 DEF Kept

\* A reservation that stops half way leaves what it had stored.
LEMMA StopKeeps ==
    ASSUME TypeOK, Bookkeeping, NEW i \in Reservation, Stop(i)
    PROVE  Kept(i)
<1>1. /\ pc[i] \in {"put", "list", "withdraw", "held"}
      /\ UNCHANGED <<store, now, kind, at, todo, wait, event>>
      /\ pc' = [pc EXCEPT ![i] = IF pc[i] = "held" THEN "unsure" ELSE "stopped"]
  BY DEF Stop
<1>2. TypeOK' /\ Alone(i)
  BY <1>1 DEF TypeOK, Alone, PC
<1>3. IF pc[i] = "held" THEN pc'[i] = "unsure" ELSE pc'[i] = "stopped"
  BY <1>1 DEF TypeOK
<1>4. \A h \in Key : Present(i, h)' <=> Present(i, h)
  BY <1>1 DEF Present
<1>5. EventsOf(i) /\ Timely(i)
  BY DEF Bookkeeping
<1>6. EventsOf(i)'
  <2>1. /\ \A h \in Key : <<i, h>> \in event' => h \in Keys(kind'[i])
        /\ pc[i] = "held" => \A h \in Keys(kind'[i]) : Present(i, h)
        /\ Keys(kind[i]) \subseteq Key /\ kind'[i] = kind[i]
    BY <1>1, <1>5, KeysType DEF EventsOf, IsRecorded, TypeOK
  <2> QED
    BY <1>3, <1>4, <2>1 DEF EventsOf, IsRecorded
<1>7. Timely(i)' /\ Fresh(i)' /\ Enters(i)
  BY <1>1, <1>3, <1>5 DEF Timely, Fresh, Enters, Passed, IsRecorded
<1> QED
  BY <1>2, <1>6, <1>7 DEF Kept

\* A sent email keeps the events it was recorded with.
LEMMA SendKeeps ==
    ASSUME TypeOK, Bookkeeping, NEW i \in Reservation, Send(i)
    PROVE  Kept(i)
<1>1. /\ pc[i] = "held" /\ pc' = [pc EXCEPT ![i] = "sent"]
      /\ UNCHANGED <<store, now, kind, at, todo, wait, event>>
  BY DEF Send
<1>2. TypeOK' /\ Alone(i)
  BY <1>1 DEF TypeOK, Alone, PC
<1>3. pc'[i] = "sent" /\ EventsOf(i) /\ Timely(i)
  BY <1>1 DEF TypeOK, Bookkeeping
<1>4. \A h \in Key : Present(i, h)' <=> Present(i, h)
  BY <1>1 DEF Present
<1>5. EventsOf(i)'
  <2>1. /\ \A h \in Key : <<i, h>> \in event' => h \in Keys(kind'[i])
        /\ \A h \in Keys(kind'[i]) : Present(i, h)
        /\ Keys(kind[i]) \subseteq Key /\ kind'[i] = kind[i]
    BY <1>1, <1>3, KeysType DEF EventsOf, IsRecorded, TypeOK
  <2> QED
    BY <1>3, <1>4, <2>1 DEF EventsOf, IsRecorded
<1>6. Timely(i)' /\ Fresh(i)' /\ Enters(i)
  BY <1>1, <1>3 DEF Timely, Fresh, Enters, Passed, IsRecorded
<1> QED
  BY <1>2, <1>5, <1>6 DEF Kept

\* A failed email starts to withdraw, or has withdrawn, its own events.
LEMMA SendFailsKeeps ==
    ASSUME TypeOK, Bookkeeping, NEW i \in Reservation, SendFails(i)
    PROVE  Kept(i)
<1>1. /\ pc[i] = "held" /\ UNCHANGED <<store, now, kind, at, wait>>
      /\ \/ /\ pc' = [pc EXCEPT ![i] = "withdraw"] /\ event' = event
            /\ todo' = [todo EXCEPT ![i] = Keys(kind[i])]
         \/ /\ pc' = [pc EXCEPT ![i] = "out"] /\ todo' = todo
            /\ event' = event \ ({i} \X Keys(kind[i]))
  BY DEF SendFails
<1>2. Keys(kind[i]) \subseteq Key /\ EventsOf(i) /\ Timely(i)
  BY KeysType DEF TypeOK, Bookkeeping
<1>3. TypeOK' /\ Alone(i)
  BY <1>1, <1>2 DEF TypeOK, Alone, PC
<1>4. /\ pc'[i] \in {"withdraw", "out"} /\ kind'[i] = kind[i]
      /\ pc'[i] = "withdraw" => todo'[i] = Keys(kind[i]) /\ event' = event
      /\ pc'[i] = "out" => event' = event \ ({i} \X Keys(kind[i]))
  BY <1>1 DEF TypeOK
<1>5. EventsOf(i)'
  <2>1. \A h \in Key : <<i, h>> \in event => h \in Keys(kind[i])
    BY <1>2 DEF EventsOf
  <2>2. \A h \in Key : <<i, h>> \in event' => h \in Keys(kind[i]) /\ pc'[i] = "withdraw"
    BY <1>4, <2>1
  <2> QED
    BY <1>4, <2>2 DEF EventsOf, IsRecorded
<1>6. Timely(i)' /\ Fresh(i)' /\ Enters(i)
  BY <1>1, <1>2, <1>4 DEF Timely, Fresh, Enters, Passed, IsRecorded
<1> QED
  BY <1>3, <1>5, <1>6 DEF Kept

\* A lapsed event counts as present, whether or not it is still stored.
LEMMA LapseKeeps ==
    ASSUME TypeOK, Bookkeeping, NEW i \in Reservation, NEW k \in Key, Lapse(i, k)
    PROVE  Kept(i)
<1>1. /\ at[i] + Window(k) <= now /\ event' = event \ {<<i, k>>}
      /\ UNCHANGED <<store, now, kind, at, pc, todo, wait>>
  BY DEF Lapse
<1>2. EventsOf(i) /\ Timely(i) /\ Fresh(i) /\ Keys(kind[i]) \subseteq Key
  BY KeysType DEF TypeOK, Bookkeeping
<1>3. TypeOK' /\ Alone(i)
  BY <1>1 DEF TypeOK, Alone
<1>4. \A h \in Key : (Present(i, h) => Present(i, h)') /\ (<<i, h>> \in event' => <<i, h>> \in event)
  BY <1>1 DEF Present
<1>5. EventsOf(i)'
  BY <1>1, <1>2, <1>4 DEF EventsOf, IsRecorded
<1>6. Timely(i)' /\ Fresh(i)'
  BY <1>1, <1>2 DEF Timely, Fresh
<1>7. Enters(i)
  BY <1>1 DEF Enters, Passed, IsRecorded
<1> QED
  BY <1>3, <1>5, <1>6, <1>7 DEF Kept

\* Every action of a reservation keeps its bookkeeping.
LEMMA StepKeeps ==
    ASSUME TypeOK, Bookkeeping, NEW i \in Reservation, Step(i)
    PROVE  Kept(i)
BY ReserveKeeps, BeginKeeps, PutKeeps, ListKeeps, WithdrawKeeps, LapseKeeps,
   SendKeeps, SendFailsKeeps, StopKeeps DEF Step

-----------------------------------------------------------------------------
(* The inductive invariant and the theorems.                               *)

\* The other reservations keep theirs, since nothing of them changes.
LEMMA AloneKeepsBookkeeping ==
    ASSUME TypeOK, Bookkeeping, NEW i \in Reservation, Kept(i)
    PROVE  Bookkeeping' /\ Move(i)
<1>1. ASSUME NEW j \in Reservation, j # i
      PROVE  EventsOf(j)' /\ Timely(j)' /\ Fresh(j)'
  <2>1. /\ at'[j] = at[j] /\ kind'[j] = kind[j] /\ pc'[j] = pc[j] /\ now' = now
        /\ todo'[j] = todo[j] /\ wait'[j] = wait[j]
        /\ \A k \in Key : <<j, k>> \in event' <=> <<j, k>> \in event
    BY <1>1 DEF Kept, Alone
  <2>2. EventsOf(j) /\ Timely(j) /\ Fresh(j) /\ Keys(kind[j]) \subseteq Key
    BY KeysType DEF TypeOK, Bookkeeping
  <2>3. \A k \in Key : Present(j, k)' <=> Present(j, k)
    BY <2>1 DEF Present
  <2>4. EventsOf(j)'
    BY <2>1, <2>2, <2>3 DEF EventsOf, IsRecorded
  <2> QED
    BY <2>1, <2>2, <2>4 DEF Timely, Fresh
<1>2. EventsOf(i)' /\ Timely(i)' /\ Fresh(i)'
  BY DEF Kept
<1> QED
  BY <1>1, <1>2 DEF Bookkeeping, Move, Kept, Alone, Enters

\* Time passes: what was present stays so, and nothing passes a key.
LEMMA TickKeeps ==
    ASSUME TypeOK, Bookkeeping, Tick
    PROVE  TypeOK' /\ Bookkeeping' /\ (\A k \in Key : Passed(k)' = Passed(k)) /\ at' = at
<1>1. /\ now' = now + 1 /\ UNCHANGED <<store, kind, at, pc, todo, wait, event>>
      /\ \A i \in Reservation : pc[i] \in {"put", "list"} => now < at[i] + Delay
  BY DEF Tick
<1>2. TypeOK'
  BY <1>1 DEF TypeOK
<1>3. ASSUME NEW i \in Reservation PROVE EventsOf(i)' /\ Timely(i)' /\ Fresh(i)'
  <2>1. EventsOf(i) /\ Timely(i) /\ Fresh(i) /\ Keys(kind[i]) \subseteq Key
    BY KeysType DEF TypeOK, Bookkeeping
  <2>2. at[i] \in Nat /\ now \in Nat /\ Delay \in Nat
    BY LimitsAssumption DEF TypeOK
  <2>3. \A k \in Key : Present(i, k) => Present(i, k)'
    <3>1. \A k \in Key : Window(k) \in Nat
      BY LimitsType
    <3> QED
      BY <1>1, <2>2, <3>1 DEF Present
  <2>4. EventsOf(i)'
    BY <1>1, <2>1, <2>3 DEF EventsOf, IsRecorded
  <2>5. Timely(i)' /\ Fresh(i)'
    BY <1>1, <2>1, <2>2 DEF Timely, Fresh
  <2> QED
    BY <2>4, <2>5
<1> QED
  BY <1>1, <1>2, <1>3 DEF Bookkeeping, Passed, IsRecorded

\* No reservation has begun.
LEMMA InitHolds ==
    ASSUME Init
    PROVE  TypeOK /\ Bookkeeping /\ PassedLimited /\ PassedSpaced
<1>1. TypeOK
  BY DEF Init, TypeOK, PC, Kind
<1>2. Bookkeeping
  BY LimitsAssumption DEF Init, Bookkeeping, EventsOf, Timely, Fresh, IsRecorded
<1>3. \A k \in Key : Passed(k) = {}
  BY DEF Init, Passed, IsRecorded
<1>4. PassedLimited
  <2> SUFFICES ASSUME NEW k \in Key, Limited(k), NEW y \in Int
               PROVE  Cardinality(InWindow(k, y)) <= Cap(k)
    BY DEF PassedLimited
  <2>1. InWindow(k, y) = {}
    BY <1>3 DEF InWindow
  <2> QED
    BY <2>1, FS_EmptySet, LimitsType
<1> QED
  BY <1>1, <1>2, <1>3, <1>4 DEF PassedSpaced

\* The events of every reservation are what its progress says, over both
\* kinds of store: those of a recorded one are stored until they lapse, those
\* of one that ended without recording are gone.
THEOREM TypeCorrect == Spec => [](TypeOK /\ Bookkeeping)
<1>1. Init => TypeOK /\ Bookkeeping
  BY InitHolds
<1>2. TypeOK /\ Bookkeeping /\ [Next]_vars => TypeOK' /\ Bookkeeping'
  <2> SUFFICES ASSUME TypeOK, Bookkeeping, [Next]_vars PROVE TypeOK' /\ Bookkeeping'
    OBVIOUS
  <2>1. CASE Tick
    BY <2>1, TickKeeps
  <2>2. ASSUME NEW i \in Reservation, Step(i) PROVE TypeOK' /\ Bookkeeping'
    BY <2>2, StepKeeps, AloneKeepsBookkeeping DEF Kept
  <2>3. CASE UNCHANGED vars
    BY <2>3 DEF vars, TypeOK, Bookkeeping, EventsOf, Timely, Fresh, IsRecorded, Present
  <2> QED
    BY <2>1, <2>2, <2>3 DEF Next
<1> QED
  BY <1>1, <1>2, PTL DEF Spec

\* However the reservations interleave, and whichever of them stop half way,
\* no window of a limit holds more of them than the limit.
THEOREM LimitsHold == Spec => []LimitKept
<1>1. Init => PassedLimited
  BY InitHolds
<1>2. TypeOK /\ Bookkeeping /\ TypeOK' /\ PassedLimited /\ [Next]_vars => PassedLimited'
  <2> SUFFICES ASSUME TypeOK, Bookkeeping, TypeOK', PassedLimited, [Next]_vars
               PROVE  PassedLimited'
    OBVIOUS
  <2>1. CASE Tick
    <3>1. \A k \in Key, y \in Int : InWindow(k, y)' = InWindow(k, y)
      BY <2>1, TickKeeps DEF InWindow
    <3> QED
      BY <3>1 DEF PassedLimited
  <2>2. ASSUME NEW i \in Reservation, Step(i) PROVE PassedLimited'
    BY <2>2, StepKeeps, AloneKeepsBookkeeping, LimitedMove
  <2>3. CASE UNCHANGED vars
    BY <2>3 DEF vars, PassedLimited, InWindow, Passed, IsRecorded
  <2> QED
    BY <2>1, <2>2, <2>3 DEF Next
<1>3. TypeOK /\ PassedLimited => LimitKept
  <2> SUFFICES ASSUME TypeOK, PassedLimited,
                      NEW k \in Key, NEW x \in Reservation, Limited(k)
               PROVE  Cardinality({i \in Counted(k) :
                          at[x] - (Window(k) - Delay) < at[i] /\ at[i] <= at[x]}) <= Cap(k)
    BY DEF LimitKept
  <2>1. at[x] \in Int
    BY DEF TypeOK
  <2>2. {i \in Counted(k) : at[x] - (Window(k) - Delay) < at[i] /\ at[i] <= at[x]}
          \subseteq InWindow(k, at[x])
    BY DEF Counted, InWindow, Passed, IsRecorded
  <2>3. IsFiniteSet(InWindow(k, at[x]))
    BY LimitsAssumption, FS_Subset DEF InWindow, Passed
  <2>4. Cardinality(InWindow(k, at[x])) <= Cap(k)
    BY <2>1 DEF PassedLimited
  <2> DEFINE counted == {i \in Counted(k) :
                            at[x] - (Window(k) - Delay) < at[i] /\ at[i] <= at[x]}
  <2>5. counted \subseteq InWindow(k, at[x])
    BY <2>2
  <2> HIDE DEF counted
  <2>6. /\ Cardinality(counted) \in Nat /\ Cardinality(InWindow(k, at[x])) \in Nat
        /\ Cardinality(counted) <= Cardinality(InWindow(k, at[x]))
    BY <2>3, <2>5, FS_Subset, FS_CardinalityType
  <2>7. Cardinality(counted) <= Cap(k)
    BY <2>4, <2>6, LimitsType
  <2> QED
    BY <2>7 DEF counted
<1> QED
  BY <1>1, <1>2, <1>3, TypeCorrect, PTL DEF Spec

\* Two emails to one address, and two presses of one Continue button, are
\* their interval apart, when the interval and the time a reservation takes
\* fit into the window that is read.
THEOREM SpacingHolds == ASSUME GapsFit PROVE Spec => []SpacingKept
<1>1. Init => PassedSpaced
  BY InitHolds
<1>2. TypeOK /\ Bookkeeping /\ TypeOK' /\ PassedSpaced /\ [Next]_vars => PassedSpaced'
  <2> SUFFICES ASSUME TypeOK, Bookkeeping, TypeOK', PassedSpaced, [Next]_vars
               PROVE  PassedSpaced'
    OBVIOUS
  <2>1. CASE Tick
    BY <2>1, TickKeeps DEF PassedSpaced
  <2>2. ASSUME NEW i \in Reservation, Step(i) PROVE PassedSpaced'
    BY <2>2, StepKeeps, AloneKeepsBookkeeping, SpacedMove
  <2>3. CASE UNCHANGED vars
    BY <2>3 DEF vars, PassedSpaced, Passed, IsRecorded
  <2> QED
    BY <2>1, <2>2, <2>3 DEF Next
<1>3. PassedSpaced => SpacingKept
  BY DEF PassedSpaced, SpacingKept, Passed, Counted, IsRecorded
<1> QED
  BY <1>1, <1>2, <1>3, TypeCorrect, PTL DEF Spec

\* A reservation that was refused, and an email that failed to send, leave no
\* event behind that would count against the next one.
THEOREM NothingIsLeft == Spec => []RefusedLeavesNothing
<1>1. Bookkeeping => RefusedLeavesNothing
  BY DEF Bookkeeping, EventsOf, RefusedLeavesNothing
<1> QED
  BY <1>1, TypeCorrect, PTL

\* Where a billed session is remembered for a day at least, Continue opens no
\* session while as many as the daily limit were found billed.
THEOREM BilledCapHolds == ASSUME LinkTtl >= Day PROVE Spec => BilledCapKept
<1> DEFINE k == BilledSessions
<1>1. k \in Key /\ Window(k) = Day /\ Day \in Nat /\ PerDay \in Nat
  BY LimitsAssumption DEF Key, BilledSessions, Window
<1>2. ASSUME TypeOK, Bookkeeping, Next, NEW i \in Reservation, LetsOpen(i)
      PROVE  Cardinality(BilledInDay) < PerDay
  <2> DEFINE S(t) == Earlier(i, k, t, Day)
  <2>1. PICK t \in Nat : t <= now /\ ~(Cardinality(S(t)) >= PerDay)
    <3>1. CASE \E kd \in Kind : Reserve(i, kd)
      <4>1. PICK kd \in Kind : Reserve(i, kd)
        BY <3>1
      <4>2. kind'[i] = kd /\ kd.type = "open"
        BY <4>1, <1>2 DEF Reserve, LetsOpen, TypeOK
      <4>3. k \in Keys(kd) /\ Ttl(kd) = Day
        BY <4>2 DEF Keys, Ttl
      <4>4. ~(\E h \in Keys(kd) : MustWait(kd, h, now, Earlier(i, h, now, Ttl(kd))))
        <5> DEFINE waits == \E h \in Keys(kd) : MustWait(kd, h, now, Earlier(i, h, now, Ttl(kd)))
        <5>1. wait' = [wait EXCEPT ![i] = waits]
          BY <4>1 DEF Reserve
        <5> HIDE DEF waits
        <5>2. ~waits
          BY <5>1, <1>2 DEF LetsOpen, TypeOK
        <5> QED
          BY <5>2 DEF waits
      <4>5. ~MustWait(kd, k, now, S(now))
        BY <4>3, <4>4
      <4> QED
        BY <4>2, <4>5, <1>2 DEF MustWait, TypeOK
    <3>2. CASE \E h \in Key : List(i, h)
      <4>1. PICK h \in Key : List(i, h)
        BY <3>2
      <4>2. kind'[i] = kind[i] /\ kind[i].type = "open" /\ pc[i] = "list"
        BY <4>1, <1>2 DEF List, LetsOpen
      <4>3. Keys(kind[i]) = {k} /\ Ttl(kind[i]) = Day
        BY <4>2 DEF Keys, Ttl
      <4>4. h = k
        BY <4>1, <4>2, <4>3, <1>2 DEF List, IsNext, Bookkeeping, EventsOf
      <4> DEFINE waits == wait[i] \/ MustWait(kind[i], h, at[i],
                                              Earlier(i, h, at[i], Ttl(kind[i])))
      <4>5. wait' = [wait EXCEPT ![i] = waits]
        BY <4>1 DEF List
      <4>6. ~waits
        <5> HIDE DEF waits
        <5> QED
          BY <4>5, <1>2 DEF LetsOpen, TypeOK
      <4>7. ~MustWait(kind[i], k, at[i], S(at[i]))
        BY <4>3, <4>4, <4>6
      <4> QED
        BY <4>2, <4>7, <1>2 DEF MustWait, TypeOK, Bookkeeping, Timely
    <3> QED
      <4>1. pc'[i] # pc[i] /\ pc[i] \in {"new", "list"} /\ pc'[i] \in {"opens", "withdraw"}
        BY <1>2 DEF LetsOpen
      <4>2. ~Tick
        BY <4>1 DEF Tick
      <4>3. PICK j \in Reservation : Step(j)
        BY <4>2, <1>2 DEF Next
      <4>4. j = i
        BY <4>1, <4>3, <1>2, StepKeeps DEF Kept, Alone
      <4>5. /\ ~Send(i) /\ ~SendFails(i) /\ ~Stop(i)
            /\ \A kd \in Kind : ~Begin(i, kd)
            /\ \A h \in Key : ~Put(i, h) /\ ~Withdraw(i, h) /\ ~Lapse(i, h)
        <5>1. ~Send(i) /\ ~SendFails(i) /\ ~Stop(i)
          BY <4>1, <1>2 DEF Send, SendFails, Stop, TypeOK
        <5>2. \A kd \in Kind : ~Begin(i, kd)
          BY <4>1, <1>2 DEF Begin, TypeOK
        <5>3. \A h \in Key : ~Put(i, h) /\ ~Withdraw(i, h) /\ ~Lapse(i, h)
          BY <4>1 DEF Put, Withdraw, Lapse
        <5> QED
          BY <5>1, <5>2, <5>3
      <4> QED
        BY <3>1, <3>2, <4>3, <4>4, <4>5 DEF Step
  <2>2. BilledInDay \subseteq S(t)
    <3> SUFFICES ASSUME NEW j \in BilledInDay
                 PROVE  j \in S(t)
      OBVIOUS
    <3>1. j \in Reservation /\ kind[j].type = "billed" /\ pc[j] = "sent" /\ at[j] > now - Day
      BY DEF BilledInDay
    <3>2. k \in Keys(kind[j])
      BY <3>1 DEF Keys
    <3>3. Present(j, k)
      BY <3>1, <3>2, <1>2 DEF Bookkeeping, EventsOf, IsRecorded
    <3>4. at[j] \in Nat /\ now \in Nat
      BY <3>1, <1>2 DEF TypeOK
    <3>5. <<j, k>> \in event /\ at[j] > t - Day
      BY <3>1, <3>3, <3>4, <2>1, <1>1 DEF Present
    <3>6. j # i
      BY <3>1, <1>2 DEF LetsOpen
    <3> QED
      BY <3>1, <3>5, <3>6 DEF Earlier
  <2>3. IsFiniteSet(S(t))
    BY LimitsAssumption, FS_Subset DEF Earlier
  <2> HIDE DEF S
  <2>4. /\ Cardinality(BilledInDay) \in Nat /\ Cardinality(S(t)) \in Nat
        /\ Cardinality(BilledInDay) <= Cardinality(S(t))
    BY <2>2, <2>3, FS_Subset, FS_CardinalityType
  <2> QED
    BY <2>1, <2>4, <1>1
<1>3. TypeOK /\ Bookkeeping /\ [Next]_vars =>
        [\A i \in Reservation : LetsOpen(i) => Cardinality(BilledInDay) < PerDay]_vars
  BY <1>2
<1> QED
  BY <1>3, TypeCorrect, PTL DEF Spec, BilledCapKept
=============================================================================
