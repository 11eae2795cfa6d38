---------------------------- MODULE EventLimits ----------------------------
(***************************************************************************)
(* The limits of the emailed Didit links: emails to an address and for an  *)
(* agent key, Continue presses of a challenge, billed Didit sessions.      *)
(* Each is a reservation of events in the session store (reserveEvents and *)
(* removeEvents) by auth-methods/didit-with-email.ts.                      *)
(*                                                                         *)
(* The memory and the SQLite store reserve in one step.  The KV store puts *)
(* its events, lists every key, and deletes its events again if it has to  *)
(* wait; other reservations act between any two of these calls.            *)
(*                                                                         *)
(* Abstracted: a reservation that is refused is not told how long to wait, *)
(* and KV lists a new key at once, which Cloudflare does not promise.      *)
(***************************************************************************)
EXTENDS Integers, FiniteSets

CONSTANTS
    Reservation,  \* the calls of reserveEvents, each made once
    Address,      \* link.subject_id of an email
    Agent,        \* agent keys
    Challenge,    \* link challenges, each with its Continue button
    DiditSession,
    Stores,       \* the stores to look at: "atomic" (memory, SQLite), "kv"
    Day, Hour,    \* DAY_MS and HOUR_MS
    LinkTtl,      \* didit.link_ttl_seconds
    PerAddress, PerAgent, PerHour, PerDay,
    ResendInterval, ContinueSpacing,
    Delay,        \* how long the KV calls of one reservation may take
    MaxTime       \* bound: the clock stops here

ASSUME LimitsAssumption ==
    /\ Stores \subseteq {"atomic", "kv"}
    /\ {Day, Hour, LinkTtl, PerAddress, PerAgent, PerHour, PerDay,
        ResendInterval, ContinueSpacing} \subseteq Nat \ {0}
    /\ Delay \in Nat /\ MaxTime \in Nat
    /\ IsFiniteSet(Reservation)

NoOne == "no one"

Key == [of : {"email"}, who : Address] \cup [of : {"agent"}, who : Agent]
         \cup [of : {"continue"}, who : Challenge]
         \cup [of : {"billed"}, who : DiditSession]
         \cup [of : {"create"}, who : {NoOne}]

BilledSessions == [of |-> "create", who |-> NoOne]

\* What is reserved: an email, a Continue press, a session found billed; and
\* the count that decides whether Continue may open another session.
Kind == [type : {"email"}, address : Address, agent : Agent]
          \cup [type : {"continue"}, challenge : Challenge]
          \cup [type : {"billed"}, session : DiditSession]
          \cup [type : {"open"}]

\* Mutant: a billed session is recorded under its own key only.
KeysBilledAlone(kd) ==
    CASE kd.type = "email" -> {[of |-> "email", who |-> kd.address],
                               [of |-> "agent", who |-> kd.agent]}
      [] kd.type = "continue" -> {[of |-> "continue", who |-> kd.challenge]}
      [] kd.type = "billed" -> {[of |-> "billed", who |-> kd.session]}
      [] kd.type = "open" -> {BilledSessions}

Keys(kd) ==
    CASE kd.type = "email" -> {[of |-> "email", who |-> kd.address],
                               [of |-> "agent", who |-> kd.agent]}
      [] kd.type = "continue" -> {[of |-> "continue", who |-> kd.challenge]}
      [] kd.type = "billed" -> {[of |-> "billed", who |-> kd.session],
                                BilledSessions}
      [] kd.type = "open" -> {BilledSessions}

\* The ttlMs a reservation is made with.
Ttl(kd) ==
    CASE kd.type \in {"email", "open"} -> Day
      [] kd.type = "continue" -> Hour
      [] kd.type = "billed" -> LinkTtl

\* The limits, by key.  Recording a billed session looks at the session's
\* own key only, so the key that counts them all has none.
Limited(k) == k.of # "create"
Spaced(k) == k.of \in {"email", "continue"}

Cap(k) ==
    CASE k.of = "email" -> PerAddress
      [] k.of = "agent" -> PerAgent
      [] k.of = "continue" -> PerHour
      [] k.of = "billed" -> 1

Gap(k) == IF k.of = "email" THEN ResendInterval ELSE ContinueSpacing

Window(k) ==
    CASE k.of \in {"email", "agent"} -> Day
      [] k.of = "continue" -> Hour
      [] k.of = "billed" -> LinkTtl
      [] k.of = "create" -> IF LinkTtl < Day THEN LinkTtl ELSE Day

VARIABLES
    store,  \* the session store, chosen once
    now,    \* the clock
    kind,   \* what each reservation is for
    at,     \* the time it carries
    pc,     \* where it is
    todo,   \* the keys it has yet to put, list or delete
    wait,   \* whether a list has told it to wait
    event   \* the stored events, each a reservation and a key

vars == <<store, now, kind, at, pc, todo, wait, event>>

PC == {"new", "put", "list", "withdraw", "held", "sent", "unsure", "out",
       "opens", "stopped"}

TypeOK ==
    /\ store \in Stores
    /\ now \in Nat
    /\ kind \in [Reservation -> Kind]
    /\ at \in [Reservation -> Nat]
    /\ pc \in [Reservation -> PC]
    /\ todo \in [Reservation -> SUBSET Key]
    /\ wait \in [Reservation -> BOOLEAN]
    /\ event \subseteq Reservation \X Key

Init ==
    /\ store \in Stores
    /\ now = 0
    /\ kind = [i \in Reservation |-> [type |-> "open"]]
    /\ at = [i \in Reservation |-> 0]
    /\ pc = [i \in Reservation |-> "new"]
    /\ todo = [i \in Reservation |-> {}]
    /\ wait = [i \in Reservation |-> FALSE]
    /\ event = {}

-----------------------------------------------------------------------------
\* Mutant: only events no later than the reservation's own time count.
EarlierOnly(i, k, t, ttl) ==
    {j \in Reservation \ {i} :
        <<j, k>> \in event /\ at[j] > t - ttl /\ at[j] <= t}

\* The events under key k that a reservation at time t is shown.
Earlier(i, k, t, ttl) ==
    {j \in Reservation \ {i} : <<j, k>> \in event /\ at[j] > t - ttl}

\* limitWait, allow and the callbacks of the billed sessions: whether the
\* events S under key k make a reservation at time t wait.
MustWait(kd, k, t, S) ==
    IF kd.type = "open" THEN Cardinality(S) >= PerDay
    ELSE /\ Limited(k)
         /\ \/ Cardinality(S) >= Cap(k)
            \/ Spaced(k) /\ \E j \in S : at[j] + Gap(k) > t

\* Where a reservation stands once its events are recorded: the email goes
\* out, or nothing is left to do.
Recorded(kd) == IF kd.type = "email" THEN "held" ELSE "sent"

\* Where it stands once they are gone.  "open" reserves nothing: it withdraws
\* in any case and goes by the count it saw.
Withdrawn(kd, waits) == IF kd.type = "open" /\ ~waits THEN "opens" ELSE "out"

-----------------------------------------------------------------------------
(* Memory and SQLite.                                                      *)

Reserve(i, kd) ==
    LET waits == \E k \in Keys(kd) : MustWait(kd, k, now, Earlier(i, k, now, Ttl(kd)))
    IN  /\ store = "atomic"
        /\ pc[i] = "new"
        /\ kind' = [kind EXCEPT ![i] = kd]
        /\ at' = [at EXCEPT ![i] = now]
        /\ wait' = [wait EXCEPT ![i] = waits]
        /\ IF waits \/ kd.type = "open"
           THEN /\ pc' = [pc EXCEPT ![i] = Withdrawn(kd, waits)]
                /\ UNCHANGED event
           ELSE /\ pc' = [pc EXCEPT ![i] = Recorded(kd)]
                /\ event' = event \cup ({i} \X Keys(kd))
        /\ UNCHANGED <<store, now, todo>>

-----------------------------------------------------------------------------
(* KV: one call per key and phase, in the order the keys are given in.     *)

\* Key k is the first of those left.
IsNext(k, left) ==
    /\ k \in left
    /\ k.of \in {"agent", "create"} => left = {k}

Begin(i, kd) ==
    /\ store = "kv"
    /\ pc[i] = "new"
    /\ kind' = [kind EXCEPT ![i] = kd]
    /\ at' = [at EXCEPT ![i] = now]
    /\ pc' = [pc EXCEPT ![i] = "put"]
    /\ todo' = [todo EXCEPT ![i] = Keys(kd)]
    /\ UNCHANGED <<store, now, wait, event>>

Put(i, k) ==
    LET left == todo[i] \ {k}
    IN  /\ pc[i] = "put"
        /\ IsNext(k, todo[i])
        /\ event' = event \cup {<<i, k>>}
        /\ IF left # {}
           THEN todo' = [todo EXCEPT ![i] = left] /\ UNCHANGED pc
           ELSE todo' = [todo EXCEPT ![i] = Keys(kind[i])]
                /\ pc' = [pc EXCEPT ![i] = "list"]
        /\ UNCHANGED <<store, now, kind, at, wait>>

List(i, k) ==
    LET left == todo[i] \ {k}
        waits == wait[i] \/ MustWait(kind[i], k, at[i],
                                     Earlier(i, k, at[i], Ttl(kind[i])))
    IN  /\ pc[i] = "list"
        /\ IsNext(k, todo[i])
        /\ wait' = [wait EXCEPT ![i] = waits]
        /\ IF left # {}
           THEN todo' = [todo EXCEPT ![i] = left] /\ UNCHANGED pc
           ELSE IF waits \/ kind[i].type = "open"
           THEN todo' = [todo EXCEPT ![i] = Keys(kind[i])]
                /\ pc' = [pc EXCEPT ![i] = "withdraw"]
           ELSE todo' = [todo EXCEPT ![i] = {}]
                /\ pc' = [pc EXCEPT ![i] = Recorded(kind[i])]
        /\ UNCHANGED <<store, now, kind, at, event>>

\* Mutant: every event of that time under the key goes.
WithdrawAllOfTime(i, k) ==
    LET left == todo[i] \ {k}
    IN  /\ pc[i] = "withdraw"
        /\ IsNext(k, todo[i])
        /\ event' = {e \in event : e[2] # k \/ at[e[1]] # at[i]}
        /\ todo' = [todo EXCEPT ![i] = left]
        /\ pc' = IF left # {} THEN pc
                 ELSE [pc EXCEPT ![i] = Withdrawn(kind[i], wait[i])]
        /\ UNCHANGED <<store, now, kind, at, wait>>

Withdraw(i, k) ==
    LET left == todo[i] \ {k}
    IN  /\ pc[i] = "withdraw"
        /\ IsNext(k, todo[i])
        /\ event' = event \ {<<i, k>>}
        /\ todo' = [todo EXCEPT ![i] = left]
        /\ pc' = IF left # {} THEN pc
                 ELSE [pc EXCEPT ![i] = Withdrawn(kind[i], wait[i])]
        /\ UNCHANGED <<store, now, kind, at, wait>>

\* A KV call fails, or the handler's process stops.
Stop(i) ==
    /\ pc[i] \in {"put", "list", "withdraw", "held"}
    /\ pc' = [pc EXCEPT ![i] = IF pc[i] = "held" THEN "unsure" ELSE "stopped"]
    /\ UNCHANGED <<store, now, kind, at, todo, wait, event>>

-----------------------------------------------------------------------------
(* The email.                                                              *)

Send(i) ==
    /\ pc[i] = "held"
    /\ pc' = [pc EXCEPT ![i] = "sent"]
    /\ UNCHANGED <<store, now, kind, at, todo, wait, event>>

\* Mutant: the events of an email that was not sent stay.
SendFailsKeeping(i) ==
    /\ pc[i] = "held"
    /\ pc' = [pc EXCEPT ![i] = "out"]
    /\ UNCHANGED <<store, now, kind, at, todo, wait, event>>

\* The email was not sent: its events are given back.
SendFails(i) ==
    /\ pc[i] = "held"
    /\ IF store = "kv"
       THEN /\ pc' = [pc EXCEPT ![i] = "withdraw"]
            /\ todo' = [todo EXCEPT ![i] = Keys(kind[i])]
            /\ UNCHANGED event
       ELSE /\ pc' = [pc EXCEPT ![i] = "out"]
            /\ event' = event \ ({i} \X Keys(kind[i]))
            /\ UNCHANGED todo
    /\ UNCHANGED <<store, now, kind, at, wait>>

-----------------------------------------------------------------------------
\* A store drops an event some time after it has lapsed: KV by itself, SQLite
\* and memory at a later reservation.
Lapse(i, k) ==
    /\ <<i, k>> \in event
    /\ at[i] + Window(k) <= now
    /\ event' = event \ {<<i, k>>}
    /\ UNCHANGED <<store, now, kind, at, pc, todo, wait>>

\* Time passes; the calls of one reservation take no longer than Delay.
Tick ==
    /\ now < MaxTime                                             \* bound
    /\ \A i \in Reservation : pc[i] \in {"put", "list"} => now < at[i] + Delay
    /\ now' = now + 1
    /\ UNCHANGED <<store, kind, at, pc, todo, wait, event>>

Step(i) ==
    \/ \E kd \in Kind : Reserve(i, kd) \/ Begin(i, kd)
    \/ \E k \in Key : Put(i, k) \/ List(i, k) \/ Withdraw(i, k) \/ Lapse(i, k)
    \/ Send(i) \/ SendFails(i) \/ Stop(i)

Next == Tick \/ \E i \in Reservation : Step(i)

Spec == Init /\ [][Next]_vars

-----------------------------------------------------------------------------
(* Properties.                                                             *)

\* The reservations that count against key k: recorded, and not given back.
Counted(k) ==
    {i \in Reservation : pc[i] \in {"held", "sent", "unsure"} /\ k \in Keys(kind[i])}

\* However reservations interleave, no window holds more emails to one
\* address or for one agent key, Continue presses of one challenge, or records
\* of one billed session than its limit.  A reservation that took Delay to
\* list may miss an event that lapsed meanwhile, so windows are that shorter.
LimitKept ==
    \A k \in Key, x \in Reservation : Limited(k) =>
        Cardinality({i \in Counted(k) :
            at[x] - (Window(k) - Delay) < at[i] /\ at[i] <= at[x]}) <= Cap(k)

\* Two emails to one address, and two Continue presses of one challenge, are
\* at least their interval apart, whichever of the two was reserved first.
SpacingKept ==
    \A k \in Key : Spaced(k) =>
        \A i, j \in Counted(k) :
            i # j => at[i] + Gap(k) <= at[j] \/ at[j] + Gap(k) <= at[i]

\* Neither a refused email nor one that fails to send counts: once its
\* handler has ended, no event of it is left.
RefusedLeavesNothing ==
    \A i \in Reservation, k \in Key : pc[i] \in {"out", "opens"} => <<i, k>> \notin event

\* The sessions found billed in the last 24 hours.
BilledInDay ==
    {i \in Reservation : kind[i].type = "billed" /\ pc[i] = "sent" /\ at[i] > now - Day}

\* The step that lets Continue go on to open a Didit session.
LetsOpen(i) ==
    /\ kind'[i].type = "open" /\ ~wait'[i]
    /\ pc[i] \in {"new", "list"} /\ pc'[i] \in {"opens", "withdraw"}

\* Continue opens no session once as many as the daily limit were found
\* billed in the last 24 hours.
BilledCapKept ==
    [][\A i \in Reservation : LetsOpen(i) => Cardinality(BilledInDay) < PerDay]_vars
=============================================================================
