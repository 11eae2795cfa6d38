------------------------- MODULE LinkChallengeProofs -------------------------
(***************************************************************************)
(* Proofs about a join with an emailed link, for every number of sessions, *)
(* tokens and requests in flight, and over both stores: that it completes  *)
(* only from a Didit session that is approved and its own, that its        *)
(* progress and its tokens survive every merge, and, where each request    *)
(* has a copy, that its state is the recorded session's.                   *)
(*                                                                         *)
(* The argument: any request may save what it holds over what any other    *)
(* saved, at any time.  So the invariant is asked of the stored challenge  *)
(* and of every object in flight alike (Sound), a request only ever        *)
(* advances the object it holds (Advance), and the merge takes one side    *)
(* whole and only adds tokens.  Where requests share an object, those with *)
(* the same age hold the same one (Objects), so that what one makes of it  *)
(* is fit for all.  What an answer of Didit tells stays true however late  *)
(* it is applied, of the session it was asked for (Tells); with copies     *)
(* that session is the recorded one, and without them nothing says so.     *)
(***************************************************************************)
EXTENDS LinkChallenge, TLAPS

\* The session is approved and names this join's key.
OwnApproved(d) ==
    /\ d \in Verification
    /\ verif[d].status = "Approved"
    /\ verif[d].owner = "this key"

\* The sessions whose approval may have completed an attempt of that id.
Completers(id) == IF Shared THEN Verification ELSE {id}

Consistent(cs) ==
    /\ cs.state = IF ~Recorded(cs) THEN "link_sent" ELSE StateOf(cs.attempt.status)
    /\ cs.attempt.id # NoVerification =>
           verif[cs.attempt.id].status \in Onward[cs.attempt.status]

\* What every challenge tells, the stored one and those in flight.
Sound(cs) ==
    /\ cs.attempt.id = NoVerification => cs.attempt = NoAttempt
    /\ cs.attempt.recorded_at <= moment /\ cs.attempt.read_at <= moment
    /\ cs.completed =>
           /\ cs.attempt.id # NoVerification
           /\ \E d \in Completers(cs.attempt.id) : OwnApproved(d)
    /\ ~Shared => Consistent(cs)

\* What a decision tells of the session it was asked for, whenever it is applied.
Tells(dec, id) ==
    /\ id \in Verification /\ dec \in DiditSession \cup {NoDecision}
    /\ dec # NoDecision => verif[id].status \in Onward[dec.status]
    /\ dec.status = "Approved" /\ Mine(dec) => OwnApproved(id)

BeforeCompletion == {"ask", "apply", "list", "rows", "judge", "create", "opened"}

\* What a request has at each of its waits, with the challenge cs in hand.
Fits(pc, cs, asked, answer, rows) ==
    /\ Sound(cs)
    /\ \A r \in rows : StateOf(r[2]) \in States
    /\ pc \in {"ask", "apply"} => asked.id \in Verification /\ cs.attempt.id # NoVerification
    /\ pc = "finish" => cs.completed
    /\ pc \in {"apply", "judge"} => Tells(answer, asked.id)
    /\ pc = "opened" =>
          /\ answer \in [id : Verification, status : {"Not Started", "In Progress"}]
          /\ verif[answer.id].status \in Onward[answer.status]
    /\ ~Shared =>
          /\ pc \in BeforeCompletion => ~cs.completed
          /\ pc \in {"ask", "apply"} => Recorded(cs) /\ asked.id = cs.attempt.id

Holds(p) == p # Idle => Fits(p.pc, p.cs, p.asked, p.answer, p.rows)

\* Requests of one age hold one object, and those of age 0 the stored one.
Objects ==
    Shared => \A c \in LinkCall : press[c] # Idle =>
        /\ press[c].age = 0 => press[c].cs = chal
        /\ \A k \in LinkCall :
               press[k] # Idle /\ press[k].age = press[c].age => press[k].cs = press[c].cs

Inv ==
    /\ TypeOK
    /\ Sound(chal)
    /\ \A c \in LinkCall : Holds(press[c])
    /\ Objects
    /\ joinStatus = "ready" => chal.completed
    /\ TokensKept

\* What a challenge may become.
Advance(a, b) ==
    /\ a.completed => b.completed
    /\ a.tokens \subseteq b.tokens
    /\ a.attempt.id # NoVerification => b.attempt.id # NoVerification
    /\ ~b.completed =>
           IF b.attempt.id # a.attempt.id
           THEN b.attempt.recorded_at >= a.attempt.recorded_at
           ELSE b.attempt.read_at >= a.attempt.read_at

\* c may go on as next with its object made new.
May(c, next, new) ==
    /\ press[c] # Idle /\ next \in InFlight \cup {Idle} /\ new \in Challenge
    /\ Sound(new) /\ Advance(press[c].cs, new)
    /\ next # Idle =>
          /\ next.age = press[c].age
          /\ Fits(next.pc, new, next.asked, next.answer, next.rows)

\* ProgressKept, of one step.
Progress ==
    /\ chal.completed => chal'.completed
    /\ ~chal'.completed =>
           IF chal'.attempt.id # chal.attempt.id
           THEN chal'.attempt.recorded_at >= chal.attempt.recorded_at
           ELSE chal'.attempt.read_at >= chal.attempt.read_at

\* Didit takes nothing back: an approval stays, a session only moves on.
Onwards ==
    /\ store' = store
    /\ moment \in Moment /\ moment' \in Moment /\ moment' >= moment
    /\ \A d \in Verification : OwnApproved(d) => OwnApproved(d)'
    /\ \A d \in Verification, s \in DiditStatuses :
           verif[d].status \in Onward[s] => verif'[d].status \in Onward[s]

----------------------------------------------------------------------------
(* Shapes *)

\* Moments are ordered.
LEMMA MomentOrder == \A n \in Moment : n \in Nat /\ n >= n
BY LinkAssumption DEF Moment

\* What each status at Didit is shown as.
LEMMA StatusStates ==
    /\ StateOf("Not Started") = "in_progress" /\ StateOf("In Progress") = "in_progress"
    /\ StateOf("In Review") = "in_review" /\ StateOf("Declined") = "declined"
    /\ StateOf("Approved") = "approved" /\ StateOf("unheard of") = "none"
BY DEF StateOf

\* A session had the status it has, a move is onward, and no session has no status.
LEMMA OnwardMoves ==
    /\ \A s \in DiditStatuses : s \in Onward[s] /\ Onward[s] \subseteq DiditStatuses
    /\ \A s, u, t \in DiditStatuses : u \in Onward[s] /\ t \in Moves[u] => t \in Onward[s]
    /\ \A s \in DiditStatuses : NoDecision.status \notin Onward[s]
<1>1. \A s \in DiditStatuses : s \in Onward[s] /\ Onward[s] \subseteq DiditStatuses
  BY DEF Onward, DiditStatuses
<1>2. ASSUME NEW s \in DiditStatuses, NEW u \in DiditStatuses, NEW t \in DiditStatuses,
             u \in Onward[s], t \in Moves[u]
      PROVE  t \in Onward[s]
  BY <1>2 DEF Onward, Moves, DiditStatuses
<1>3. NoDecision.status \notin DiditStatuses
  BY DEF NoDecision, DiditStatuses
<1> QED BY <1>1, <1>2, <1>3

\* The fields of a challenge and of its attempt.
LEMMA ChallengeShape ==
    ASSUME NEW cs \in Challenge
    PROVE  /\ cs.state \in States /\ cs.completed \in BOOLEAN /\ cs.tokens \subseteq Token
           /\ cs.attempt \in Attempt
           /\ cs.attempt.id \in Verification \cup {NoVerification}
           /\ cs.attempt.status \in DiditStatuses
           /\ cs.attempt.recorded_at \in Moment /\ cs.attempt.read_at \in Moment
           /\ cs.attempt.gone \in BOOLEAN
           /\ Recorded(cs) => cs.attempt.id \in Verification
BY DEF Challenge, Attempt, Recorded

\* The fields of a request in flight.
LEMMA InFlightShape ==
    ASSUME NEW p \in InFlight
    PROVE  /\ p # Idle
           /\ p.cs \in Challenge /\ p.age \in Nat
           /\ p.op \in {"press", "poll", "done", "resend"}
           /\ p.pc \in BeforeCompletion \cup {"finish", "mail"}
           /\ p.rows \in SUBSET (Verification \X DiditStatuses)
<1>1. "pc" \in DOMAIN p /\ "pc" \notin DOMAIN Idle
  BY DEF InFlight, Idle
<1> QED BY <1>1 DEF InFlight, BeforeCompletion

\* The request in flight of one call.
LEMMA InHand ==
    ASSUME Inv, NEW c \in LinkCall, press[c] # Idle
    PROVE  /\ press[c] \in InFlight /\ press[c].cs \in Challenge
           /\ press[c].age \in Nat
           /\ Fits(press[c].pc, press[c].cs, press[c].asked, press[c].answer, press[c].rows)
           /\ Sound(press[c].cs)
BY InFlightShape DEF Inv, TypeOK, Holds, Fits

\* What is sound stays so while Didit takes nothing back.
LEMMA SoundFrame ==
    ASSUME NEW cs \in Challenge, Sound(cs), Onwards
    PROVE  Sound(cs)'
<1>1. cs.attempt.recorded_at <= moment' /\ cs.attempt.read_at <= moment'
  BY ChallengeShape, LinkAssumption DEF Sound, Onwards, Moment
<1>2. ~Shared => Consistent(cs)'
  BY ChallengeShape DEF Sound, Consistent, Onwards, Recorded, Shared
<1>3. cs.completed => \E d \in Completers(cs.attempt.id) : OwnApproved(d)'
  BY DEF Sound, Onwards, OwnApproved
<1> QED BY <1>1, <1>2, <1>3 DEF Sound, Onwards, Shared, Completers

\* What a request holds stays right while Didit takes nothing back.
LEMMA HoldsFrame ==
    ASSUME NEW p \in InFlight \cup {Idle}, Holds(p), Onwards
    PROVE  Holds(p)'
<1> SUFFICES ASSUME p # Idle PROVE Holds(p)'
  BY DEF Holds
<1>1. p \in InFlight /\ p.cs \in Challenge
  BY InFlightShape
<1>2. Sound(p.cs)'
  BY <1>1, SoundFrame DEF Holds, Fits
<1>3. ASSUME p.pc \in {"apply", "judge"} PROVE Tells(p.answer, p.asked.id)'
  <2>1. Tells(p.answer, p.asked.id)
    BY <1>3 DEF Holds, Fits
  <2>2. p.answer # NoDecision => p.answer.status \in DiditStatuses
    BY <2>1 DEF Tells, DiditSession
  <2> QED BY <2>1, <2>2 DEF Tells, Onwards, Mine
<1>4. ASSUME p.pc = "opened"
      PROVE  verif'[p.answer.id].status \in Onward[p.answer.status]
  BY <1>4 DEF Holds, Fits, Onwards, DiditStatuses
<1> QED BY <1>2, <1>3, <1>4 DEF Holds, Fits, Onwards, Shared, Recorded

\* Nothing is taken back while Didit and the clock stand still.
LEMMA Still ==
    ASSUME TypeOK, UNCHANGED <<store, moment, verif>>
    PROVE  Onwards
<1>1. moment \in Moment /\ moment' = moment /\ moment' >= moment
  BY LinkAssumption DEF TypeOK, Moment
<1>2. \A d \in Verification : OwnApproved(d) => OwnApproved(d)'
  BY DEF OwnApproved
<1> QED BY <1>1, <1>2 DEF Onwards

----------------------------------------------------------------------------
(* The merge *)

\* Every challenge advances to itself.
LEMMA AdvanceSelf ==
    ASSUME NEW cs \in Challenge
    PROVE  Advance(cs, cs)
BY ChallengeShape, LinkAssumption DEF Advance, Moment

\* One side is kept whole, tokens are put together, and no progress is lost.
LEMMA MergeOK ==
    ASSUME NEW prev \in Challenge, NEW next \in Challenge, Sound(prev), Sound(next)
    PROVE  LET m == Merged(prev, next) IN
           /\ m \in Challenge /\ Sound(m) /\ Advance(prev, m)
           /\ next.completed => m.completed
           /\ next.tokens \subseteq m.tokens
<1> DEFINE kept == IF prev.completed # next.completed
                   THEN (IF prev.completed THEN prev ELSE next)
                   ELSE Later(prev, next)
<1>1. Later(prev, next) \in {prev, next}
  BY DEF Later
<1>2. LET l == Later(prev, next) IN
      /\ prev.attempt.id # NoVerification => l.attempt.id # NoVerification
      /\ IF l.attempt.id # prev.attempt.id
         THEN l.attempt.recorded_at >= prev.attempt.recorded_at
         ELSE l.attempt.read_at >= prev.attempt.read_at
  <2>1. /\ prev.attempt.recorded_at \in Nat /\ next.attempt.recorded_at \in Nat
        /\ prev.attempt.read_at \in Nat /\ next.attempt.read_at \in Nat
    BY ChallengeShape, LinkAssumption DEF Moment
  <2>2. prev.attempt.id = NoVerification => prev.attempt.recorded_at = 0 /\ prev.attempt.read_at = 0
    <3>1. NoAttempt.recorded_at = 0 /\ NoAttempt.read_at = 0
      BY DEF NoAttempt
    <3> QED BY <3>1 DEF Sound
  <2> QED BY <2>1, <2>2 DEF Later
<1>3. /\ kept \in {prev, next} /\ (kept.completed <=> prev.completed \/ next.completed)
      /\ prev.completed = next.completed => kept = Later(prev, next)
      /\ prev.completed /\ ~next.completed => kept = prev
  BY <1>1, ChallengeShape
<1>4. /\ ~kept.completed =>
             IF kept.attempt.id # prev.attempt.id
             THEN kept.attempt.recorded_at >= prev.attempt.recorded_at
             ELSE kept.attempt.read_at >= prev.attempt.read_at
  BY <1>2, <1>3, ChallengeShape
<1>5. prev.attempt.id # NoVerification => kept.attempt.id # NoVerification
  <2>1. CASE prev.completed = next.completed
    BY <1>2, <1>3, <2>1
  <2>2. CASE prev.completed /\ ~next.completed
    BY <1>3, <2>2
  <2>3. CASE ~prev.completed /\ next.completed
    BY <2>3 DEF Sound
  <2> QED BY <2>1, <2>2, <2>3, ChallengeShape
<1>6. Merged(prev, next) = [kept EXCEPT !.tokens = prev.tokens \cup next.tokens]
  BY DEF Merged
<1> HIDE DEF kept
<1>7. PICK m : m = [kept EXCEPT !.tokens = prev.tokens \cup next.tokens]
  OBVIOUS
<1>8. /\ m \in Challenge /\ m.tokens = prev.tokens \cup next.tokens
      /\ m.state = kept.state /\ m.attempt = kept.attempt /\ m.completed = kept.completed
  BY <1>3, <1>7 DEF Challenge
<1>9. Sound(m)
  BY <1>3, <1>8 DEF Sound, Consistent, Recorded
<1>10. Advance(prev, m)
  BY <1>3, <1>4, <1>5, <1>8 DEF Advance
<1> QED BY <1>3, <1>6, <1>7, <1>8, <1>9, <1>10

----------------------------------------------------------------------------
(* One step of a request *)

\* What the requests in flight hold once c's code made new of its object.
LEMMA HoldingOK ==
    ASSUME Inv, NEW c \in LinkCall, NEW next, NEW new, May(c, next, new),
           NEW saves \in {0, 1}, Holding(c, next, new, saves), NEW k \in LinkCall
    PROVE  /\ press'[k] \in InFlight \cup {Idle} /\ Holds(press'[k])
           /\ press'[k] # Idle =>
                 /\ press[k] # Idle
                 /\ press'[k].age = press[k].age + saves
                 /\ press'[k].cs = IF k \in Sharing(c) THEN new ELSE press[k].cs
<1>0. /\ press[c] # Idle /\ next \in InFlight \cup {Idle} /\ new \in Challenge
      /\ Sound(new) /\ Advance(press[c].cs, new)
      /\ next # Idle =>
            /\ next.age = press[c].age
            /\ Fits(next.pc, new, next.asked, next.answer, next.rows)
  BY DEF May
<1>1. PICK p : p = IF k = c THEN next ELSE press[k]
  OBVIOUS
<1>2. p \in InFlight \cup {Idle} /\ (p # Idle => press[k] # Idle /\ p.age = press[k].age)
  BY <1>0, <1>1 DEF Inv, TypeOK
<1>3. press'[k] = IF p = Idle THEN Idle
                  ELSE [p EXCEPT !.cs = IF k \in Sharing(c) THEN new ELSE @, !.age = @ + saves]
  BY <1>1 DEF Holding
<1>4. CASE p = Idle
  BY <1>3, <1>4 DEF Holds
<1>5. CASE p # Idle
  <2>1. PICK cs, n : /\ cs = IF k \in Sharing(c) THEN new ELSE p.cs
                     /\ n = p.age + saves
    OBVIOUS
  <2>2. p \in InFlight /\ cs \in Challenge /\ n \in Nat
    BY <1>0, <1>2, <1>5, <2>1, InFlightShape
  <2>3. PICK q : q = [p EXCEPT !.cs = cs, !.age = n]
    OBVIOUS
  <2>4. press'[k] = q
    BY <1>3, <1>5, <2>1, <2>3
  <2>5. /\ q \in InFlight /\ q # Idle /\ q.cs = cs /\ q.age = n /\ q.pc = p.pc
        /\ q.asked = p.asked /\ q.answer = p.answer /\ q.rows = p.rows
    <3>1. q \in InFlight /\ q.cs = cs /\ q.age = n /\ q.pc = p.pc
          /\ q.asked = p.asked /\ q.answer = p.answer /\ q.rows = p.rows
      BY <2>2, <2>3 DEF InFlight
    <3> QED BY <3>1, InFlightShape
  <2>6. c \in Sharing(c)
    BY <1>0 DEF Sharing
  <2>7. Fits(q.pc, q.cs, q.asked, q.answer, q.rows)
    <3>1. CASE k = c
      BY <1>0, <1>1, <1>5, <2>1, <2>5, <2>6, <3>1
    <3>2. CASE k # c
      <4>1. p = press[k] /\ Fits(p.pc, p.cs, p.asked, p.answer, p.rows)
        BY <1>1, <1>5, <3>2, InHand
      <4>2. CASE k \notin Sharing(c)
        BY <2>1, <2>5, <4>1, <4>2
      <4>3. CASE k \in Sharing(c)
        <5>1. Shared /\ press[k].age = press[c].age
          BY <3>2, <4>3 DEF Sharing
        <5>2. p.cs = press[c].cs
          BY <1>0, <1>5, <4>1, <5>1 DEF Inv, Objects
        <5> QED BY <1>0, <2>1, <2>5, <4>1, <4>3, <5>1, <5>2 DEF Fits, Advance
      <4> QED BY <4>2, <4>3
    <3> QED BY <3>1, <3>2
  <2>8. q.cs = IF k \in Sharing(c) THEN new ELSE press[k].cs
    BY <1>1, <2>1, <2>5, <2>6
  <2> QED BY <1>2, <1>5, <2>1, <2>4, <2>5, <2>7, <2>8 DEF Holds
<1> QED BY <1>4, <1>5

\* The requests in flight are typed and right in the next state.
LEMMA AllHold ==
    ASSUME Onwards, \A k \in LinkCall : press'[k] \in InFlight \cup {Idle} /\ Holds(press'[k]),
           NEW k \in LinkCall
    PROVE  Holds(press[k])'
<1>1. PICK q \in InFlight \cup {Idle} : q = press'[k] /\ Holds(q)
  OBVIOUS
<1>2. Holds(q)'
  BY <1>1, HoldsFrame
<1> QED BY <1>1, <1>2

\* So is the stored challenge.
LEMMA SoundNext ==
    ASSUME Onwards, chal' \in Challenge, Sound(chal')
    PROVE  Sound(chal)'
<1>1. PICK cs \in Challenge : cs = chal' /\ Sound(cs)
  OBVIOUS
<1>2. Sound(cs)'
  BY <1>1, SoundFrame
<1> QED BY <1>1, <1>2

\* A request begins or goes on as p, and changes no challenge.
LEMMA MoveOK ==
    ASSUME Inv, Onwards, NEW c \in LinkCall, NEW p \in InFlight \cup {Idle}, Holds(p)',
           press' = [press EXCEPT ![c] = p],
           p # Idle =>
               \/ p.cs = chal /\ p.age = 0
               \/ press[c] # Idle /\ p.cs = press[c].cs /\ p.age = press[c].age,
           verif' \in [Verification -> DiditSession \cup {NoDecision}],
           UNCHANGED <<moment, joinStatus, chal, moves, mailed>>,
           claimed' \in [DOMAIN ReadInterval -> Moment \cup {-1}],
           pressed_at' \in Moment \cup {-1}, counted' \subseteq Verification
    PROVE  Inv' /\ Progress
<1>1. press \in [LinkCall -> {Idle} \cup InFlight] /\ chal \in Challenge /\ store' = store
  BY DEF Inv, TypeOK, Onwards
<1>2. \A k \in LinkCall : press'[k] = IF k = c THEN p ELSE press[k]
  BY <1>1
<1>3. press' \in [LinkCall -> {Idle} \cup InFlight]
  BY <1>1
<1>4. TypeOK'
  BY <1>1, <1>3 DEF Inv, TypeOK
<1>5. ASSUME NEW k \in LinkCall PROVE Holds(press[k])'
  <2>1. CASE k = c
    BY <1>2, <2>1
  <2>2. CASE k # c
    <3>1. PICK q \in InFlight \cup {Idle} : q = press[k] /\ Holds(q)
      BY DEF Inv, TypeOK
    <3>2. Holds(q)'
      BY <3>1, HoldsFrame
    <3>3. press'[k] = q
      BY <1>2, <2>2, <3>1
    <3> QED BY <3>2, <3>3
  <2> QED BY <2>1, <2>2
<1>6. Objects'
  <2> SUFFICES ASSUME Shared, NEW k \in LinkCall, press'[k] # Idle
               PROVE  /\ press'[k].age = 0 => press'[k].cs = chal
                      /\ \A j \in LinkCall :
                            press'[j] # Idle /\ press'[j].age = press'[k].age
                                => press'[j].cs = press'[k].cs
    BY <1>1 DEF Objects, Shared
  <2>1. /\ \A j \in LinkCall : press[j] # Idle /\ press[j].age = 0 => press[j].cs = chal
        /\ \A i, j \in LinkCall : press[i] # Idle /\ press[j] # Idle /\ press[i].age = press[j].age
                                      => press[i].cs = press[j].cs
    BY DEF Inv, Objects
  <2>2. CASE p = Idle
    BY <1>2, <2>1, <2>2
  <2>3. CASE p # Idle /\ p.cs = chal /\ p.age = 0
    BY <1>2, <2>1, <2>3
  <2>4. CASE p # Idle /\ press[c] # Idle /\ p.cs = press[c].cs /\ p.age = press[c].age
    BY <1>2, <2>1, <2>4
  <2> QED BY <2>2, <2>3, <2>4
<1>7. Sound(chal)'
  BY <1>1, SoundNext DEF Inv
<1>8. Progress
  BY <1>1, ChallengeShape, LinkAssumption DEF Progress, Moment
<1> QED BY <1>4, <1>5, <1>6, <1>7, <1>8 DEF Inv, TokensKept

\* A request goes on as p, or ends, with Didit as it was.
LEMMA QuietOK ==
    ASSUME Inv, NEW c \in LinkCall, press[c] # Idle, NEW p \in InFlight \cup {Idle},
           press' = [press EXCEPT ![c] = p],
           p # Idle =>
               /\ p.cs = press[c].cs /\ p.age = press[c].age
               /\ Fits(p.pc, p.cs, p.asked, p.answer, p.rows),
           UNCHANGED <<store, moment, verif, joinStatus, chal, claimed, pressed_at, moves, mailed>>,
           counted' \subseteq Verification
    PROVE  Inv' /\ Progress
<1>1. Onwards
  BY Still DEF Inv
<1>2. Holds(p)'
  BY <1>1, HoldsFrame DEF Holds
<1> QED BY <1>1, <1>2, MoveOK DEF Inv, TypeOK

\* A merge of an object with itself changes nothing.
LEMMA MergeSelf ==
    ASSUME NEW cs \in Challenge
    PROVE  LET m == Merged(cs, cs) IN
           /\ m.attempt = cs.attempt /\ m.completed = cs.completed /\ m.tokens = cs.tokens
<1>1. Later(cs, cs) = cs
  BY DEF Later
<1> QED BY <1>1 DEF Merged, Challenge

\* What the store has once c's code made its object new: an advance, and new itself
\* when c holds the stored object.
LEMMA InStoreOK ==
    ASSUME Inv, NEW c \in LinkCall, NEW next, NEW new, May(c, next, new)
    PROVE  /\ InStore(c, new) \in Challenge /\ Sound(InStore(c, new))
           /\ Advance(chal, InStore(c, new))
           /\ Shared /\ press[c].age = 0 => InStore(c, new) = new
           /\ ~(Shared /\ press[c].age = 0) => InStore(c, new) = chal
<1>1. CASE Shared /\ press[c].age = 0
  <2>1. press[c].cs = chal /\ InStore(c, new) = new
    BY <1>1 DEF Inv, Objects, InStore, May
  <2> QED BY <1>1, <2>1 DEF May
<1>2. CASE ~(Shared /\ press[c].age = 0)
  BY <1>2, AdvanceSelf DEF InStore, Inv, TypeOK
<1> QED BY <1>1, <1>2

\* What a step that alters or saves c's object leaves in the store.
LEMMA StoredOK ==
    ASSUME Inv, NEW c \in LinkCall, NEW next, NEW new, May(c, next, new),
           Alter(c, next, new) \/ Save(c, next, new)
    PROVE  /\ chal' \in Challenge /\ Sound(chal') /\ Advance(chal, chal')
           /\ Save(c, next, new) /\ joinStatus # "dropped" =>
                  (new.completed => chal'.completed) /\ new.tokens \subseteq chal'.tokens
           /\ \E saves \in {0, 1} :
                 /\ Holding(c, next, new, saves)
                 /\ Shared /\ saves = 0 => chal' = InStore(c, new)
<1>1. PICK alt : alt = InStore(c, new)
  OBVIOUS
<1>2. /\ alt \in Challenge /\ Sound(alt) /\ Advance(chal, alt)
      /\ alt = new \/ alt = chal
  BY <1>1, InStoreOK
<1>0. new \in Challenge /\ Sound(new)
  BY DEF May
<1>3. CASE Save(c, next, new) /\ joinStatus # "dropped"
  <2>1. chal' = Merged(alt, new) /\ Holding(c, next, new, IF Shared THEN 1 ELSE 0)
    BY <1>1, <1>3 DEF Save
  <2>2. PICK m : m = Merged(alt, new)
    OBVIOUS
  <2>3. /\ m \in Challenge /\ Sound(m) /\ Advance(alt, m)
        /\ new.completed => m.completed
        /\ new.tokens \subseteq m.tokens
    BY <1>0, <1>2, <2>2, MergeOK
  <2>4. Advance(chal, m)
    <3>1. CASE alt = chal
      BY <2>3, <3>1
    <3>2. CASE alt = new
      <4>1. m.attempt = new.attempt /\ m.completed = new.completed /\ m.tokens = new.tokens
        BY <1>0, <2>2, <3>2, MergeSelf
      <4> QED BY <1>2, <3>2, <4>1 DEF Advance
    <3> QED BY <1>2, <3>1, <3>2
  <2>5. PICK saves \in {0, 1} : saves = IF Shared THEN 1 ELSE 0
    OBVIOUS
  <2> QED BY <2>1, <2>2, <2>3, <2>4, <2>5
<1>4. CASE ~(Save(c, next, new) /\ joinStatus # "dropped")
  <2>1. Alter(c, next, new)
    BY <1>4 DEF Save
  <2>2. chal' = alt /\ Holding(c, next, new, 0)
    BY <1>1, <2>1 DEF Alter
  <2> QED BY <1>1, <1>2, <1>4, <2>2
<1> QED BY <1>3, <1>4

\* A request advances its object, saves it or not, and goes on as next.
LEMMA ChangeOK ==
    ASSUME Inv, NEW c \in LinkCall, NEW next, NEW new, May(c, next, new),
           Alter(c, next, new) \/ Save(c, next, new),
           UNCHANGED <<store, moment, verif, claimed, pressed_at, moves>>,
           joinStatus' \in {"pending", "ready", "rejected", "dropped"},
           joinStatus' = "ready" => \/ joinStatus = "ready"
                                    \/ Save(c, next, new) /\ joinStatus # "dropped" /\ new.completed,
           joinStatus = "dropped" => joinStatus' = "dropped",
           counted' \subseteq Verification, mailed' \subseteq Token,
           \/ mailed' = mailed
           \/ Save(c, next, new) /\ mailed' \subseteq mailed \cup new.tokens
    PROVE  Inv' /\ Progress
<1>1. Onwards
  BY Still DEF Inv
<1>2. /\ chal' \in Challenge /\ Sound(chal') /\ Advance(chal, chal')
      /\ Save(c, next, new) /\ joinStatus # "dropped" =>
             (new.completed => chal'.completed) /\ new.tokens \subseteq chal'.tokens
  BY StoredOK
<1>3. PICK saves \in {0, 1} : /\ Holding(c, next, new, saves)
                              /\ Shared /\ saves = 0 => chal' = InStore(c, new)
  BY StoredOK
<1>4. ASSUME NEW k \in LinkCall
      PROVE  /\ press'[k] \in InFlight \cup {Idle} /\ Holds(press'[k])
             /\ press'[k] # Idle =>
                   /\ press[k] # Idle
                   /\ press'[k].age = press[k].age + saves
                   /\ press'[k].cs = IF k \in Sharing(c) THEN new ELSE press[k].cs
  BY <1>3, HoldingOK
<1>5. TypeOK'
  <2>1. press' \in [LinkCall -> {Idle} \cup InFlight]
    <3>1. press' = [k \in LinkCall |-> press'[k]]
      BY <1>3 DEF Holding
    <3> QED BY <1>4, <3>1
  <2> QED BY <1>2, <2>1 DEF Inv, TypeOK
<1>6. \A k \in LinkCall : Holds(press[k])'
  BY <1>1, <1>4, AllHold
<1>7. Objects'
  <2> SUFFICES ASSUME Shared, NEW k \in LinkCall, press'[k] # Idle
               PROVE  /\ press'[k].age = 0 => press'[k].cs = chal'
                      /\ \A j \in LinkCall :
                            press'[j] # Idle /\ press'[j].age = press'[k].age
                                => press'[j].cs = press'[k].cs
    BY DEF Objects, Shared
  <2>1. \A j \in LinkCall : press'[j] # Idle => press[j].age \in Nat
    BY <1>4, InHand
  <2>2. \A j \in LinkCall : press'[j] # Idle => (j \in Sharing(c) <=> press[j].age = press[c].age)
    BY <1>4 DEF Sharing
  <2>3. \A i, j \in LinkCall : press[i] # Idle /\ press[j] # Idle /\ press[i].age = press[j].age
                                   => press[i].cs = press[j].cs
    BY DEF Inv, Objects
  <2>4. ASSUME press'[k].age = 0 PROVE press'[k].cs = chal'
    <3>1. saves = 0 /\ press[k].age = 0 /\ press[k].cs = chal
      BY <1>4, <2>1, <2>4 DEF Inv, Objects
    <3>2. CASE press[c].age = 0
      BY <1>3, <1>4, <2>2, <3>1, <3>2, InStoreOK
    <3>3. CASE press[c].age # 0
      BY <1>3, <1>4, <2>2, <3>1, <3>3, InStoreOK
    <3> QED BY <3>2, <3>3
  <2>5. ASSUME NEW j \in LinkCall, press'[j] # Idle, press'[j].age = press'[k].age
        PROVE  press'[j].cs = press'[k].cs
    <3>1. press[j].age = press[k].age
      BY <1>4, <2>1, <2>5
    <3> QED BY <1>4, <2>2, <2>3, <2>5, <3>1
  <2> QED BY <2>4, <2>5
<1>8. Sound(chal)'
  BY <1>1, <1>2, SoundNext
<1>9. TokensKept'
  BY <1>2 DEF Inv, TokensKept, Advance
<1>10. joinStatus' = "ready" => chal'.completed
  BY <1>2 DEF Inv, Advance
<1>11. Progress
  BY <1>2 DEF Progress, Advance
<1> QED BY <1>5, <1>6, <1>7, <1>8, <1>9, <1>10, <1>11 DEF Inv

----------------------------------------------------------------------------
(* Where a request goes on *)

\* A request at its next wait.
LEMMA PressShape ==
    ASSUME NEW q \in InFlight, NEW pc \in BeforeCompletion \cup {"finish", "mail"}
    PROVE  LET p == At(q, pc) IN
           /\ p \in InFlight /\ p # Idle /\ p.pc = pc /\ p.cs = q.cs /\ p.age = q.age
           /\ p.asked = Unasked /\ p.answer = NoDecision /\ p.rows = q.rows
           /\ p.unreadable = q.unreadable /\ p.full = q.full
<1>1. PICK p : p = [q EXCEPT !.pc = pc, !.asked = Unasked, !.answer = NoDecision]
  OBVIOUS
<1>2. /\ p \in InFlight /\ p.pc = pc /\ p.cs = q.cs /\ p.age = q.age
      /\ p.asked = Unasked /\ p.answer = NoDecision /\ p.rows = q.rows
      /\ p.unreadable = q.unreadable /\ p.full = q.full
  BY <1>1 DEF InFlight, BeforeCompletion
<1>3. p # Idle
  BY <1>2, InFlightShape
<1>4. At(q, pc) = p
  BY <1>1 DEF At
<1> QED BY <1>2, <1>3, <1>4

\* A press done with the list.
LEMMA OpeningShape ==
    ASSUME NEW q \in InFlight
    PROVE  LET p == Opening(q) IN
           /\ p \in InFlight /\ p # Idle /\ p.pc = "create" /\ p.cs = q.cs /\ p.age = q.age
           /\ p.asked = Unasked /\ p.answer = NoDecision /\ p.rows = {}
<1>1. PICK a : a = At(q, "create")
  OBVIOUS
<1>2. /\ a \in InFlight /\ a.pc = "create" /\ a.cs = q.cs /\ a.age = q.age
      /\ a.asked = Unasked /\ a.answer = NoDecision
  BY <1>1, PressShape DEF BeforeCompletion
<1>3. PICK p : p = [a EXCEPT !.rows = {}, !.full = FALSE, !.unreadable = FALSE]
  OBVIOUS
<1>4. /\ p \in InFlight /\ p.pc = a.pc /\ p.cs = a.cs /\ p.age = a.age
      /\ p.asked = a.asked /\ p.answer = a.answer /\ p.rows = {}
  BY <1>2, <1>3 DEF InFlight
<1>5. p # Idle
  BY <1>4, InFlightShape
<1>6. Opening(q) = p
  BY <1>1, <1>3 DEF Opening
<1> QED BY <1>2, <1>4, <1>5, <1>6

\* A request that is done with an answer.
LEMMA DoneFits ==
    ASSUME NEW cs, Sound(cs), NEW rows, \A r \in rows : StateOf(r[2]) \in States,
           NEW pc \in {"list", "rows", "create", "finish"}, pc = "finish" => cs.completed,
           ~Shared /\ pc # "finish" => ~cs.completed
    PROVE  Fits(pc, cs, Unasked, NoDecision, rows)
BY DEF Fits, BeforeCompletion

\* A request that ends.
LEMMA EndOK ==
    ASSUME Inv, NEW c \in LinkCall, press[c] # Idle, End(c),
           UNCHANGED <<store, moment, verif, joinStatus, chal, claimed, pressed_at, moves, counted, mailed>>
    PROVE  Inv' /\ Progress
BY QuietOK DEF End, Inv, TypeOK

\* A request that ends may do so with its object as it is, or advanced.
LEMMA MayEnd ==
    ASSUME Inv, NEW c \in LinkCall, press[c] # Idle, NEW new \in Challenge,
           Sound(new), Advance(press[c].cs, new)
    PROVE  May(c, Idle, new)
BY DEF May

----------------------------------------------------------------------------
(* What Didit answers *)

\* An answer applied to an object: only an approved session of this key completes it.
LEMMA AppliedOK ==
    ASSUME TypeOK, NEW cs \in Challenge, Sound(cs), cs.attempt.id # NoVerification,
           NEW dec, NEW id, Tells(dec, id),
           ~Shared => Recorded(cs) /\ id = cs.attempt.id
    PROVE  LET new == Applied(cs, dec) IN
           /\ new \in Challenge /\ Sound(new) /\ Advance(cs, new)
           /\ new.completed <=> cs.completed \/ Reading(dec) = "approved"
<1>1. dec # NoDecision => dec \in DiditSession /\ dec.status \in DiditStatuses
  BY DEF Tells, DiditSession
<1>2. /\ cs.attempt.id \in Verification /\ moment \in Moment /\ moment \in Nat
      /\ cs.attempt.read_at <= moment /\ cs.attempt.recorded_at \in Nat
      /\ cs.attempt.read_at \in Nat /\ moment <= moment
  BY ChallengeShape, LinkAssumption DEF TypeOK, Sound, Moment
<1> DEFINE att == cs.attempt
           read == [cs EXCEPT !.attempt.read_at = moment]
<1>3. /\ read \in Challenge /\ read.state = cs.state /\ read.tokens = cs.tokens
      /\ read.completed = cs.completed /\ read.attempt.id = att.id
      /\ read.attempt.status = att.status /\ read.attempt.gone = att.gone
      /\ read.attempt.read_at = moment /\ read.attempt.recorded_at = att.recorded_at
  BY <1>2 DEF Challenge, Attempt
<1>4. ASSUME NEW new \in Challenge, new.tokens = cs.tokens,
             new.attempt.id = att.id, new.attempt.read_at = moment,
             new.attempt.recorded_at = att.recorded_at,
             new.completed <=> cs.completed \/ Reading(dec) = "approved",
             ~Shared => Consistent(new)
      PROVE  Sound(new) /\ Advance(cs, new)
  <2>1. Advance(cs, new)
    BY <1>2, <1>4 DEF Advance
  <2>2. Reading(dec) = "approved" => OwnApproved(id) /\ id \in Completers(att.id)
    <3>1. Reading(dec) = "approved" => dec.status = "Approved" /\ Mine(dec)
      BY <1>1, StatusStates DEF Reading, DiditStatuses
    <3> QED BY <3>1 DEF Tells, Completers
  <2>3. new.completed => \E d \in Completers(new.attempt.id) : OwnApproved(d)
    BY <1>4, <2>2 DEF Sound
  <2> QED BY <1>2, <1>4, <2>1, <2>3 DEF Sound
<1>5. CASE Reading(dec) = "gone"
  <2>1. PICK new : new = [read EXCEPT !.attempt.gone = TRUE, !.state = "link_sent"]
    OBVIOUS
  <2>2. Applied(cs, dec) = new
    BY <1>5, <2>1 DEF Applied
  <2>3. /\ new \in Challenge /\ new.state = "link_sent" /\ new.tokens = cs.tokens
        /\ new.completed = cs.completed /\ new.attempt.id = att.id /\ new.attempt.gone = TRUE
        /\ new.attempt.status = att.status
        /\ new.attempt.read_at = moment /\ new.attempt.recorded_at = att.recorded_at
    BY <1>3, <2>1 DEF Challenge, Attempt, States
  <2>4. ~Shared => Consistent(new)
    BY <2>3 DEF Sound, Consistent, Recorded
  <2> HIDE DEF read
  <2> QED BY <1>4, <1>5, <2>2, <2>3, <2>4
<1>6. CASE Reading(dec) = "unknown"
  <2>1. Applied(cs, dec) = read
    BY <1>6 DEF Applied
  <2>2. ~Shared => Consistent(read)
    BY <1>3 DEF Sound, Consistent, Recorded
  <2> HIDE DEF read
  <2> QED BY <1>3, <1>4, <1>6, <2>1, <2>2
<1>7. CASE Reading(dec) \notin {"gone", "unknown"}
  <2>1. dec # NoDecision /\ dec.status \in DiditStatuses /\ StateOf(dec.status) \in States
    BY <1>1, <1>7, StatusStates DEF Reading, DiditStatuses, States
  <2>2. PICK done \in BOOLEAN, st \in DiditStatuses :
            /\ done <=> cs.completed \/ Reading(dec) = "approved"
            /\ st = dec.status
    BY <2>1
  <2>3. PICK new : new = [read EXCEPT !.attempt.status = st, !.state = StateOf(st), !.completed = done]
    OBVIOUS
  <2>4. Applied(cs, dec) = new
    <3>1. read.completed = cs.completed /\ cs.completed \in BOOLEAN
      BY <1>3, ChallengeShape
    <3>2. (read.completed \/ Reading(dec) = "approved") = done
      BY <2>2, <3>1
    <3> QED BY <1>7, <2>2, <2>3, <3>2 DEF Applied
  <2>5. /\ new \in Challenge /\ new.state = StateOf(st) /\ new.tokens = cs.tokens
        /\ new.completed = done /\ new.attempt.id = att.id /\ new.attempt.gone = att.gone
        /\ new.attempt.status = st
        /\ new.attempt.read_at = moment /\ new.attempt.recorded_at = att.recorded_at
    BY <1>3, <2>1, <2>2, <2>3 DEF Challenge, Attempt
  <2>6. ~Shared => Consistent(new)
    BY <1>2, <2>1, <2>2, <2>5 DEF Tells, Consistent, Recorded
  <2> HIDE DEF read
  <2> QED BY <1>4, <2>2, <2>4, <2>5, <2>6
<1> QED BY <1>5, <1>6, <1>7

\* The count of billed sessions.
LEMMA CountOK ==
    ASSUME TypeOK, NEW old, NEW new \in Challenge, new.attempt.id # NoVerification,
           Count(old, new.attempt)
    PROVE  counted' \subseteq Verification
BY ChallengeShape DEF Count, TypeOK

----------------------------------------------------------------------------
(* Requests *)

\* A request that begins holds the stored challenge.
LEMMA StartOK ==
    ASSUME Inv, NEW c \in LinkCall,
           NEW op \in {"press", "poll", "done", "resend"},
           NEW pc \in {"ask", "list", "finish", "mail"}, Admit(c, op, pc),
           pc = "ask" => Recorded(chal),
           pc \in {"ask", "list"} => ~chal.completed,
           pc = "finish" => chal.completed,
           UNCHANGED <<store, moment, verif, joinStatus, chal, moves, counted, mailed>>,
           claimed' \in [DOMAIN ReadInterval -> Moment \cup {-1}],
           pressed_at' \in Moment \cup {-1}
    PROVE  Inv' /\ Progress
<1>1. chal \in Challenge /\ Onwards
  BY Still DEF Inv, TypeOK
<1>2. PICK asked : asked = IF pc # "ask" THEN Unasked
              ELSE [id |-> chal.attempt.id, status |-> chal.attempt.status, state |-> chal.state]
  OBVIOUS
<1>3. /\ asked \in {Unasked} \cup [id : Verification, status : DiditStatuses, state : States]
      /\ pc = "ask" => asked.id \in Verification /\ asked.id = chal.attempt.id
  BY <1>1, <1>2, ChallengeShape
<1>4. PICK p : p = Reader(op, pc, asked)
  OBVIOUS
<1>5. /\ p \in InFlight /\ p.pc = pc /\ p.cs = chal /\ p.age = 0 /\ p.asked = asked
      /\ p.answer = NoDecision /\ p.rows = {}
  BY <1>1, <1>3, <1>4 DEF Reader, InFlight
<1>6. Fits(pc, chal, asked, NoDecision, {})
  BY <1>3 DEF Fits, Inv, Recorded, BeforeCompletion
<1>7. Holds(p)'
  BY <1>1, <1>5, <1>6, HoldsFrame DEF Holds
<1>8. press' = [press EXCEPT ![c] = p]
  BY <1>2, <1>4 DEF Admit
<1> QED BY <1>1, <1>5, <1>7, <1>8, MoveOK DEF Inv, TypeOK

\* Press, Poll and Resend begin with the stored challenge.
LEMMA BeginOK ==
    ASSUME Inv, NEW c \in LinkCall, Press(c) \/ Poll(c) \/ Resend(c)
    PROVE  Inv' /\ Progress
<1>1. moment \in Moment /\ chal \in Challenge
  BY DEF Inv, TypeOK
<1>2. CASE Press(c)
  BY <1>1, <1>2, StartOK DEF Press, Inv, TypeOK
<1>3. CASE Poll(c)
  <2>1. PICK op \in {"poll", "done"} :
          \/ /\ Due
             /\ claimed' = [claimed EXCEPT ![chal.state] = moment]
             /\ Admit(c, op, "ask")
          \/ /\ ~Due /\ chal.completed /\ op = "poll"
             /\ Admit(c, op, "finish") /\ UNCHANGED claimed
    BY <1>3 DEF Poll
  <2>2. UNCHANGED <<store, moment, verif, joinStatus, chal, moves, counted, mailed, pressed_at>>
    BY <1>3 DEF Poll
  <2>3. claimed' \in [DOMAIN ReadInterval -> Moment \cup {-1}]
    BY <1>1, <2>1 DEF Inv, TypeOK
  <2>4. pressed_at' \in Moment \cup {-1}
    BY <2>2 DEF Inv, TypeOK
  <2>5. CASE Due /\ Admit(c, op, "ask")
    BY <2>2, <2>3, <2>4, <2>5, StartOK DEF Due
  <2>6. CASE chal.completed /\ Admit(c, op, "finish")
    BY <2>2, <2>3, <2>4, <2>6, StartOK
  <2> QED BY <2>1, <2>5, <2>6
<1>4. CASE Resend(c)
  BY <1>4, StartOK DEF Resend, Inv, TypeOK
<1> QED BY <1>2, <1>3, <1>4

\* Any call of Didit fails: the request ends, or completes what it finds complete.
LEMMA UnavailableOK ==
    ASSUME Inv, NEW c \in LinkCall, Unavailable(c)
    PROVE  Inv' /\ Progress
<1> DEFINE q == press[c]
<1>1. /\ q # Idle
      /\ UNCHANGED <<store, moment, verif, joinStatus, chal, claimed, pressed_at, moves, counted, mailed>>
      /\ \/ q.cs.completed /\ press' = [press EXCEPT ![c] = At(q, "finish")]
         \/ End(c)
  BY DEF Unavailable, Inv, TypeOK
<1>2. CASE End(c)
  BY <1>1, <1>2, EndOK
<1>3. CASE q.cs.completed /\ press' = [press EXCEPT ![c] = At(q, "finish")]
  <2>1. q \in InFlight /\ Sound(q.cs) /\ \A r \in q.rows : StateOf(r[2]) \in States
    BY <1>1, InHand DEF Fits
  <2>2. PICK p : p = At(q, "finish")
    OBVIOUS
  <2>3. /\ p \in InFlight /\ p.pc = "finish" /\ p.cs = q.cs /\ p.age = q.age
        /\ p.asked = Unasked /\ p.answer = NoDecision /\ p.rows = q.rows
    BY <2>1, <2>2, PressShape
  <2>4. Fits(p.pc, p.cs, p.asked, p.answer, p.rows)
    BY <1>3, <2>1, <2>3, DoneFits
  <2> QED BY <1>1, <1>3, <2>2, <2>3, <2>4, QuietOK DEF Inv, TypeOK
<1> QED BY <1>1, <1>2, <1>3

\* Didit's answer tells of the session as it is.
LEMMA DecisionTells ==
    ASSUME TypeOK, NEW d \in Verification
    PROVE  Tells(Decision(d), d)
<1>1. CASE d \in Held
  <2>1. Decision(d) = verif[d] /\ verif[d] \in DiditSession
    BY <1>1 DEF Decision, Held, TypeOK
  <2>2. verif[d].status \in Onward[verif[d].status]
    BY <2>1, OnwardMoves DEF DiditSession
  <2> QED BY <2>1, <2>2 DEF Tells, OwnApproved, Mine
<1>2. CASE d \notin Held
  BY <1>2 DEF Tells, Decision, NoDecision
<1> QED BY <1>1, <1>2

\* Ask: the answer is on its way.
LEMMA AskOK ==
    ASSUME Inv, NEW c \in LinkCall, Ask(c)
    PROVE  Inv' /\ Progress
<1> DEFINE q == press[c]
<1>1. /\ q # Idle /\ q \in InFlight /\ q.pc = "ask" /\ q.asked.id \in Verification
      /\ Fits(q.pc, q.cs, q.asked, q.answer, q.rows)
  BY InHand DEF Ask, Fits
<1>2. PICK ans : ans = Decision(q.asked.id)
  OBVIOUS
<1>3. Tells(ans, q.asked.id)
  BY <1>1, <1>2, DecisionTells DEF Inv
<1>4. PICK p : p = [q EXCEPT !.answer = ans, !.pc = "apply"]
  OBVIOUS
<1>5. /\ p \in InFlight /\ p.cs = q.cs /\ p.age = q.age /\ p.pc = "apply" /\ p.answer = ans
      /\ p.asked = q.asked /\ p.rows = q.rows
  BY <1>1, <1>3, <1>4 DEF InFlight, Tells
<1>6. Fits(p.pc, p.cs, p.asked, p.answer, p.rows)
  BY <1>1, <1>3, <1>5 DEF Fits, BeforeCompletion
<1>7. press' = [press EXCEPT ![c] = p]
  BY <1>2, <1>4 DEF Ask, Inv, TypeOK
<1> QED BY <1>1, <1>5, <1>6, <1>7, QuietOK DEF Ask, Inv, TypeOK

\* What ApplyPress and ApplyPoll start from, and what they make of the object.
LEMMA ApplyOK ==
    ASSUME Inv, NEW c \in LinkCall, press[c] # Idle, press[c].pc = "apply",
           NEW new, new = Applied(press[c].cs, press[c].answer),
           Count(press[c].cs.attempt, new.attempt)
    PROVE  /\ press[c] \in InFlight /\ \A r \in press[c].rows : StateOf(r[2]) \in States
           /\ new \in Challenge /\ Sound(new) /\ Advance(press[c].cs, new)
           /\ Reading(press[c].answer) = "approved" => new.completed
           /\ ~Shared /\ Reading(press[c].answer) # "approved" => ~new.completed
           /\ counted' \subseteq Verification
<1> DEFINE q == press[c]
<1>1. /\ q \in InFlight /\ q.cs \in Challenge /\ Sound(q.cs)
      /\ Fits("apply", q.cs, q.asked, q.answer, q.rows)
  BY InHand
<1>2. /\ Tells(q.answer, q.asked.id) /\ q.cs.attempt.id # NoVerification
      /\ ~Shared => Recorded(q.cs) /\ q.asked.id = q.cs.attempt.id /\ ~q.cs.completed
      /\ \A r \in q.rows : StateOf(r[2]) \in States
  BY <1>1 DEF Fits, BeforeCompletion
<1>3. /\ new \in Challenge /\ Sound(new) /\ Advance(q.cs, new)
      /\ new.completed <=> q.cs.completed \/ Reading(q.answer) = "approved"
  BY <1>1, <1>2, AppliedOK DEF Inv
<1>4. new.attempt.id # NoVerification
  BY <1>2, <1>3 DEF Advance
<1>5. counted' \subseteq Verification
  BY <1>3, <1>4, CountOK DEF Inv
<1> QED BY <1>1, <1>2, <1>3, <1>5

\* A request goes on with an applied answer.
LEMMA GoOnOK ==
    ASSUME Inv, NEW c \in LinkCall, press[c] # Idle, press[c] \in InFlight,
           \A r \in press[c].rows : StateOf(r[2]) \in States,
           NEW new \in Challenge, Sound(new), Advance(press[c].cs, new),
           NEW pc \in {"list", "create", "finish"}, pc = "finish" => new.completed,
           ~Shared /\ pc # "finish" => ~new.completed
    PROVE  May(c, At(press[c], pc), new)
<1>1. PICK p : p = At(press[c], pc)
  OBVIOUS
<1>2. /\ p \in InFlight /\ p.pc = pc /\ p.age = press[c].age
      /\ p.asked = Unasked /\ p.answer = NoDecision /\ p.rows = press[c].rows
  BY <1>1, PressShape DEF BeforeCompletion
<1>3. Fits(pc, new, Unasked, NoDecision, press[c].rows)
  BY DoneFits
<1>4. May(c, p, new)
  BY <1>2, <1>3 DEF May
<1> QED BY <1>1, <1>4

\* A press's answer is applied: it saves what settles it, and goes on.
LEMMA ApplyPressOK ==
    ASSUME Inv, NEW c \in LinkCall, ApplyPress(c)
    PROVE  Inv' /\ Progress
<1> DEFINE q == press[c]
           r == Reading(q.answer)
<1>1. PICK new : new = Applied(q.cs, q.answer)
  OBVIOUS
<1>2. /\ q # Idle /\ q.pc = "apply" /\ Count(q.cs.attempt, new.attempt)
      /\ UNCHANGED <<store, moment, verif, joinStatus, claimed, pressed_at, moves, mailed>>
      /\ CASE r = "in_review" -> Save(c, Idle, new)
           [] r = "approved" -> Save(c, At(q, "finish"), new)
           [] r = "open" -> Alter(c, At(q, "create"), new)
           [] OTHER -> Alter(c, At(q, "list"), new)
  BY <1>1 DEF ApplyPress
<1>3. /\ q \in InFlight /\ \A w \in q.rows : StateOf(w[2]) \in States
      /\ new \in Challenge /\ Sound(new) /\ Advance(q.cs, new)
      /\ r = "approved" => new.completed
      /\ ~Shared /\ r # "approved" => ~new.completed
      /\ counted' \subseteq Verification
  BY <1>1, <1>2, ApplyOK
<1>4. PICK next : May(c, next, new) /\ (Alter(c, next, new) \/ Save(c, next, new))
  <2>1. CASE r = "in_review"
    BY <1>2, <1>3, <2>1, MayEnd
  <2>2. CASE r = "approved"
    BY <1>2, <1>3, <2>2, GoOnOK
  <2>3. CASE r = "open"
    BY <1>2, <1>3, <2>3, GoOnOK
  <2>4. CASE r \notin {"in_review", "approved", "open"}
    BY <1>2, <1>3, <2>4, GoOnOK
  <2> QED BY <2>1, <2>2, <2>3, <2>4
<1> QED BY <1>2, <1>3, <1>4, ChangeOK DEF Inv, TypeOK

\* A poll's answer is applied and saved when it is new.
LEMMA ApplyPollOK ==
    ASSUME Inv, NEW c \in LinkCall, ApplyPoll(c)
    PROVE  Inv' /\ Progress
<1> DEFINE q == press[c]
<1>1. PICK new : new = Applied(q.cs, q.answer)
  OBVIOUS
<1>2. PICK next : next = IF new.completed /\ q.op = "poll" THEN At(q, "finish") ELSE Idle
  OBVIOUS
<1>3. /\ q # Idle /\ q.pc = "apply" /\ Count(q.cs.attempt, new.attempt)
      /\ UNCHANGED <<store, moment, verif, joinStatus, claimed, pressed_at, moves, mailed>>
      /\ Alter(c, next, new) \/ Save(c, next, new)
  BY <1>1, <1>2 DEF ApplyPoll
<1>4. /\ q \in InFlight /\ \A w \in q.rows : StateOf(w[2]) \in States
      /\ new \in Challenge /\ Sound(new) /\ Advance(q.cs, new)
      /\ counted' \subseteq Verification
  BY <1>1, <1>3, ApplyOK
<1>5. May(c, next, new)
  <2>1. CASE new.completed /\ q.op = "poll"
    BY <1>2, <1>3, <1>4, <2>1, GoOnOK
  <2>2. CASE ~(new.completed /\ q.op = "poll")
    BY <1>2, <1>3, <1>4, <2>2, MayEnd
  <2> QED BY <2>1, <2>2
<1> QED BY <1>3, <1>4, <1>5, ChangeOK DEF Inv, TypeOK

\* List: the rows are sessions that Didit holds, of a state that is known.
LEMMA ListOK ==
    ASSUME Inv, NEW c \in LinkCall, List(c)
    PROVE  Inv' /\ Progress
<1> DEFINE q == press[c]
<1>1. q # Idle /\ q \in InFlight /\ q.pc = "list" /\ Fits(q.pc, q.cs, q.asked, q.answer, q.rows)
  BY InHand DEF List
<1>2. PICK rs : rs = {<<d, verif[d].status>> : d \in {e \in Held : Rank(verif[e].status) < 3}}
  OBVIOUS
<1>3. ASSUME NEW d \in Held PROVE d \in Verification /\ verif[d].status \in DiditStatuses
  BY DEF Held, Inv, TypeOK, DiditSession
<1>4. ASSUME NEW st \in DiditStatuses, Rank(st) < 3 PROVE StateOf(st) \in States
  <2>1. ASSUME StateOf(st) \notin {"approved", "in_review", "in_progress"} PROVE Rank(st) = 3
    BY <2>1 DEF Rank
  <2>2. StateOf(st) \in {"approved", "in_review", "in_progress"}
    <3>1. PICK n : n = Rank(st)
      OBVIOUS
    <3>2. n # 3
      BY <1>4, <3>1
    <3> QED BY <2>1, <3>1, <3>2
  <2> QED BY <2>2 DEF States
<1>5. rs \in SUBSET (Verification \X DiditStatuses) /\ \A r \in rs : StateOf(r[2]) \in States
  BY <1>2, <1>3, <1>4
<1> DEFINE u == \E d \in Held : StateOf(verif[d].status) = "none"
           f == Cardinality(Held) >= MaxSessions
<1>6. u \in BOOLEAN /\ f \in BOOLEAN
  OBVIOUS
<1>7. PICK p : p = [q EXCEPT !.pc = "rows", !.full = f, !.rows = rs, !.unreadable = u]
  OBVIOUS
<1>8. /\ p \in InFlight /\ p.cs = q.cs /\ p.age = q.age /\ p.pc = "rows"
      /\ p.rows = rs /\ p.asked = q.asked /\ p.answer = q.answer
  BY <1>1, <1>5, <1>6, <1>7 DEF InFlight
<1>9. Fits(p.pc, p.cs, p.asked, p.answer, p.rows)
  BY <1>1, <1>5, <1>8 DEF Fits, BeforeCompletion
<1>10. press' = [press EXCEPT ![c] = p]
  BY <1>2, <1>6, <1>7 DEF List, Inv, TypeOK
<1> QED BY <1>1, <1>8, <1>9, <1>10, QuietOK DEF List, Inv, TypeOK

\* ReadRow: the decision of a row is on its way.
LEMMA ReadRowOK ==
    ASSUME Inv, NEW c \in LinkCall, ReadRow(c)
    PROVE  Inv' /\ Progress
<1> DEFINE q == press[c]
<1>1. q # Idle /\ q \in InFlight /\ q.pc = "rows" /\ Fits(q.pc, q.cs, q.asked, q.answer, q.rows)
  BY InHand DEF ReadRow
<1>2. PICK r \in q.rows :
        press' = [press EXCEPT ![c].pc = "judge", ![c].rows = @ \ {r},
                ![c].asked = [id |-> r[1], status |-> r[2], state |-> StateOf(r[2])],
                ![c].answer = Decision(r[1])]
  BY DEF ReadRow
<1>3. PICK d \in Verification, st \in DiditStatuses : r[1] = d /\ r[2] = st /\ StateOf(st) \in States
  BY <1>1, <1>2, InFlightShape DEF Fits
<1>4. PICK asked \in [id : Verification, status : DiditStatuses, state : States] :
          asked = [id |-> d, status |-> st, state |-> StateOf(st)]
  BY <1>3
<1>5. PICK ans : ans = Decision(d)
  OBVIOUS
<1>6. Tells(ans, d)
  BY <1>5, DecisionTells DEF Inv
<1>7. PICK p : p = [q EXCEPT !.pc = "judge", !.rows = q.rows \ {r}, !.asked = asked, !.answer = ans]
  OBVIOUS
<1>8. /\ p \in InFlight /\ p.cs = q.cs /\ p.age = q.age /\ p.pc = "judge"
      /\ p.rows = q.rows \ {r} /\ p.asked = asked /\ p.answer = ans
  BY <1>1, <1>4, <1>6, <1>7 DEF InFlight, Tells
<1>9. asked.id = d
  BY <1>4
<1>10. Fits(p.pc, p.cs, p.asked, p.answer, p.rows)
  BY <1>1, <1>6, <1>8, <1>9 DEF Fits, BeforeCompletion
<1>11. press' = [press EXCEPT ![c] = p]
  BY <1>2, <1>3, <1>4, <1>5, <1>7 DEF Inv, TypeOK
<1> QED BY <1>1, <1>8, <1>10, <1>11, QuietOK DEF ReadRow, Inv, TypeOK

\* A row is recorded only for an approved or reviewed session of this key.
LEMMA RecordVerdict ==
    ASSUME NEW dec, Verdict(dec) = "record"
    PROVE  /\ dec # NoDecision /\ Mine(dec)
           /\ StateOf(dec.status) \in {"approved", "in_review"}
<1>1. NoDecision.status = "none" /\ StateOf("none") = "none"
  BY DEF NoDecision, StateOf
<1> QED BY <1>1 DEF Verdict

\* The row's session is recorded: it is this key's, and completes once approved.
LEMMA TakenUpOK ==
    ASSUME TypeOK, NEW cs \in Challenge, Sound(cs), ~Shared => ~cs.completed,
           NEW d, NEW dec, Tells(dec, d), Verdict(dec) = "record"
    PROVE  LET new == TakenUp(cs, d, dec) IN
           /\ new \in Challenge /\ Sound(new) /\ Advance(cs, new)
           /\ new.completed <=> cs.completed \/ StateOf(dec.status) = "approved"
<1>1. /\ dec # NoDecision /\ Mine(dec) /\ dec \in DiditSession
      /\ StateOf(dec.status) \in {"approved", "in_review"}
      /\ dec.status \in DiditStatuses /\ d \in Verification /\ d # NoVerification
  BY RecordVerdict, LinkAssumption DEF Tells, DiditSession
<1>2. /\ moment \in Moment /\ moment \in Nat /\ moment <= moment
      /\ cs.attempt.recorded_at \in Nat /\ cs.attempt.recorded_at <= moment
      /\ cs.attempt.read_at \in Nat /\ cs.attempt.read_at <= moment
  BY ChallengeShape, LinkAssumption DEF TypeOK, Sound, Moment
<1>0. PICK a : a = [id |-> d, status |-> dec.status, recorded_at |-> moment,
                    read_at |-> moment, gone |-> FALSE]
  OBVIOUS
<1>3. /\ a \in Attempt /\ a.id = d /\ a.status = dec.status /\ a.recorded_at = moment
      /\ a.read_at = moment /\ a.gone = FALSE
  BY <1>0, <1>1, <1>2 DEF Attempt
<1>4. PICK done \in BOOLEAN : done = (cs.completed \/ StateOf(dec.status) = "approved")
  BY ChallengeShape
<1>5. PICK new : new = [cs EXCEPT !.attempt = a, !.state = StateOf(dec.status), !.completed = done]
  OBVIOUS
<1>6. TakenUp(cs, d, dec) = new
  BY <1>0, <1>4, <1>5 DEF TakenUp
<1>7. /\ new \in Challenge /\ new.attempt = a /\ new.state = StateOf(dec.status)
      /\ new.completed = done /\ new.tokens = cs.tokens
  BY <1>1, <1>3, <1>5 DEF Challenge, States
<1>8. StateOf(dec.status) = "approved" => OwnApproved(d)
  <2>1. StateOf(dec.status) = "approved" => dec.status = "Approved"
    BY <1>1, StatusStates DEF DiditStatuses
  <2> QED BY <1>1, <2>1 DEF Tells
<1>9. new.completed => \E e \in Completers(d) : OwnApproved(e)
  BY <1>1, <1>4, <1>7, <1>8 DEF Sound, Completers
<1>10. ~Shared => Consistent(new)
  BY <1>1, <1>3, <1>7 DEF Tells, Consistent, Recorded
<1>11. Sound(new)
  BY <1>1, <1>2, <1>3, <1>7, <1>9, <1>10 DEF Sound
<1>12. Advance(cs, new)
  BY <1>1, <1>2, <1>3, <1>4, <1>7 DEF Advance
<1> QED BY <1>4, <1>6, <1>7, <1>11, <1>12

\* A press goes on to createSession.
LEMMA OpensOK ==
    ASSUME Inv, NEW c \in LinkCall, press[c] # Idle, press[c].pc \in {"rows", "judge"},
           press' = [press EXCEPT ![c] = Opening(press[c])],
           UNCHANGED <<store, moment, verif, joinStatus, chal, claimed, pressed_at, moves, counted, mailed>>
    PROVE  Inv' /\ Progress
<1> DEFINE q == press[c]
<1>1. /\ q \in InFlight /\ Sound(q.cs) /\ (~Shared => ~q.cs.completed)
  BY InHand DEF Fits, BeforeCompletion
<1>2. PICK p : p = Opening(q)
  OBVIOUS
<1>3. /\ p \in InFlight /\ p.pc = "create" /\ p.cs = q.cs /\ p.age = q.age
      /\ p.asked = Unasked /\ p.answer = NoDecision /\ p.rows = {}
  BY <1>1, <1>2, OpeningShape
<1>4. Fits(p.pc, p.cs, p.asked, p.answer, p.rows)
  BY <1>1, <1>3, DoneFits
<1> QED BY <1>2, <1>3, <1>4, QuietOK DEF Inv, TypeOK

\* JudgeRow: the loop goes on, or stops at a session of the email.
LEMMA JudgeRowOK ==
    ASSUME Inv, NEW c \in LinkCall, JudgeRow(c)
    PROVE  Inv' /\ Progress
<1> DEFINE q == press[c]
           verdict == Verdict(q.answer)
           next == IF StateOf(q.answer.status) = "approved"
                   THEN [Opening(q) EXCEPT !.pc = "finish"] ELSE Idle
<1>1. PICK new : new = TakenUp(q.cs, q.asked.id, q.answer)
  OBVIOUS
<1>2. /\ q # Idle /\ q.pc = "judge"
      /\ UNCHANGED <<store, moment, verif, joinStatus, claimed, pressed_at, moves, counted, mailed>>
      /\ \/ /\ press' = [press EXCEPT ![c] =
                    [At(q, "rows") EXCEPT !.unreadable = @ \/ verdict = "unreadable"]]
            /\ UNCHANGED chal
         \/ press' = [press EXCEPT ![c] = Opening(q)] /\ UNCHANGED chal
         \/ End(c) /\ UNCHANGED chal
         \/ verdict = "record" /\ Save(c, next, new)
  BY <1>1 DEF JudgeRow
<1>3. /\ q \in InFlight /\ q.cs \in Challenge /\ Sound(q.cs)
      /\ Tells(q.answer, q.asked.id) /\ (~Shared => ~q.cs.completed)
      /\ \A r \in q.rows : StateOf(r[2]) \in States
  BY <1>2, InHand DEF Fits, BeforeCompletion
<1>4. CASE /\ press' = [press EXCEPT ![c] =
                    [At(q, "rows") EXCEPT !.unreadable = @ \/ verdict = "unreadable"]]
           /\ UNCHANGED chal
  <2>1. PICK a : a = At(q, "rows")
    OBVIOUS
  <2>2. /\ a \in InFlight /\ a.pc = "rows" /\ a.cs = q.cs /\ a.age = q.age
        /\ a.asked = Unasked /\ a.answer = NoDecision /\ a.rows = q.rows
    BY <1>3, <2>1, PressShape DEF BeforeCompletion
  <2> DEFINE u == a.unreadable \/ verdict = "unreadable"
  <2>3. u \in BOOLEAN
    OBVIOUS
  <2>4. PICK p : p = [a EXCEPT !.unreadable = u]
    OBVIOUS
  <2>5. /\ p \in InFlight /\ p.pc = "rows" /\ p.cs = q.cs /\ p.age = q.age
        /\ p.asked = Unasked /\ p.answer = NoDecision /\ p.rows = q.rows
    BY <2>2, <2>3, <2>4 DEF InFlight
  <2>6. Fits(p.pc, p.cs, p.asked, p.answer, p.rows)
    BY <1>3, <2>5, DoneFits
  <2>7. press' = [press EXCEPT ![c] = p]
    BY <1>4, <2>1, <2>4
  <2> QED BY <1>2, <1>4, <2>5, <2>6, <2>7, QuietOK DEF Inv, TypeOK
<1>5. CASE press' = [press EXCEPT ![c] = Opening(q)] /\ UNCHANGED chal
  BY <1>2, <1>5, OpensOK
<1>6. CASE End(c) /\ UNCHANGED chal
  BY <1>2, <1>6, EndOK
<1>7. CASE verdict = "record" /\ Save(c, next, new)
  <2>1. /\ new \in Challenge /\ Sound(new) /\ Advance(q.cs, new)
        /\ new.completed <=> q.cs.completed \/ StateOf(q.answer.status) = "approved"
    BY <1>1, <1>3, <1>7, TakenUpOK DEF Inv
  <2>2. May(c, next, new)
    <3>1. CASE StateOf(q.answer.status) # "approved"
      BY <1>2, <2>1, <3>1, MayEnd
    <3>2. CASE StateOf(q.answer.status) = "approved"
      <4>1. PICK o : o = Opening(q)
        OBVIOUS
      <4>2. /\ o \in InFlight /\ o.age = q.age /\ o.asked = Unasked
            /\ o.answer = NoDecision /\ o.rows = {}
        BY <1>3, <4>1, OpeningShape
      <4>3. PICK p : p = [o EXCEPT !.pc = "finish"]
        OBVIOUS
      <4>4. /\ p \in InFlight /\ p.pc = "finish" /\ p.age = q.age /\ p.asked = Unasked
            /\ p.answer = NoDecision /\ p.rows = {}
        BY <4>2, <4>3 DEF InFlight
      <4>5. Fits("finish", new, Unasked, NoDecision, {})
        BY <2>1, <3>2, DoneFits
      <4>6. next = p
        BY <3>2, <4>1, <4>3
      <4> HIDE DEF next
      <4> QED BY <1>2, <2>1, <4>4, <4>5, <4>6 DEF May
    <3> QED BY <3>1, <3>2
  <2> HIDE DEF next
  <2> QED BY <1>2, <1>7, <2>2, ChangeOK DEF Inv, TypeOK
<1> QED BY <1>2, <1>4, <1>5, <1>6, <1>7

\* A request saves its object as it is, with a status, and ends.
LEMMA SaveAsOK ==
    ASSUME Inv, NEW c \in LinkCall, press[c] # Idle, NEW status \in {"rejected", "ready"},
           SaveAs(status, c, Idle, press[c].cs), status = "ready" => press[c].cs.completed,
           UNCHANGED <<store, moment, verif, claimed, pressed_at, moves, counted, mailed>>
    PROVE  Inv' /\ Progress
<1>1. press[c].cs \in Challenge /\ Sound(press[c].cs)
  BY InHand
<1>2. May(c, Idle, press[c].cs)
  BY <1>1, AdvanceSelf, MayEnd
<1>3. /\ Save(c, Idle, press[c].cs)
      /\ joinStatus' = IF joinStatus = "dropped" THEN joinStatus ELSE status
  BY DEF SaveAs
<1> QED BY <1>2, <1>3, ChangeOK DEF Inv, TypeOK

\* NoneSettles: refused, rejected by the cap, or going on to a session of its own.
LEMMA NoneSettlesOK ==
    ASSUME Inv, NEW c \in LinkCall, NoneSettles(c)
    PROVE  Inv' /\ Progress
<1> DEFINE q == press[c]
<1>1. /\ q # Idle /\ q.pc = "rows"
      /\ UNCHANGED <<store, moment, verif, claimed, pressed_at, moves, counted, mailed>>
      /\ \/ End(c) /\ UNCHANGED <<chal, joinStatus>>
         \/ press' = [press EXCEPT ![c] = Opening(q)] /\ UNCHANGED <<chal, joinStatus>>
         \/ SaveAs("rejected", c, Idle, q.cs)
  BY DEF NoneSettles, Inv, TypeOK
<1>2. CASE End(c) /\ UNCHANGED <<chal, joinStatus>>
  BY <1>1, <1>2, EndOK
<1>3. CASE press' = [press EXCEPT ![c] = Opening(q)] /\ UNCHANGED <<chal, joinStatus>>
  BY <1>1, <1>3, OpensOK
<1>4. CASE SaveAs("rejected", c, Idle, q.cs)
  BY <1>1, <1>4, SaveAsOK
<1> QED BY <1>1, <1>2, <1>3, <1>4

\* createSession takes nothing back, and answers with an open session.
LEMMA CreateKeeps ==
    ASSUME TypeOK, NEW d \in Verification, NEW key \in {"this key", "other key"}, Create(d, key),
           UNCHANGED <<store, moment>>
    PROVE  /\ Onwards
           /\ verif' \in [Verification -> DiditSession \cup {NoDecision}]
           /\ verif'[d].status \in {"Not Started", "In Progress"}
<1>1. moment \in Moment /\ moment' = moment /\ moment' >= moment
  BY MomentOrder DEF TypeOK
<1>2. CASE OpenAtDidit # {}
  <2>1. /\ d \in OpenAtDidit /\ verif[d] \in DiditSession
        /\ StateOf(verif[d].status) = "in_progress" /\ verif[d].status \in DiditStatuses
    BY <1>2 DEF Create, OpenAtDidit, Held, TypeOK, DiditSession
  <2>2. verif[d].status \in {"Not Started", "In Progress"}
    BY <2>1, StatusStates DEF DiditStatuses
  <2>3. PICK o \in {"this key", "other key"} : verif' = [verif EXCEPT ![d] = [verif[d] EXCEPT !.owner = o]]
    BY <1>2, <2>1 DEF Create, TypeOK, DiditSession
  <2>4. /\ [verif[d] EXCEPT !.owner = o] \in DiditSession
        /\ [verif[d] EXCEPT !.owner = o].status = verif[d].status
    BY <2>1 DEF DiditSession
  <2>5. verif'[d] = [verif[d] EXCEPT !.owner = o]
        /\ \A e \in Verification : e # d => verif'[e] = verif[e]
    BY <2>3 DEF TypeOK
  <2>6. \A e \in Verification : OwnApproved(e) => OwnApproved(e)'
    BY <2>2, <2>5 DEF OwnApproved
  <2>7. \A e \in Verification : verif'[e].status = verif[e].status
    BY <2>4, <2>5
  <2> QED BY <1>1, <2>2, <2>3, <2>4, <2>5, <2>6, <2>7 DEF Onwards, TypeOK
<1>3. CASE OpenAtDidit = {}
  <2>1. PICK n : n = [status |-> "Not Started", owner |-> key, there |-> TRUE]
    OBVIOUS
  <2>2. verif' = [verif EXCEPT ![d] = n] /\ verif[d] = NoDecision
    BY <1>3, <2>1 DEF Create
  <2>3. n \in DiditSession /\ n.status = "Not Started"
    BY <2>1 DEF DiditSession, DiditStatuses
  <2>4. verif'[d] = n /\ \A e \in Verification : e # d => verif'[e] = verif[e]
    BY <2>2 DEF TypeOK
  <2>5. ~OwnApproved(d)
    <3>1. NoDecision.status = "none"
      BY DEF NoDecision
    <3> QED BY <2>2, <3>1 DEF OwnApproved
  <2>6. \A e \in Verification : OwnApproved(e) => OwnApproved(e)'
    BY <2>4, <2>5 DEF OwnApproved
  <2>7. \A e \in Verification, s \in DiditStatuses :
            verif[e].status \in Onward[s] => verif'[e].status \in Onward[s]
    BY <2>2, <2>4, OnwardMoves
  <2> QED BY <1>1, <2>2, <2>3, <2>4, <2>6, <2>7 DEF Onwards, TypeOK
<1> QED BY <1>2, <1>3

\* CreateAtDidit: the session that was opened is on its way to the request.
LEMMA CreateAtDiditOK ==
    ASSUME Inv, NEW c \in LinkCall, CreateAtDidit(c)
    PROVE  Inv' /\ Progress
<1> DEFINE q == press[c]
<1>1. /\ q # Idle /\ q \in InFlight /\ q.pc = "create" /\ q.cs \in Challenge
      /\ Fits(q.pc, q.cs, q.asked, q.answer, q.rows)
      /\ UNCHANGED <<store, moment, joinStatus, chal, claimed, pressed_at, moves, counted, mailed>>
  BY InHand DEF CreateAtDidit
<1>2. PICK d \in Verification :
        /\ Create(d, "this key")
        /\ press' = [press EXCEPT ![c].pc = "opened",
                ![c].answer = [id |-> d, status |-> verif'[d].status]]
  BY DEF CreateAtDidit
<1>3. /\ Onwards /\ verif' \in [Verification -> DiditSession \cup {NoDecision}]
      /\ verif'[d].status \in {"Not Started", "In Progress"}
  BY <1>1, <1>2, CreateKeeps DEF Inv
<1>4. PICK ans : ans = [id |-> d, status |-> verif'[d].status]
  OBVIOUS
<1>5. PICK p : p = [q EXCEPT !.pc = "opened", !.answer = ans]
  OBVIOUS
<1>6. /\ ans \in [id : Verification, status : {"Not Started", "In Progress"}]
      /\ ans.id = d /\ ans.status = verif'[d].status
      /\ ans.status \in DiditStatuses
  BY <1>3, <1>4 DEF DiditStatuses
<1>7. ans \in [id : Verification, status : DiditStatuses]
  BY <1>4, <1>6
<1>8. /\ p \in InFlight /\ p # Idle /\ p.cs = q.cs /\ p.age = q.age /\ p.pc = "opened"
      /\ p.answer = ans /\ p.asked = q.asked /\ p.rows = q.rows
  <2>1. /\ p \in InFlight /\ p.cs = q.cs /\ p.age = q.age /\ p.pc = "opened"
        /\ p.answer = ans /\ p.asked = q.asked /\ p.rows = q.rows
    BY <1>1, <1>5, <1>7 DEF InFlight
  <2> QED BY <2>1, InFlightShape
<1>9. Sound(p.cs)'
  <2>1. p.cs \in Challenge /\ Sound(p.cs)
    BY <1>1, <1>8 DEF Fits
  <2> QED BY <1>3, <2>1, SoundFrame
<1>10. verif'[ans.id].status \in Onward[ans.status]
  BY <1>6, OnwardMoves
<1>11. /\ \A r \in p.rows : StateOf(r[2]) \in States
       /\ ~Shared => ~p.cs.completed
  BY <1>1, <1>8 DEF Fits, BeforeCompletion
<1>12. store' = store
  BY <1>1
<1>13. Holds(p)'
  BY <1>6, <1>8, <1>9, <1>10, <1>11, <1>12 DEF Holds, Fits, Shared
<1>14. press' = [press EXCEPT ![c] = p]
  BY <1>2, <1>4, <1>5 DEF Inv, TypeOK
<1> QED BY <1>1, <1>3, <1>8, <1>13, <1>14, MoveOK DEF Inv, TypeOK

\* Opened: the session that was opened is recorded, as not yet complete.
LEMMA OpenedOK ==
    ASSUME Inv, NEW c \in LinkCall, Opened(c)
    PROVE  Inv' /\ Progress
<1> DEFINE q == press[c]
<1>1. /\ q # Idle /\ q \in InFlight /\ q.cs \in Challenge /\ Sound(q.cs)
      /\ Fits("opened", q.cs, q.asked, q.answer, q.rows)
      /\ UNCHANGED <<store, moment, verif, joinStatus, claimed, pressed_at, moves, counted, mailed>>
  BY InHand DEF Opened
<1>2. /\ q.answer.id \in Verification /\ q.answer.id # NoVerification
      /\ q.answer.status \in {"Not Started", "In Progress"}
      /\ verif[q.answer.id].status \in Onward[q.answer.status]
      /\ ~Shared => ~q.cs.completed
  BY <1>1, LinkAssumption DEF Fits, BeforeCompletion
<1>3. /\ moment \in Moment /\ moment \in Nat /\ moment <= moment
      /\ q.cs.attempt.recorded_at \in Moment
      /\ q.cs.attempt.recorded_at \in Nat /\ q.cs.attempt.recorded_at <= moment
      /\ q.cs.attempt.read_at \in Nat /\ q.cs.attempt.read_at <= moment
  BY <1>1, ChallengeShape, LinkAssumption DEF Inv, TypeOK, Sound, Moment
<1>4. PICK rec : rec = IF q.cs.attempt.id = q.answer.id THEN q.cs.attempt.recorded_at ELSE moment
  OBVIOUS
<1>5. PICK a : a = [id |-> q.answer.id, status |-> q.answer.status, read_at |-> moment,
                    gone |-> FALSE, recorded_at |-> rec]
  OBVIOUS
<1>6. /\ a \in Attempt /\ a.id = q.answer.id /\ a.gone = FALSE /\ a.status = q.answer.status
      /\ a.recorded_at = rec /\ a.read_at = moment
  BY <1>2, <1>3, <1>4, <1>5 DEF Attempt, DiditStatuses
<1>7. PICK new : new = [q.cs EXCEPT !.state = "in_progress", !.attempt = a]
  OBVIOUS
<1>8. /\ new \in Challenge /\ new.state = "in_progress" /\ new.attempt = a
      /\ new.completed = q.cs.completed /\ new.tokens = q.cs.tokens
  BY <1>1, <1>6, <1>7 DEF Challenge, States
<1>9. ~Shared => Consistent(new)
  BY <1>2, <1>6, <1>8, StatusStates DEF Consistent, Recorded
<1>10. new.completed => \E d \in Completers(new.attempt.id) : OwnApproved(d)
  BY <1>1, <1>2, <1>8 DEF Sound, Completers
<1>11. Sound(new)
  BY <1>2, <1>3, <1>4, <1>6, <1>8, <1>9, <1>10 DEF Sound
<1>12. Advance(q.cs, new)
  BY <1>2, <1>3, <1>4, <1>6, <1>8 DEF Advance
<1>13. Save(c, Idle, new)
  BY <1>4, <1>5, <1>7 DEF Opened
<1>14. May(c, Idle, new)
  BY <1>1, <1>8, <1>11, <1>12, MayEnd
<1> QED BY <1>1, <1>13, <1>14, ChangeOK DEF Inv, TypeOK

\* Mailed: the token of an email that was sent is saved with the object.
LEMMA MailedOK ==
    ASSUME Inv, NEW c \in LinkCall, Mailed(c)
    PROVE  Inv' /\ Progress
<1> DEFINE q == press[c]
<1>1. /\ q # Idle /\ q \in InFlight /\ q.cs \in Challenge /\ Sound(q.cs)
      /\ UNCHANGED <<store, moment, verif, joinStatus, claimed, pressed_at, moves, counted>>
  BY InHand DEF Mailed
<1>2. CASE End(c) /\ UNCHANGED <<chal, mailed>>
  BY <1>1, <1>2, EndOK
<1>3. CASE \E t \in Token \ chal.tokens :
              /\ Save(c, Idle, [q.cs EXCEPT !.tokens = @ \cup {t}])
              /\ mailed' = mailed \cup {t}
  <2>1. PICK t, new : /\ t \in Token /\ new = [q.cs EXCEPT !.tokens = @ \cup {t}]
                      /\ Save(c, Idle, new) /\ mailed' = mailed \cup {t}
    BY <1>3
  <2>2. /\ new \in Challenge /\ new.state = q.cs.state /\ new.attempt = q.cs.attempt
        /\ new.completed = q.cs.completed /\ new.tokens = q.cs.tokens \cup {t}
    BY <1>1, <2>1 DEF Challenge
  <2>3. Sound(new)
    BY <1>1, <2>2 DEF Sound, Consistent, Recorded
  <2>4. Advance(q.cs, new)
    BY <1>1, <2>2, AdvanceSelf DEF Advance
  <2>5. mailed' \subseteq Token /\ mailed' \subseteq mailed \cup new.tokens
    BY <2>1, <2>2 DEF Inv, TypeOK
  <2>6. May(c, Idle, new)
    BY <1>1, <2>2, <2>3, <2>4, MayEnd
  <2> QED BY <1>1, <2>1, <2>5, <2>6, ChangeOK DEF Inv, TypeOK
<1> QED BY <1>2, <1>3 DEF Mailed

\* Finish: ready is saved with an object that is complete.
LEMMA FinishOK ==
    ASSUME Inv, NEW c \in LinkCall, Finish(c)
    PROVE  Inv' /\ Progress
<1>1. /\ press[c] # Idle
      /\ UNCHANGED <<store, moment, verif, claimed, pressed_at, moves, counted, mailed>>
      /\ press[c].cs.completed
  BY InHand DEF Finish, Fits
<1>2. CASE SaveAs("ready", c, Idle, press[c].cs)
  BY <1>1, <1>2, SaveAsOK
<1>3. CASE End(c) /\ UNCHANGED <<chal, joinStatus>>
  BY <1>1, <1>3, EndOK
<1> QED BY <1>2, <1>3 DEF Finish

----------------------------------------------------------------------------
(* The environment *)

\* A step that leaves the join and its requests alone.
LEMMA OutsideOK ==
    ASSUME Inv, Onwards, UNCHANGED <<chal, press, claimed, pressed_at, counted, mailed>>,
           verif' \in [Verification -> DiditSession \cup {NoDecision}],
           moves' \in 0 .. MaxMoves,
           joinStatus' \in {"pending", "ready", "rejected", "dropped"},
           joinStatus' \in {joinStatus, "dropped"}
    PROVE  Inv' /\ Progress
<1>1. chal \in Challenge /\ store' = store
  BY DEF Inv, TypeOK, Onwards
<1>2. TypeOK'
  BY <1>1 DEF Inv, TypeOK, Onwards
<1>3. Sound(chal)'
  BY <1>1, SoundNext DEF Inv
<1>4. ASSUME NEW k \in LinkCall PROVE Holds(press[k])'
  <2>1. \A j \in LinkCall : press'[j] \in InFlight \cup {Idle} /\ Holds(press'[j])
    BY DEF Inv, TypeOK
  <2> QED BY <2>1, AllHold
<1>5. Objects'
  BY <1>1 DEF Inv, Objects, Shared
<1>6. Progress
  BY <1>1, ChallengeShape, LinkAssumption DEF Progress, Moment
<1> QED BY <1>2, <1>3, <1>4, <1>5, <1>6 DEF Inv, TokensKept

\* Didit's reviewers and Didit move a session on, and another key opens one.
LEMMA DiditOK ==
    ASSUME Inv, Verify \/ Purge \/ OtherOpens
    PROVE  Inv' /\ Progress
<1>1. /\ moves' \in 0 .. MaxMoves
      /\ UNCHANGED <<store, moment, joinStatus, chal, press, claimed, pressed_at, counted, mailed>>
  <2>1. moves \in 0 .. MaxMoves /\ MaxMoves \in Nat
    BY LinkAssumption DEF Inv, TypeOK
  <2>2. moves < MaxMoves /\ moves' = moves + 1
    BY DEF Verify, Purge, OtherOpens, Moved
  <2>3. moves' \in 0 .. MaxMoves
    BY <2>1, <2>2
  <2> QED BY <2>3 DEF Verify, Purge, OtherOpens
<1>2. Onwards /\ verif' \in [Verification -> DiditSession \cup {NoDecision}]
  <2>1. CASE OtherOpens
    BY <1>1, <2>1, CreateKeeps DEF OtherOpens, Inv
  <2>2. ASSUME NEW d \in Held, NEW n \in DiditSession, verif' = [verif EXCEPT ![d] = n],
               n.owner = verif[d].owner,
               n.status = verif[d].status \/ n.status \in Moves[verif[d].status]
        PROVE  Onwards /\ verif' \in [Verification -> DiditSession \cup {NoDecision}]
    <3>1. d \in Verification /\ verif[d] \in DiditSession
      BY DEF Held, Inv, TypeOK
    <3>2. verif'[d] = n /\ \A e \in Verification : e # d => verif'[e] = verif[e]
      BY <2>2, <3>1 DEF Inv, TypeOK
    <3>3. verif[d].status \in DiditStatuses /\ n.status \in DiditStatuses
      BY <3>1 DEF DiditSession
    <3>4. verif[d].status = "Approved" => n.status = "Approved"
      BY <2>2, <3>3 DEF Moves, DiditStatuses
    <3>5. \A e \in Verification : OwnApproved(e) => OwnApproved(e)'
      BY <2>2, <3>2, <3>4 DEF OwnApproved
    <3>6. ASSUME NEW e \in Verification, NEW s \in DiditStatuses, verif[e].status \in Onward[s]
          PROVE  verif'[e].status \in Onward[s]
      BY <2>2, <3>2, <3>3, <3>6, OnwardMoves
    <3>7. moment \in Moment /\ moment' = moment /\ moment' >= moment
      BY <1>1, LinkAssumption DEF Inv, TypeOK, Moment
    <3> QED BY <1>1, <2>2, <3>1, <3>5, <3>6, <3>7 DEF Onwards, Inv, TypeOK
  <2>3. CASE Verify
    <3>1. PICK d \in Held, st \in DiditStatuses :
            /\ st \in Moves[verif[d].status] /\ verif' = [verif EXCEPT ![d].status = st]
      BY <2>3 DEF Verify
    <3>2. verif[d] \in DiditSession /\ d \in Verification
      BY DEF Held, Inv, TypeOK
    <3>3. PICK n : n = [verif[d] EXCEPT !.status = st]
      OBVIOUS
    <3>4. n \in DiditSession /\ n.status = st /\ n.owner = verif[d].owner
      BY <3>2, <3>3 DEF DiditSession
    <3>5. verif' = [verif EXCEPT ![d] = n]
      BY <3>1, <3>3 DEF Inv, TypeOK
    <3> QED BY <2>2, <3>1, <3>4, <3>5
  <2>4. CASE Purge
    <3>1. PICK d \in Held : verif' = [verif EXCEPT ![d].there = FALSE]
      BY <2>4 DEF Purge
    <3>2. verif[d] \in DiditSession /\ d \in Verification
      BY DEF Held, Inv, TypeOK
    <3>3. PICK n : n = [verif[d] EXCEPT !.there = FALSE]
      OBVIOUS
    <3>4. n \in DiditSession /\ n.status = verif[d].status /\ n.owner = verif[d].owner
      BY <3>2, <3>3 DEF DiditSession
    <3>5. verif' = [verif EXCEPT ![d] = n]
      BY <3>1, <3>3 DEF Inv, TypeOK
    <3> QED BY <2>2, <3>4, <3>5
  <2> QED BY <2>1, <2>3, <2>4
<1> QED BY <1>1, <1>2, OutsideOK DEF Inv, TypeOK

\* Time keeps the invariant.
LEMMA ClockOK ==
    ASSUME Inv, Drop \/ PassMoment
    PROVE  Inv' /\ Progress
<1>1. /\ UNCHANGED <<store, verif, chal, press, claimed, pressed_at, moves, counted, mailed>>
      /\ joinStatus' \in {joinStatus, "dropped"}
  BY DEF Drop, PassMoment
<1>2. moment \in Moment /\ moment' \in Moment /\ moment' >= moment
  <2>1. moment \in Moment
    BY DEF Inv, TypeOK
  <2>2. moment' = moment \/ (moment < MaxMoment /\ moment' = moment + 1)
    BY DEF Drop, PassMoment
  <2> QED BY <2>1, <2>2, LinkAssumption DEF Moment
<1>3. Onwards
  BY <1>1, <1>2 DEF Onwards, OwnApproved
<1> QED BY <1>1, <1>3, OutsideOK DEF Inv, TypeOK

----------------------------------------------------------------------------
(* The theorems *)

\* The invariant holds at first.
LEMMA InitOK == Init => Inv
<1> SUFFICES ASSUME Init PROVE Inv
  OBVIOUS
<1>1. PICK t \in Token :
          /\ chal = [state |-> "link_sent", completed |-> FALSE,
                     attempt |-> NoAttempt, tokens |-> {t}]
          /\ mailed = {t}
  BY DEF Init
<1>2. 0 \in Moment /\ moment = 0
  <2>1. 0 \in Moment
    BY LinkAssumption DEF Moment
  <2>2. moment = 0
    BY DEF Init
  <2> QED BY <2>1, <2>2
<1>3. /\ NoAttempt \in Attempt /\ NoAttempt.id = NoVerification
      /\ NoAttempt.recorded_at = 0 /\ NoAttempt.read_at = 0
  BY <1>2 DEF NoAttempt, Attempt, DiditStatuses
<1>4. chal \in Challenge /\ chal.state = "link_sent" /\ chal.attempt = NoAttempt
      /\ ~chal.completed /\ chal.tokens = {t}
  BY <1>1, <1>3 DEF Challenge, States
<1>8. verif \in [Verification -> DiditSession \cup {NoDecision}]
  <2>1. [status : Before, owner : {"this key"}, there : {TRUE}] \subseteq DiditSession
    BY LinkAssumption DEF DiditSession
  <2> QED BY <2>1 DEF Init
<1>5. TypeOK
  BY <1>1, <1>2, <1>4, <1>8, LinkAssumption DEF Init, TypeOK
<1>6. Sound(chal)
  BY <1>2, <1>3, <1>4 DEF Sound, Consistent, Recorded
<1>7. \A c \in LinkCall : press[c] = Idle
  BY DEF Init
<1> QED BY <1>1, <1>4, <1>5, <1>6, <1>7 DEF Init, Inv, TokensKept, Holds, Objects

\* Every step keeps the invariant, and the progress of the stored challenge.
LEMMA NextOK == Inv /\ [Next]_linkVars => Inv' /\ (Progress \/ UNCHANGED linkVars)
<1> SUFFICES ASSUME Inv, [Next]_linkVars PROVE Inv' /\ (Progress \/ UNCHANGED linkVars)
  OBVIOUS
<1>1. CASE Next
  BY <1>1, BeginOK, UnavailableOK, AskOK, ApplyPressOK, ApplyPollOK, ListOK, ReadRowOK,
     JudgeRowOK, NoneSettlesOK, CreateAtDiditOK, OpenedOK, MailedOK, FinishOK, DiditOK,
     ClockOK DEF Next
<1>2. CASE UNCHANGED linkVars
  <2>1. Onwards
    BY <1>2, Still DEF Inv, linkVars
  <2> QED BY <1>2, <2>1, OutsideOK DEF linkVars, Inv, TypeOK
<1> QED BY <1>1, <1>2

\* The stored challenge and every object in flight are sound in every reachable state.
THEOREM Invariance == Spec => []Inv
<1> QED BY InitOK, NextOK, PTL DEF Spec

\* Every variable keeps its type.
THEOREM TypeCorrect == Spec => []TypeOK
<1>1. Inv => TypeOK
  BY DEF Inv
<1> QED BY <1>1, Invariance, PTL

\* A join completes only from an approved Didit session that names its key, the
\* recorded one where each request has a copy, and it is ready only once complete.
THEOREM OwnApprovalOnly == Spec => []OnlyOwnApproval
<1>1. Inv => OnlyOwnApproval
  BY DEF Inv, Sound, Completers, OwnApproved, OnlyOwnApproval
<1> QED BY <1>1, Invariance, PTL

\* Where each request has a copy, the state shown to the app is the recorded
\* session's, and its status one that session had, whoever saved last.
THEOREM StateIsOfAttempt == Spec => []StateOfAttempt
<1>1. Inv => StateOfAttempt
  <2>1. store = "sqlite" => ~Shared
    BY DEF Shared
  <2> QED BY <2>1 DEF Inv, Sound, Consistent, StateOfAttempt, StatusOfSession
<1> QED BY <1>1, Invariance, PTL

\* Every token whose email was sent stays in the challenge.
THEOREM TokensStay == Spec => []TokensKept
<1>1. Inv => TokensKept
  BY DEF Inv
<1> QED BY <1>1, Invariance, PTL

\* No save takes a link's progress back, over either store.
THEOREM ProgressStays == Spec => ProgressKept
<1>1. Inv /\ [Next]_linkVars =>
          [/\ chal.completed => chal'.completed
           /\ ~chal'.completed =>
                  IF chal'.attempt.id # chal.attempt.id
                  THEN chal'.attempt.recorded_at >= chal.attempt.recorded_at
                  ELSE chal'.attempt.read_at >= chal.attempt.read_at]_linkVars
  BY NextOK DEF Progress
<1> QED BY <1>1, Invariance, PTL DEF Spec, ProgressKept

=============================================================================
