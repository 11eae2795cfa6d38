--------------------------- MODULE LinkChallenge ---------------------------
(***************************************************************************)
(* One join that waits for an emailed link and a Didit verification        *)
(* (didit-with-email.ts, didit-links.ts, didit/client.ts, and the merge of *)
(* session/store.ts).  Presses of the link's Continue button, reads by     *)
(* status, resume and the done page, and resends wait for Didit with the   *)
(* session in hand and save over what the others saved; Didit's reviewers, *)
(* and another key that verifies the same email, act in between.           *)
(*                                                                         *)
(* SqliteSessionStore gives each request a copy.  MemorySessionStore copies*)
(* the session but not its challenges: requests that read it after the same*)
(* save hold one object, the stored one until the next save replaces that  *)
(* by a merged one (`age').                                                *)
(*                                                                         *)
(* Abstracted: the challenge is the only one of its session; the steps of a*)
(* request between two waits for Didit or the mail server are one, its     *)
(* calls of the store among them; the statuses that stateOf maps alike are *)
(* one, and expired is declined; a decision that names another workflow or *)
(* environment is an answer that does not come.  The limits on presses,    *)
(* emails and billed sessions are EventLimits' and appear here as the      *)
(* spacing of presses and resends and as CapPerDay.                        *)
(***************************************************************************)
EXTENDS Integers, FiniteSets

CONSTANTS
    Verification,  \* ids of Didit sessions
    Token,         \* link tokens
    LinkCall,      \* the requests in flight together
    Stores,        \* the stores a service may keep its sessions in
    MaxSessions,   \* didit.max_sessions_per_email
    ReadInterval,  \* READ_INTERVAL_MS, by state
    Before,        \* statuses an earlier join of this key and email may have left at Didit
    CapPerDay,     \* may didit.max_sessions_per_day be reached: FALSE, TRUE or both
    MaxMoves,      \* bound: how often Didit's sessions move
    MaxMoment      \* bound: the clock stops here

States == {"link_sent", "in_progress", "in_review", "declined", "approved"}
DiditStatuses ==
    {"Not Started", "In Progress", "In Review", "Declined", "Approved", "unheard of"}

\* The id of an attempt that has none yet; no session of Didit's has it.
NoVerification == "none"

ASSUME LinkAssumption ==
    /\ NoVerification \notin Verification
    /\ Stores \subseteq {"memory", "sqlite"} /\ Before \subseteq DiditStatuses
    /\ MaxSessions \in Nat \ {0} /\ MaxMoment \in Nat /\ MaxMoves \in Nat /\ CapPerDay \subseteq BOOLEAN
    /\ ReadInterval \in [{"in_progress", "in_review", "declined"} -> Nat \ {0}]

VARIABLES
    store,       \* the store of this service
    moment,      \* the clock
    verif,       \* Didit's sessions for this email
    joinStatus,  \* the stored session's status; dropped: replaced or expired
    chal,        \* the stored challenge
    press,       \* the requests in flight
    claimed,     \* when a read of each state was last claimed
    pressed_at,  \* the last press that was let through
    moves,       \* how often Didit's sessions were moved from outside
    counted,     \* the Didit sessions counted as billed
    mailed       \* ghost: tokens whose email was sent and recorded

linkVars == <<store, moment, verif, joinStatus, chal, press, claimed, pressed_at, moves, counted, mailed>>

Moment == 0 .. MaxMoment
NoAttempt == [id |-> NoVerification, status |-> "Not Started",
              recorded_at |-> 0, read_at |-> 0, gone |-> FALSE]

Attempt == [id : Verification \cup {NoVerification}, status : DiditStatuses,
            recorded_at : Moment, read_at : Moment, gone : BOOLEAN]
Challenge == [state : States, completed : BOOLEAN, attempt : Attempt, tokens : SUBSET Token]

\* A session at Didit: the key in its metadata, and whether Didit still has it.
DiditSession == [status : DiditStatuses, owner : {"this key", "other key"}, there : BOOLEAN]
NoDecision == [status |-> "none"]

Idle == [op |-> "idle"]
Unasked == [id |-> NoVerification, status |-> "none", state |-> "none"]

\* What a request holds: its challenge object and how many saves ago that was the
\* stored one, what it recorded of the session it asks for, and of a press the
\* listed sessions it has still to read, whether they reach the cap per email, and
\* whether one of them could not be read.
InFlight == [op : {"press", "poll", "done", "resend"},
             pc : {"ask", "apply", "list", "rows", "judge", "create", "opened", "finish", "mail"},
             cs : Challenge, age : Nat,
             asked : {Unasked} \cup [id : Verification, status : DiditStatuses, state : States],
             answer : DiditSession \cup {NoDecision} \cup
                      [id : Verification, status : DiditStatuses],
             rows : SUBSET (Verification \X DiditStatuses), full : BOOLEAN, unreadable : BOOLEAN]

TypeOK ==
    /\ store \in Stores
    /\ moment \in Moment
    /\ verif \in [Verification -> DiditSession \cup {NoDecision}]
    /\ joinStatus \in {"pending", "ready", "rejected", "dropped"}
    /\ chal \in Challenge
    /\ press \in [LinkCall -> {Idle} \cup InFlight]
    /\ claimed \in [DOMAIN ReadInterval -> Moment \cup {-1}]
    /\ pressed_at \in Moment \cup {-1}
    /\ moves \in 0 .. MaxMoves
    /\ counted \subseteq Verification
    /\ mailed \subseteq Token

\* sendFirst has emailed the first token.  A join that expired or was replaced may
\* have left a session that no read found billed.
Init ==
    /\ store \in Stores
    /\ moment = 0
    /\ verif \in [Verification -> {NoDecision} \cup
                     [status : Before, owner : {"this key"}, there : {TRUE}]]
    /\ Cardinality({d \in Verification : verif[d] # NoDecision}) <= 1
    /\ joinStatus = "pending"
    /\ \E t \in Token :
        /\ chal = [state |-> "link_sent", completed |-> FALSE,
                   attempt |-> NoAttempt, tokens |-> {t}]
        /\ mailed = {t}
    /\ press = [c \in LinkCall |-> Idle]
    /\ claimed = [s \in DOMAIN ReadInterval |-> -1]
    /\ pressed_at = -1 /\ moves \in 0 .. MaxMoves
    /\ counted = {}

----------------------------------------------------------------------------
(* Didit *)

\* STATES of client.ts; a status that is not in it has no state.
StateOf(status) ==
    CASE status \in {"Not Started", "In Progress"} -> "in_progress"
      [] status = "In Review" -> "in_review"
      [] status = "Declined" -> "declined"
      [] status = "Approved" -> "approved"
      [] OTHER -> "none"

Billed == {"Approved", "Declined", "In Review"}

Held == {d \in Verification : verif[d] # NoDecision /\ verif[d].there}
OpenAtDidit == {d \in Held : StateOf(verif[d].status) = "in_progress"}

\* DiditClient.decision: null once Didit has the session no more.
Decision(d) == IF d \in Held THEN verif[d] ELSE NoDecision

\* DiditClient.createSession: the email's open session, or a new one.  One that
\* is not started goes to the key that asks.
Create(d, key) ==
    IF OpenAtDidit # {}
    THEN /\ d \in OpenAtDidit
         /\ verif' = [verif EXCEPT ![d].owner =
                IF verif[d].status = "Not Started" THEN key ELSE @]
    ELSE /\ verif[d] = NoDecision
         /\ verif' = [verif EXCEPT ![d] =
                [status |-> "Not Started", owner |-> key, there |-> TRUE]]

\* The applicant and Didit's reviewers move a session on; a decline can be
\* reversed, an approval is not.
Moves == [s \in DiditStatuses |->
    CASE s = "Not Started" -> {"In Progress", "Declined"}
      [] s = "In Progress" -> {"In Review", "Approved", "Declined", "unheard of"}
      [] s = "In Review"   -> {"Approved", "Declined"}
      [] s = "Declined"    -> {"Approved"}
      [] OTHER -> {}]

Moved == moves < MaxMoves /\ moves' = moves + 1

Verify ==
    /\ Moved
    /\ \E d \in Held, s \in DiditStatuses :
        /\ s \in Moves[verif[d].status]
        /\ verif' = [verif EXCEPT ![d].status = s]
    /\ UNCHANGED <<store, moment, joinStatus, chal, press, claimed, pressed_at, counted, mailed>>

\* Didit deletes a session.
Purge ==
    /\ Moved
    /\ \E d \in Held : verif' = [verif EXCEPT ![d].there = FALSE]
    /\ UNCHANGED <<store, moment, joinStatus, chal, press, claimed, pressed_at, counted, mailed>>

\* A join of another key with the same email asks for a session.
OtherOpens ==
    /\ Moved
    /\ \E d \in Verification : Create(d, "other key")
    /\ UNCHANGED <<store, moment, joinStatus, chal, press, claimed, pressed_at, counted, mailed>>

----------------------------------------------------------------------------
(* The store's merge of two writers *)

\* Mutant: the incoming challenge wins, whichever session it recorded.
LaterIncoming(prev, next) == next

\* laterProgress.
Later(prev, next) ==
    LET a == prev.attempt  b == next.attempt IN
        CASE a.id = NoVerification -> next
          [] b.id = NoVerification -> prev
          [] a.id = b.id -> IF a.read_at > b.read_at THEN prev ELSE next
          [] OTHER -> IF a.recorded_at > b.recorded_at THEN prev ELSE next

\* Mutant: the incoming tokens replace the stored ones.
MergedTokens(prev, next) ==
    IF prev.completed # next.completed THEN (IF prev.completed THEN prev ELSE next)
    ELSE Later(prev, next)

\* Mutant: the state is the incoming one, whichever side is kept.
MergedState(prev, next) ==
    LET kept == IF prev.completed # next.completed
                THEN (IF prev.completed THEN prev ELSE next)
                ELSE Later(prev, next)
    IN  [kept EXCEPT !.tokens = prev.tokens \cup next.tokens, !.state = next.state]

\* mergeLinkProgress.
Merged(prev, next) ==
    LET kept == IF prev.completed # next.completed
                THEN (IF prev.completed THEN prev ELSE next)
                ELSE Later(prev, next)
    IN  [kept EXCEPT !.tokens = prev.tokens \cup next.tokens]

\* get of the memory store leaves the challenges where they are.
Shared == store = "memory"

\* The requests whose challenge is one object: they read it after the same save.
Sharing(c) ==
    IF Shared THEN {k \in LinkCall : press[k] # Idle /\ press[k].age = press[c].age} ELSE {c}

\* What the store has once c's code made its object new: that object is the
\* stored one until a save replaces it.
InStore(c, new) == IF Shared /\ press[c].age = 0 THEN new ELSE chal

\* The requests in flight then, c as next, and saves more saves ago.
Holding(c, next, new, saves) ==
    press' = [k \in LinkCall |->
        LET p == IF k = c THEN next ELSE press[k] IN
            IF p = Idle THEN Idle
            ELSE [p EXCEPT !.cs = IF k \in Sharing(c) THEN new ELSE @, !.age = @ + saves]]

\* c goes on as next with its object made new, which it does not save.
Alter(c, next, new) == chal' = InStore(c, new) /\ Holding(c, next, new, 0)

\* The same, and store.update: nothing once the session is gone, and otherwise a
\* merged object takes the place of the stored one.
Save(c, next, new) ==
    IF joinStatus = "dropped" THEN Alter(c, next, new)
    ELSE /\ chal' = Merged(InStore(c, new), new)
         /\ Holding(c, next, new, IF Shared THEN 1 ELSE 0)

SaveAs(status, c, next, new) ==
    /\ Save(c, next, new)
    /\ joinStatus' = IF joinStatus = "dropped" THEN joinStatus ELSE status

----------------------------------------------------------------------------
(* Applying what Didit answers *)

\* mismatch: the session was made for this join's key.
Mine(dec) == dec.owner = "this key"

\* Mutant: the session's key is not looked at.
ReadingAnyKey(dec) ==
    IF dec = NoDecision THEN "gone"
    ELSE CASE StateOf(dec.status) = "none" -> "unknown"
           [] StateOf(dec.status) = "in_progress" -> "open"
           [] StateOf(dec.status) = "declined" -> "over"
           [] OTHER -> StateOf(dec.status)

\* Mutant: a status that is not known is taken for one that is.
ReadingAnyStatus(dec) ==
    IF dec = NoDecision THEN "gone"
    ELSE IF ~Mine(dec) THEN "gone"
    ELSE CASE StateOf(dec.status) = "in_progress" -> "open"
           [] StateOf(dec.status) = "declined" -> "over"
           [] OTHER -> StateOf(dec.status)

\* reading: a session that is gone, or another key's, is forgotten.
Reading(dec) ==
    IF dec = NoDecision THEN "gone"
    ELSE IF ~Mine(dec) THEN "gone"
    ELSE CASE StateOf(dec.status) = "none" -> "unknown"
           [] StateOf(dec.status) = "in_progress" -> "open"
           [] StateOf(dec.status) = "declined" -> "over"
           [] OTHER -> StateOf(dec.status)

\* applyRecorded: the answer goes to the attempt the object has by then.
Applied(cs, dec) ==
    LET r == Reading(dec)  read == [cs EXCEPT !.attempt.read_at = moment] IN
        CASE r = "gone"    -> [read EXCEPT !.attempt.gone = TRUE, !.state = "link_sent"]
          [] r = "unknown" -> read
          [] OTHER -> [read EXCEPT !.attempt.status = dec.status,
                                   !.state = StateOf(dec.status),
                                   !.completed = @ \/ r = "approved"]

\* applyRecorded's count of the session as billed, under a key of its own.
Count(old, new) ==
    counted' = counted \cup
        IF new.status \in Billed /\ old.status \notin Billed THEN {new.id} ELSE {}

----------------------------------------------------------------------------
(* Requests *)

End(c) == press' = [press EXCEPT ![c] = Idle]

\* A request that has just read the session, and asks for what asked recorded.
Reader(op, pc, asked) ==
    [op |-> op, pc |-> pc, cs |-> chal, age |-> 0, asked |-> asked, answer |-> NoDecision,
     rows |-> {}, full |-> FALSE, unreadable |-> FALSE]

Admit(c, op, pc) ==
    press' = [press EXCEPT ![c] = Reader(op, pc,
        IF pc # "ask" THEN Unasked
        ELSE [id |-> chal.attempt.id, status |-> chal.attempt.status, state |-> chal.state])]

\* p at its next wait pc, done with the answer it had.
At(p, pc) == [p EXCEPT !.pc = pc, !.asked = Unasked, !.answer = NoDecision]

\* findLink: any token it emailed opens a join that is still pending.
FindLink(t) == t \in chal.tokens /\ joinStatus = "pending"

Recorded(cs) == cs.attempt.id # NoVerification /\ ~cs.attempt.gone

\* POST /v1/didit/:token, and continue up to its first wait.
Press(c) ==
    /\ press[c] = Idle /\ (\E t \in Token : FindLink(t)) /\ moment > pressed_at
    /\ pressed_at' = moment
    /\ Admit(c, "press", IF chal.completed THEN "finish"
                         ELSE IF Recorded(chal) THEN "ask" ELSE "list")
    /\ UNCHANGED <<store, moment, verif, joinStatus, chal, claimed, moves, counted, mailed>>

\* store.claim: unless an earlier claim of the state's reads still holds.
Claimable(state) ==
    claimed[state] = -1 \/ moment - claimed[state] >= ReadInterval[state]

\* refresh's guards: an interval since the last read, and the claim of it.
Due ==
    /\ Recorded(chal) /\ ~chal.completed /\ chal.state \in DOMAIN ReadInterval
    /\ moment - chal.attempt.read_at >= ReadInterval[chal.state]
    /\ Claimable(chal.state)

\* Status, resume, a repeated join and the done page, up to their first wait.
Poll(c) ==
    /\ press[c] = Idle /\ joinStatus = "pending"
    /\ \E op \in {"poll", "done"} :
        \/ /\ Due
           /\ claimed' = [claimed EXCEPT ![chal.state] = moment]
           /\ Admit(c, op, "ask")
        \/ /\ ~Due /\ chal.completed /\ op = "poll"
           /\ Admit(c, op, "finish") /\ UNCHANGED claimed
    /\ UNCHANGED <<store, moment, verif, joinStatus, chal, pressed_at, moves, counted, mailed>>

\* Didit reads the session asked for in decision(); the answer is on its way.
Ask(c) ==
    /\ press[c] # Idle /\ press[c].pc = "ask"
    /\ press' = [press EXCEPT ![c].answer = Decision(press[c].asked.id), ![c].pc = "apply"]
    /\ UNCHANGED <<store, moment, verif, joinStatus, chal, claimed, pressed_at, moves, counted, mailed>>

\* Any call of Didit fails, or its answer is lost: the request changes nothing
\* more.  A poll goes on to completeIfSatisfied.
Unavailable(c) ==
    /\ press[c] # Idle
    /\ press[c].pc \in {"ask", "apply", "list", "rows", "judge", "create", "opened"}
    /\ IF press[c].op = "poll" /\ press[c].cs.completed
       THEN press' = [press EXCEPT ![c] = At(@, "finish")]
       ELSE End(c)
    /\ UNCHANGED <<store, moment, verif, joinStatus, chal, claimed, pressed_at, moves, counted, mailed>>

\* continueRecorded, after the answer.
ApplyPress(c) ==
    /\ press[c] # Idle /\ press[c].pc = "apply" /\ press[c].op = "press"
    /\ LET q == press[c]
           r == Reading(q.answer)
           new == Applied(q.cs, q.answer)
       IN  /\ Count(q.cs.attempt, new.attempt)
           /\ CASE r = "in_review" -> Save(c, Idle, new)
                [] r = "approved" -> Save(c, At(q, "finish"), new)
                [] r = "open" -> Alter(c, At(q, "create"), new)
                [] OTHER -> Alter(c, At(q, "list"), new)
    /\ UNCHANGED <<store, moment, verif, joinStatus, claimed, pressed_at, moves, mailed>>

\* refresh, after the answer: it saves what differs from what it set out with, and
\* the done page stops there.
ApplyPoll(c) ==
    /\ press[c] # Idle /\ press[c].pc = "apply" /\ press[c].op \in {"poll", "done"}
    /\ LET q == press[c]
           new == Applied(q.cs, q.answer)
           next == IF new.completed /\ q.op = "poll" THEN At(q, "finish") ELSE Idle
       IN  /\ Count(q.cs.attempt, new.attempt)
           /\ IF new.state # q.asked.state \/ new.attempt.status # q.asked.status
              THEN Save(c, next, new) ELSE Alter(c, next, new)
    /\ UNCHANGED <<store, moment, verif, joinStatus, claimed, pressed_at, moves, mailed>>

\* LISTED_RANK, of the status in the list; 3 is none.
Rank(status) ==
    CASE StateOf(status) = "approved" -> 0
      [] StateOf(status) = "in_review" -> 1
      [] StateOf(status) = "in_progress" -> 2
      [] OTHER -> 3

\* listSessions answers: the rows of a rank are still to be read.
List(c) ==
    /\ press[c] # Idle /\ press[c].pc = "list"
    /\ press' = [press EXCEPT ![c].pc = "rows", ![c].full = Cardinality(Held) >= MaxSessions,
            ![c].rows = {<<d, verif[d].status>> : d \in {e \in Held : Rank(verif[e].status) < 3}},
            ![c].unreadable = \E d \in Held : StateOf(verif[d].status) = "none"]
    /\ UNCHANGED <<store, moment, verif, joinStatus, chal, claimed, pressed_at, moves, counted, mailed>>

\* The loop's next row, and Didit reads its session for decision().
ReadRow(c) ==
    /\ press[c] # Idle /\ press[c].pc = "rows"
    /\ \E r \in press[c].rows :
        /\ \A o \in press[c].rows : Rank(r[2]) <= Rank(o[2])
        /\ press' = [press EXCEPT ![c].pc = "judge", ![c].rows = @ \ {r},
                ![c].asked = [id |-> r[1], status |-> r[2], state |-> StateOf(r[2])],
                ![c].answer = Decision(r[1])]
    /\ UNCHANGED <<store, moment, verif, joinStatus, chal, claimed, pressed_at, moves, counted, mailed>>

\* A press that goes on to createSession, done with the list.
Opening(p) == [At(p, "create") EXCEPT !.rows = {}, !.full = FALSE, !.unreadable = FALSE]

\* What the loop does with the decision of a row: it goes on to the next, opens the
\* email's session, leaves it to the other key, or records it.
Verdict(dec) ==
    CASE dec = NoDecision -> "skip"
      [] StateOf(dec.status) = "none" -> "unreadable"
      [] StateOf(dec.status) = "in_progress" ->
             IF Mine(dec) \/ dec.status = "Not Started" THEN "open" ELSE "busy"
      [] Mine(dec) /\ StateOf(dec.status) \in {"approved", "in_review"} -> "record"
      [] OTHER -> "skip"

\* The challenge with the row's session recorded.
TakenUp(cs, d, dec) ==
    [cs EXCEPT !.attempt = [id |-> d, status |-> dec.status, recorded_at |-> moment,
                            read_at |-> moment, gone |-> FALSE],
               !.state = StateOf(dec.status),
               !.completed = @ \/ StateOf(dec.status) = "approved"]

JudgeRow(c) ==
    /\ press[c] # Idle /\ press[c].pc = "judge"
    /\ LET q == press[c]
           verdict == Verdict(q.answer)
           new == TakenUp(q.cs, q.asked.id, q.answer)
       IN  \/ /\ verdict \in {"skip", "unreadable"}
              /\ press' = [press EXCEPT ![c] =
                    [At(q, "rows") EXCEPT !.unreadable = @ \/ verdict = "unreadable"]]
              /\ UNCHANGED chal
           \/ verdict = "open" /\ press' = [press EXCEPT ![c] = Opening(q)] /\ UNCHANGED chal
           \/ verdict = "busy" /\ End(c) /\ UNCHANGED chal
           \/ /\ verdict = "record"
              /\ Save(c, IF StateOf(q.answer.status) = "approved"
                         THEN [Opening(q) EXCEPT !.pc = "finish"] ELSE Idle, new)
    /\ UNCHANGED <<store, moment, verif, joinStatus, claimed, pressed_at, moves, counted, mailed>>

\* With no row left, an unreadable one refuses; then the cap per email rejects the
\* join; then the cap per day refuses; and else a session is opened.
NoneSettles(c) ==
    /\ press[c] # Idle /\ press[c].pc = "rows" /\ press[c].rows = {}
    /\ LET q == press[c] IN
        \/ /\ q.unreadable
           /\ End(c) /\ UNCHANGED <<chal, joinStatus>>
        \/ /\ ~q.unreadable /\ q.full
           /\ SaveAs("rejected", c, Idle, q.cs)
        \/ /\ ~q.unreadable /\ ~q.full
           /\ \E reached \in CapPerDay :
                IF reached THEN End(c) ELSE press' = [press EXCEPT ![c] = Opening(q)]
           /\ UNCHANGED <<chal, joinStatus>>
    /\ UNCHANGED <<store, moment, verif, claimed, pressed_at, moves, counted, mailed>>

\* createSession answers.
CreateAtDidit(c) ==
    /\ press[c] # Idle /\ press[c].pc = "create"
    /\ \E d \in Verification :
        /\ Create(d, "this key")
        /\ press' = [press EXCEPT ![c].pc = "opened",
                ![c].answer = [id |-> d, status |-> verif'[d].status]]
    /\ UNCHANGED <<store, moment, joinStatus, chal, claimed, pressed_at, moves, counted, mailed>>

\* open, after the answer.
Opened(c) ==
    /\ press[c] # Idle /\ press[c].pc = "opened"
    /\ LET cs == press[c].cs  made == press[c].answer IN
        Save(c, Idle, [cs EXCEPT !.state = "in_progress", !.attempt =
            [id |-> made.id, status |-> made.status, read_at |-> moment, gone |-> FALSE,
             recorded_at |-> IF cs.attempt.id = made.id THEN cs.attempt.recorded_at ELSE moment]])
    /\ UNCHANGED <<store, moment, verif, joinStatus, claimed, pressed_at, moves, counted, mailed>>

\* Resend, up to the transport's answer: the limits space the emails.
Resend(c) ==
    /\ press[c] = Idle /\ joinStatus = "pending" /\ ~chal.completed
    /\ \A k \in LinkCall : press[k] = Idle \/ press[k].op # "resend"
    /\ Admit(c, "resend", "mail")
    /\ UNCHANGED <<store, moment, verif, joinStatus, chal, claimed, pressed_at, moves, counted, mailed>>

\* The email was sent, and its token is recorded; or it was not.
Mailed(c) ==
    /\ press[c] # Idle /\ press[c].pc = "mail"
    /\ \/ \E t \in Token \ chal.tokens :
           /\ Save(c, Idle, [press[c].cs EXCEPT !.tokens = @ \cup {t}])
           /\ mailed' = mailed \cup {t}
       \/ End(c) /\ UNCHANGED <<chal, mailed>>
    /\ UNCHANGED <<store, moment, verif, joinStatus, claimed, pressed_at, moves, counted>>

\* completeIfSatisfied: the ready path runs, and ready is saved last; or a step of
\* it fails and the join stays pending.
Finish(c) ==
    /\ press[c] # Idle /\ press[c].pc = "finish"
    /\ \/ SaveAs("ready", c, Idle, press[c].cs)
       \/ End(c) /\ UNCHANGED <<chal, joinStatus>>
    /\ UNCHANGED <<store, moment, verif, claimed, pressed_at, moves, counted, mailed>>

\* The session expires, or a signed join with another email replaces it.
Drop ==
    /\ joinStatus = "pending"
    /\ joinStatus' = "dropped"
    /\ UNCHANGED <<store, moment, verif, chal, press, claimed, pressed_at, moves, counted, mailed>>

PassMoment ==
    /\ moment < MaxMoment
    /\ moment' = moment + 1
    /\ UNCHANGED <<store, verif, joinStatus, chal, press, claimed, pressed_at, moves, counted, mailed>>

Next ==
    \/ \E c \in LinkCall :
        \/ Press(c) \/ Poll(c) \/ Ask(c) \/ Unavailable(c) \/ ApplyPress(c)
        \/ ApplyPoll(c) \/ List(c) \/ ReadRow(c) \/ JudgeRow(c)
        \/ NoneSettles(c) \/ CreateAtDidit(c) \/ Opened(c) \/ Resend(c) \/ Mailed(c) \/ Finish(c)
    \/ Verify \/ Purge \/ OtherOpens \/ Drop \/ PassMoment

Spec == Init /\ [][Next]_linkVars

----------------------------------------------------------------------------
(* Properties *)

\* What Didit may have made of a session that had a status.
Onward == [s \in DiditStatuses |->
    CASE s = "Not Started" -> DiditStatuses
      [] s = "In Progress" -> DiditStatuses \ {"Not Started"}
      [] s = "In Review"   -> {"In Review", "Declined", "Approved"}
      [] s = "Declined"    -> {"Declined", "Approved"}
      [] OTHER -> {s}]

\* A link's progress never goes back, whichever request saves last: a completion
\* is kept, the recorded Didit session changes only to one recorded later, and a
\* read of it only to one applied later, unless the join completed from the other.
ProgressKept ==
    [][/\ chal.completed => chal'.completed
       /\ ~chal'.completed =>
              IF chal'.attempt.id # chal.attempt.id
              THEN chal'.attempt.recorded_at >= chal.attempt.recorded_at
              ELSE chal'.attempt.read_at >= chal.attempt.read_at]_linkVars

\* Every token whose email was sent keeps opening the join.
TokensKept == joinStatus # "dropped" => mailed \subseteq chal.tokens

\* A join completes only once a Didit session that names its key is approved,
\* and is ready only once complete.  Where each request has a copy, that session
\* is the recorded one.
OnlyOwnApproval ==
    /\ joinStatus = "ready" => chal.completed
    /\ chal.completed =>
           \E d \in IF Shared THEN Verification ELSE {chal.attempt.id} :
               verif[d].status = "Approved" /\ verif[d].owner = "this key"

\* The status recorded with a Didit session is one that session had: a decision
\* that comes late is not taken for another session's.
StatusOfSession ==
    chal.attempt.id # NoVerification =>
        verif[chal.attempt.id].status \in Onward[chal.attempt.status]

\* Where each request has a copy, what is shown is the recorded session's state,
\* after every merge, and its status is its own.
StateOfAttempt ==
    store = "sqlite" =>
        /\ chal.state = IF ~Recorded(chal) THEN "link_sent" ELSE StateOf(chal.attempt.status)
        /\ StatusOfSession

=============================================================================
