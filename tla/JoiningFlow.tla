---------------------------- MODULE JoiningFlow ----------------------------
(***************************************************************************)
(* The joining-flow component (ui/joining-flow.ts), with the claims form,  *)
(* the challenge dialog and the client library it is made of.  A flow runs *)
(* an asynchronous loop against the service.  The person restarts it,      *)
(* cancels a form or a dialog, asks for the email again, or the page moves *)
(* the element, while the loop waits for an answer; what is left of an     *)
(* earlier loop then comes back.                                           *)
(*                                                                         *)
(* Abstracted: a challenge is its method; the order of a session's         *)
(* challenges is left open; claims are the names they are given under; a   *)
(* prompt's answer is right or wrong; notices are text.  The service is    *)
(* what a client sees of it: JoinService and LinkChallenge model it.       *)
(***************************************************************************)
EXTENDS Integers, FiniteSets

CONSTANTS
    Setups,           \* how the service and the element may be configured
    NoChallenge,      \* the sets of methods that may give a join no challenge
    FlowLoop,         \* ids of loops
    MaxPollAttempts,  \* maxPollAttempts
    MaxRuns,          \* bound: how often a flow starts or fails
    MaxTokens         \* bound: how many sessions the service makes

Method == {"open", "agent_allow_list", "invite_code", "email_code",
           "hc_auth_approval", "didit_with_email"}
Link == "didit_with_email"
Approval == "hc_auth_approval"

\* AUTO_METHODS; the methods with a claim input; the prompts of the dialog.
AutoMethods == {"open", "agent_allow_list"}
ClaimInput == {"invite_code", "email_code", Link}
Prompts == {"invite_code", "email_code"}

None == "none"

\* What a setup is.
ASSUME FlowAssumption ==
    /\ None \notin FlowLoop
    /\ \A c \in Setups : /\ c.entries \subseteq SUBSET Method
                         /\ c.prefilled \subseteq Method \cup {"email"}
                         /\ c.signs \in BOOLEAN
    /\ NoChallenge \subseteq SUBSET {"agent_allow_list", "email_code", Link, Approval}
    /\ MaxPollAttempts \in Nat /\ MaxRuns \in Nat /\ MaxTokens \in Nat

VARIABLES
    setup,      \* the configuration, chosen once
    svc,        \* the agent's session at the service
    runs,       \* run: moves when a flow starts or fails
    flow,       \* flowStatus
    claims,     \* collectedClaims
    shown,      \* currentChallenge
    answering,  \* the loop whose promise pendingChallengeResolve settles
    active,     \* activeSession
    connected,  \* isConnected
    loops,      \* the loops that have not returned
    resend,     \* a resend in flight
    outcomes    \* ghost: join-complete and join-error events, by run

flowVars == <<setup, svc, runs, flow, claims, shown, answering, active, connected,
              loops, resend, outcomes>>

Off == [pc |-> "off"]
NoAnswer == [kind |-> "none"]

\* What a loop is told: a view of its session, or an error.
View == [kind : {"view"}, token : 1 .. MaxTokens,
         status : {"pending", "ready", "rejected"}, open : SUBSET Method]
Answer == View \cup [kind : {"transient", "refused", "rejected", "provision", "none"}]

LoopState ==
    [pc : {"info", "join", "sign", "verify", "delay", "poll", "prompt", "provision"},
     run : 0 .. MaxRuns, view : View \cup {NoAnswer}, answer : Answer,
     groups : SUBSET SUBSET Method, polls : 0 .. MaxPollAttempts,
     at : Method \cup {None}]

FlowTypeOK ==
    /\ setup \in Setups
    /\ svc \in [token : 0 .. MaxTokens, status : {None, "pending", "ready", "rejected"},
                made : SUBSET Method, done : SUBSET Method]
    /\ runs \in 0 .. MaxRuns /\ connected \in BOOLEAN
    /\ flow \in {"idle", "connecting", "collecting-claims", "joining", "verifying",
                 "provisioning", "ready", "rejected", "error"}
    /\ claims \subseteq Method \cup {"email"}
    /\ shown \in Method \cup {None}
    /\ answering \in FlowLoop \cup {None}
    /\ active \in 0 .. MaxTokens /\ resend \in 0 .. MaxTokens
    /\ loops \in [FlowLoop -> LoopState \cup {Off}]
    /\ outcomes \in [0 .. MaxRuns -> Nat]

FlowInit ==
    /\ setup \in Setups
    /\ svc = [token |-> 0, status |-> None, made |-> {}, done |-> {}]
    /\ runs = 0 /\ flow = "idle" /\ claims = {} /\ shown = None
    /\ answering = None /\ active = 0 /\ connected = FALSE /\ resend = 0
    /\ loops = [l \in FlowLoop |-> Off]
    /\ outcomes = [r \in 0 .. MaxRuns |-> 0]

----------------------------------------------------------------------------
(* The claims form *)

\* The claim a method's input is sent under (claimKey).
ClaimKey(m) == IF m \in {"email_code", Link} THEN "email" ELSE m

\* needsInteractiveClaims.
NeedsClaims == \E e \in setup.entries : \E m \in e : m \notin AutoMethods

\* hasPrefilledClaims looks a claim up under its method's name.
HasPrefilled ==
    /\ setup.prefilled # {}
    /\ \A e \in setup.entries : \E m \in e : m \in AutoMethods \cup setup.prefilled

\* getInteractiveMethods: the inputs the form renders.
FormInputs == {m \in UNION setup.entries : m \in ClaimInput}

\* The claims of a valid form: one chosen input of every entry that has one.
FormClaims ==
    {{ClaimKey(m) : m \in ms} : ms \in
        {s \in SUBSET FormInputs : \A e \in setup.entries :
            Cardinality(s \cap e) = IF e \cap ClaimInput = {} THEN 0 ELSE 1}}

----------------------------------------------------------------------------
(* The service, as a client sees it *)

\* Mutant: the challenges of every entry are alternatives.
SatisfiedByOne(s) == s.made = {} \/ s.done # {}

\* allSatisfied, by method: a session asks for what it made a challenge of.
Satisfied(s) == \A e \in setup.entries : e \cap s.made = {} \/ e \cap s.done # {}
Settled(s) == IF s.status = "pending" /\ Satisfied(s)
              THEN [s EXCEPT !.status = "ready"] ELSE s
Seen(s) == [kind |-> "view", token |-> s.token, status |-> s.status,
            open |-> s.made \ s.done]

\* A join makes a challenge of every method whose claim it got, but for those that
\* give none: the agent is not on the list, or is approved already, an email is not
\* sent.
MadeOf(cl, absent) ==
    {m \in UNION setup.entries :
        m \notin absent \cup {"open"} /\ (m \in ClaimInput => ClaimKey(m) \in cl)}

\* Every entry gives a challenge, or is a method that needs none.
Eligible(ms) == \A e \in setup.entries : e \cap ms # {} \/ e \in {{"open"}, {Approval}}

\* The invite code is checked at once.
NewSession(ms) ==
    Settled([token |-> svc.token + 1, status |-> "pending", made |-> ms,
             done |-> ms \cap {"invite_code"}])

Pending(l, pc) == loops[l] # Off /\ loops[l].pc = pc /\ loops[l].answer = NoAnswer
Answered(l, a) == loops' = [loops EXCEPT ![l].answer = a]
Unserved == UNCHANGED <<setup, runs, flow, claims, shown, answering, active, connected,
                        resend, outcomes>>

\* An answer, which may be lost on its way.
Replies(l, a) == \E b \in {a, [kind |-> "transient"]} : Answered(l, b)

\* A pending session with a link, which a join replaces only when it has made its own.
HoldsLink == svc.status = "pending" /\ Link \in svc.made
Resumes == HoldsLink /\ "email" \in claims
Removed == [svc EXCEPT !.status = None, !.made = {}, !.done = {}]
Replaced == IF HoldsLink THEN svc ELSE Removed

\* client.join: refused when it is not signed as it should be or the session is
\* ready; a pending link session of the same email is answered as resume.  What it
\* replaces is gone before the join is found not eligible, its invite code wrong, or
\* the session not made.
ServeJoin(l) ==
    /\ Pending(l, "join") /\ Unserved
    /\ \/ Answered(l, [kind |-> "refused"]) /\ UNCHANGED svc
       \/ /\ Resumes /\ svc' \in {svc, Settled(svc)}
          /\ Replies(l, IF svc'.status = "ready" THEN [kind |-> "refused"] ELSE Seen(svc'))
       \/ /\ svc.status # "ready" /\ ~Resumes
          /\ \E absent \in NoChallenge :
                LET ms == MadeOf(claims, absent) IN
                \/ /\ ~Eligible(ms) \/ "invite_code" \in ms
                   /\ \E k \in {"refused", "rejected"} : Replies(l, [kind |-> k])
                   /\ svc' = Replaced
                \/ /\ Eligible(ms) /\ Answered(l, [kind |-> "transient"])
                   /\ svc' = Replaced
                \/ /\ Eligible(ms) /\ svc.token < MaxTokens
                   /\ svc' = NewSession(ms) /\ Replies(l, Seen(svc'))

\* session.verify: a right answer completes its challenge.  A ready step may fail.
ServeVerify(l) ==
    /\ Pending(l, "verify") /\ Unserved
    /\ \/ Replies(l, [kind |-> "refused"]) /\ UNCHANGED svc
       \/ /\ svc.token = loops[l].view.token /\ svc.status = "pending"
          /\ LET s == [svc EXCEPT !.done = @ \cup {loops[l].at}] IN
                \/ svc' = Settled(s) /\ Replies(l, Seen(svc'))
                \/ svc' = s /\ Answered(l, [kind |-> "transient"])

\* session.pollStatus: a session whose ready step fails stays pending.
ServePoll(l) ==
    /\ Pending(l, "poll") /\ Unserved
    /\ IF svc.token = loops[l].view.token /\ svc.status # None
       THEN svc' \in {svc, Settled(svc)} /\ Replies(l, Seen(svc'))
       ELSE Answered(l, [kind |-> "refused"]) /\ UNCHANGED svc

\* session.getProvision: the session is still ready and its agent not blocked.
ServeProvision(l) ==
    /\ Pending(l, "provision") /\ Unserved
    /\ IF svc.token = loops[l].view.token /\ svc.status = "ready"
       THEN \/ Answered(l, [kind |-> "provision"]) /\ UNCHANGED svc
            \/ /\ Approval \in svc.made /\ svc' = [svc EXCEPT !.status = "rejected"]
               /\ Answered(l, [kind |-> "refused"])
       ELSE Answered(l, [kind |-> "refused"]) /\ UNCHANGED svc

\* client.getInfo; signNonce's signature, or its refusal.
ServeOther(l) ==
    /\ \/ /\ Pending(l, "info") \/ Pending(l, "sign")
          /\ Answered(l, [kind |-> "provision"])
       \/ Pending(l, "sign") /\ Answered(l, [kind |-> "refused"])
    /\ Unserved /\ UNCHANGED svc

\* No answer, or a 5xx.
ServeNothing(l) ==
    /\ \E pc \in {"info", "join", "verify", "poll", "provision"} : Pending(l, pc)
    /\ Answered(l, [kind |-> "transient"]) /\ Unserved /\ UNCHANGED svc

\* Away from the app: the link is completed and its page finishes the session, an
\* operator approves or blocks, Didit's answer rejects, the session expires or is lost
\* in a restart of the service.
ServiceMoves ==
    /\ \/ /\ svc.status = "pending"
          /\ \E m \in (svc.made \ svc.done) \cap {Link, Approval} :
                svc' = [svc EXCEPT !.done = @ \cup {m}]
       \/ svc.status = "pending" /\ svc' = Settled(svc)
       \/ /\ svc.status = "pending" /\ svc.made \cap {Link, Approval} # {}
          /\ svc' = [svc EXCEPT !.status = "rejected"]
       \/ svc.status # None /\ svc' = Removed
    /\ Unserved /\ UNCHANGED loops

----------------------------------------------------------------------------
(* The flow *)

\* Mutant: a loop left from an earlier flow goes on.
CurrentAlways(l) == TRUE

\* forRun, failIfCurrent.
Current(l) == loops[l].run = runs

EndChallenges == shown' = None /\ active' = 0
Emit == outcomes' = [outcomes EXCEPT ![runs] = @ + 1]
Return(l) == loops' = [loops EXCEPT ![l] = Off]

\* handleError.
HandleError(status) ==
    /\ runs < MaxRuns /\ runs' = runs + 1
    /\ EndChallenges /\ flow' = status /\ Emit
    /\ UNCHANGED <<setup, svc, claims, answering, connected, resend>>

Stops(l) == Return(l) /\ UNCHANGED <<setup, svc, runs, flow, claims, shown, answering,
                                     active, connected, resend, outcomes>>

Goes(l, lp, pc) == loops' = [loops EXCEPT ![l] =
                                [lp EXCEPT !.pc = pc, !.answer = NoAnswer]]

\* A poll counts as an attempt, but for the link's.  One for an approval shows it;
\* one for nothing leaves the dialog as it is.
PollOrTimeOut(l, lp, m, kept) ==
    IF lp.polls + 1 > MaxPollAttempts
    THEN Return(l) /\ HandleError("error")
    ELSE /\ Goes(l, [lp EXCEPT !.polls = @ + 1, !.at = m], "delay")
         /\ shown' = IF m = None THEN kept ELSE m
         /\ flow' = "verifying" /\ active' = lp.view.token
         /\ UNCHANGED <<setup, svc, runs, claims, answering, connected, resend, outcomes>>

\* promptForChallenge: a promise that is replaced never settles, and its loop is lost.
Prompted(l, lp, m) ==
    /\ loops' = [k \in FlowLoop |->
           IF k = l THEN [lp EXCEPT !.pc = "prompt", !.at = m, !.polls = 0,
                                    !.answer = NoAnswer]
           ELSE IF k = answering THEN Off ELSE loops[k]]
    /\ shown' = m /\ answering' = l

\* executeJoin's loop, from one answer to the next wait; lp holds the session.
Turn(l, lp) ==
    LET open == {m \in lp.view.open : \A g \in lp.groups : m \notin g}
        acts == {m \in open : /\ m # Link
                              /\ ~(m = Approval /\ Link \in open)
                              /\ ~(m = "agent_allow_list" /\ ~setup.signs)}
        kept == IF lp.at = Approval THEN None ELSE shown
    IN
    \/ /\ lp.view.status = "ready"
       /\ Goes(l, lp, "provision") /\ EndChallenges /\ flow' = "provisioning"
       /\ UNCHANGED <<setup, svc, runs, claims, answering, connected, resend, outcomes>>
    \/ /\ lp.view.status = "rejected"
       /\ Return(l) /\ EndChallenges /\ flow' = "rejected" /\ Emit
       /\ UNCHANGED <<setup, svc, runs, claims, answering, connected, resend>>
    \/ /\ lp.view.status = "pending" /\ "agent_allow_list" \in acts
       /\ Goes(l, [lp EXCEPT !.at = "agent_allow_list"], "sign")
       /\ flow' = "verifying" /\ active' = lp.view.token /\ shown' = kept
       /\ UNCHANGED <<setup, svc, runs, claims, answering, connected, resend, outcomes>>
    \/ /\ lp.view.status = "pending" /\ Approval \in acts
       /\ PollOrTimeOut(l, lp, Approval, kept)
    \/ /\ lp.view.status = "pending"
       /\ \E m \in acts \cap Prompts : Prompted(l, lp, m)
       /\ flow' = "verifying" /\ active' = lp.view.token
       /\ UNCHANGED <<setup, svc, runs, claims, connected, resend, outcomes>>
    \/ /\ lp.view.status = "pending" /\ acts = {} /\ Link \in open
       /\ Goes(l, [lp EXCEPT !.at = Link], "delay")
       /\ shown' = Link /\ flow' = "verifying" /\ active' = lp.view.token
       /\ UNCHANGED <<setup, svc, runs, claims, answering, connected, resend, outcomes>>
    \/ /\ lp.view.status = "pending" /\ acts = {} /\ Link \notin open
       /\ PollOrTimeOut(l, lp, None, kept)

\* A loop takes the answer it waited for.
Take(l) ==
    LET lp == loops[l]  a == loops[l].answer IN
    /\ lp # Off /\ a # NoAnswer
    /\ \/ ~Current(l) /\ Stops(l)
       \/ /\ Current(l) /\ lp.pc = "info" /\ a.kind = "provision"
          /\ IF NeedsClaims /\ ~HasPrefilled
             THEN Return(l) /\ flow' = "collecting-claims" /\ UNCHANGED claims
             ELSE Goes(l, lp, "join") /\ flow' = "joining" /\ claims' = setup.prefilled
          /\ UNCHANGED <<setup, svc, runs, shown, answering, active, connected, resend, outcomes>>
       \/ /\ Current(l) /\ lp.pc = "sign" /\ a.kind = "provision"
          /\ Goes(l, lp, "verify")
          /\ UNCHANGED <<setup, svc, runs, flow, claims, shown, answering, active, connected,
                         resend, outcomes>>
       \/ /\ Current(l) /\ a.kind = "view"
          /\ Turn(l, [lp EXCEPT !.view = a, !.groups = @ \cup
                 {g \in setup.entries : lp.pc = "verify" /\ Cardinality(g) > 1 /\ lp.at \in g}])
       \/ /\ Current(l) /\ lp.pc = "provision" /\ a.kind = "provision"
          /\ Return(l) /\ flow' = "ready" /\ Emit
          /\ UNCHANGED <<setup, svc, runs, claims, shown, answering, active, connected, resend>>
       \/ /\ Current(l) /\ a.kind = "transient" /\ lp.pc = "poll" /\ lp.at = Link
          /\ Turn(l, lp)
       \/ /\ Current(l) /\ a.kind \in {"transient", "refused", "rejected"}
          /\ ~(a.kind = "transient" /\ lp.pc = "poll" /\ lp.at = Link)
          /\ Return(l)
          /\ HandleError(IF a.kind = "rejected" THEN "rejected" ELSE "error")

\* A delay ends; a loop that polls for the link stops when the element is gone.
Wake(l) ==
    /\ loops[l] # Off /\ loops[l].pc = "delay"
    /\ \/ ~Current(l) /\ Stops(l)
       \/ /\ Current(l) /\ loops[l].at = Link /\ ~connected
          /\ Return(l) /\ EndChallenges /\ flow' = "idle"
          /\ UNCHANGED <<setup, svc, runs, claims, answering, connected, resend, outcomes>>
       \/ /\ Current(l) /\ ~(loops[l].at = Link /\ ~connected)
          /\ Goes(l, loops[l], "poll")
          /\ UNCHANGED <<setup, svc, runs, flow, claims, shown, answering, active, connected,
                         resend, outcomes>>

----------------------------------------------------------------------------
(* The person and the page *)

\* start, by connectedCallback, the retry button, or the app.
Start(l) ==
    /\ runs < MaxRuns /\ runs' = runs + 1
    /\ loops[l] = Off
    /\ loops' = [loops EXCEPT ![l] =
           [pc |-> "info", run |-> runs + 1, view |-> NoAnswer, answer |-> NoAnswer,
            groups |-> {}, polls |-> 0, at |-> None]]
    /\ flow' = "connecting" /\ EndChallenges
    /\ UNCHANGED <<setup, svc, claims, answering, resend, outcomes>>

Connect ==
    /\ ~connected /\ connected' = TRUE
    /\ IF flow = "idle" THEN \E l \in FlowLoop : Start(l)
       ELSE UNCHANGED <<setup, svc, runs, flow, claims, shown, answering, active, loops,
                        resend, outcomes>>

Restart == connected /\ (\E l \in FlowLoop : Start(l)) /\ UNCHANGED connected

Disconnect ==
    /\ connected /\ connected' = FALSE
    /\ UNCHANGED <<setup, svc, runs, flow, claims, shown, answering, active, loops,
                   resend, outcomes>>

\* The form is there, with inputs; the dialog is open, and closed by its button,
\* by Escape, which a browser lets through the second time, or by the app.
FormShown == connected /\ flow = "collecting-claims" /\ FormInputs # {}
DialogShown == connected /\ shown \notin AutoMethods \cup {None}

\* The dialog's buttons: Verify, and Send the email again.
MayAnswer == DialogShown /\ shown \in Prompts
MayResend == DialogShown /\ shown = Link

\* handleClaimsSubmitted: the loop goes on under the same run.
SubmitClaims(l) ==
    /\ FormShown /\ loops[l] = Off
    /\ claims' \in FormClaims
    /\ flow' = "joining"
    /\ loops' = [loops EXCEPT ![l] =
           [pc |-> "join", run |-> runs, view |-> NoAnswer, answer |-> NoAnswer,
            groups |-> {}, polls |-> 0, at |-> None]]
    /\ UNCHANGED <<setup, svc, runs, shown, answering, active, connected, resend, outcomes>>

\* claims-cancelled and challenge-cancelled.
Cancel ==
    /\ FormShown \/ DialogShown
    /\ HandleError("error") /\ UNCHANGED loops

\* handleChallengeResponse: the promise of the prompt settles.
Respond ==
    /\ MayAnswer /\ answering # None
    /\ answering' = None /\ shown' = None
    /\ IF Current(answering) THEN Goes(answering, loops[answering], "verify")
       ELSE Return(answering)
    /\ UNCHANGED <<setup, svc, runs, flow, claims, active, connected, resend, outcomes>>

\* handleChallengeResend, up to its wait.
AskResend ==
    /\ MayResend /\ active # 0 /\ resend = 0
    /\ resend' = active
    /\ UNCHANGED <<setup, svc, runs, flow, claims, shown, answering, active, connected,
                   loops, outcomes>>

\* Mutant: the answer of a resend is not matched with the active session.
ResentStill == TRUE

\* Is the session the resend was for still the active one?
Resent == active = resend

\* The email was sent again and the dialog shows its challenge, or it was not.
TakeResent ==
    /\ resend # 0 /\ resend' = 0
    /\ \/ Resent /\ shown' = Link
       \/ UNCHANGED shown
    /\ UNCHANGED <<setup, svc, runs, flow, claims, answering, active, connected, loops, outcomes>>

FlowNext ==
    \/ \E l \in FlowLoop :
        \/ ServeJoin(l) \/ ServeVerify(l) \/ ServePoll(l) \/ ServeProvision(l)
        \/ ServeOther(l) \/ ServeNothing(l) \/ Take(l) \/ Wake(l) \/ SubmitClaims(l)
    \/ ServiceMoves \/ Connect \/ Restart \/ Disconnect \/ Cancel \/ Respond
    \/ AskResend \/ TakeResent

FlowSpec == FlowInit /\ [][FlowNext]_flowVars

----------------------------------------------------------------------------
(* Properties *)

\* A flow that starts ends with one event at most, whatever an earlier one left
\* behind, and one loop at most speaks for it.
OneOutcome ==
    /\ \A r \in 0 .. MaxRuns : outcomes[r] <= 1
    /\ Cardinality({l \in FlowLoop : loops[l] # Off /\ loops[l].run = runs}) <= 1

\* A method of an any_of entry.
Alternative(m) == \E e \in setup.entries : m \in e /\ Cardinality(e) > 1

\* While a loop waits for the person, the promise the dialog settles is its own and
\* the dialog shows its prompt, or the link of the same session, sent again late:
\* that takes an any_of entry, which an earlier flow of the session had behind it
\* when it showed the link and the flow that resumed it asks for once more.  And no
\* dialog is left open by a flow that is over or has not joined.
DialogOfTheLoop ==
    /\ \A l \in FlowLoop : loops[l] # Off /\ loops[l].pc = "prompt" /\ loops[l].run = runs =>
           /\ answering = l
           /\ shown = loops[l].at \/ (shown = Link /\ Alternative(loops[l].at))
    /\ flow # "verifying" => shown = None

\* The session t as SessionLife speaks of it, and what its agent has passed: also
\* what gave no challenge.
StatusSeen(t) ==
    IF t > svc.token THEN "unborn"
    ELSE IF t < svc.token \/ svc.status = None THEN "gone" ELSE svc.status
PassedSeen(t) ==
    IF t = svc.token /\ svc.status # None
    THEN svc.done \cup ({"open", Approval} \ svc.made) ELSE {}

Life(t) == INSTANCE SessionLife
    WITH Sid <- {t},
         asked <- setup.entries,
         status <- [s \in {t} |-> StatusSeen(t)],
         passed <- [s \in {t} |-> PassedSeen(t)]

\* What the flow takes the service for keeps the promises of SessionLife, as
\* JoinService does: each session is ready only by checks its agent has passed, and
\* one that is decided, expired or replaced stays so.
ServiceLife ==
    /\ \A t \in 1 .. MaxTokens : Life(t)!Init
    /\ [][UNCHANGED <<setup, svc>>
          \/ \A t \in 1 .. MaxTokens : UNCHANGED Life(t)!lifeVars \/ Life(t)!Next]_flowVars

=============================================================================
