------------------------- MODULE JoiningFlowProofs -------------------------
(***************************************************************************)
(* Proofs that a start of the joining flow ends with one event at most,    *)
(* that an open dialog is that of the loop which goes on, and that the     *)
(* service the flow takes for granted implements SessionLife, for any      *)
(* setups and any number of loops, runs and sessions.                      *)
(*                                                                         *)
(* The argument: the run is counted up when a flow starts or fails, so of  *)
(* all the loops still waiting one at most belongs to the current run, and *)
(* the fields of the element are the ones it set last (RunsKept).  What    *)
(* may come from another flow is the answer to a resend.  It is compared   *)
(* by session, so it can show the link to a later flow that resumed the    *)
(* session.  But the link is reached only when the prompts left in the     *)
(* session are alternatives of an any_of entry, and what is left of a      *)
(* session only shrinks (ViewsKept, PromptKept).                           *)
(* The service needs one fact more: a session that is or may become ready  *)
(* asks for a check of every entry that needs one (EligibleKept).          *)
(***************************************************************************)
EXTENDS JoiningFlow, FiniteSetTheorems, TLAPS

----------------------------------------------------------------------------
(* The inductive invariant *)

\* A loop of the run that goes on.
Speaks(l) == loops[l] # Off /\ Current(l)

\* What a loop knows at each point: a view of the session once it has joined, and the
\* challenge it is at; an answer is about the session it asked for; the groups it
\* passes over are any_of entries.
LoopOK(lp) ==
    /\ lp.pc \in {"info", "join"} <=> lp.view = NoAnswer
    /\ lp.pc \in {"sign", "verify"} => lp.at \in Method
    /\ lp.pc = "prompt" => lp.at \in Prompts \cap lp.view.open /\ lp.answer = NoAnswer
    /\ \A g \in lp.groups : g \in setup.entries /\ Cardinality(g) > 1
    /\ lp.answer \in View =>
           /\ lp.pc \in {"join", "verify", "poll"}
           /\ lp.pc # "join" => lp.answer.token = lp.view.token

LoopsOK == \A l \in FlowLoop : loops[l] # Off => LoopOK(loops[l])

\* The status the flow shows is the one of the point its loop is at, and the session
\* the dialog may have sent again is the loop's.
StatusOf(lp) ==
    /\ lp.pc = "info" => flow = "connecting"
    /\ lp.pc = "join" => flow = "joining"
    /\ lp.pc = "provision" => flow = "provisioning"
    /\ lp.pc \in {"sign", "verify", "delay", "poll", "prompt"} =>
           flow = "verifying" /\ active = lp.view.token

\* Runs are used in order and end once; one loop speaks for the current one, which
\* goes on while it does, and while the form or the dialog is open.
RunsKept ==
    /\ \A l \in FlowLoop : loops[l] # Off => loops[l].run <= runs
    /\ \A r \in 0 .. MaxRuns : outcomes[r] <= 1 /\ (r > runs => outcomes[r] = 0)
    /\ flow \in {"connecting", "collecting-claims", "joining", "verifying", "provisioning"} =>
           outcomes[runs] = 0
    /\ \A l, k \in FlowLoop : Speaks(l) /\ Speaks(k) => l = k
    /\ flow = "collecting-claims" => \A l \in FlowLoop : ~Speaks(l)
    /\ \A l \in FlowLoop : Speaks(l) => StatusOf(loops[l])

\* The open promise is that of the one loop at a prompt, and a dialog or a session to
\* send the email for are there while the flow verifies.
DialogKept ==
    /\ \A l \in FlowLoop : answering = l <=> loops[l] # Off /\ loops[l].pc = "prompt"
    /\ shown # None \/ active # 0 => flow = "verifying"

\* What the service still asks of its session, and a view of it: challenges are only
\* completed while it lives, so a view has what is left of them, and more.
Left == svc.made \ svc.done
SeenBefore(v) == v.token <= svc.token /\ (v.token = svc.token => Left \subseteq v.open)

ViewsKept ==
    /\ svc.status # None => svc.token > 0
    /\ active <= svc.token /\ resend <= svc.token
    /\ \A l \in FlowLoop : loops[l] # Off =>
           /\ loops[l].view \in View => SeenBefore(loops[l].view)
           /\ loops[l].answer \in View => SeenBefore(loops[l].answer)

\* The link of a session is shown when every prompt left in it is in an any_of entry,
\* and that stays so in whatever the current loop sees of it.
Alternatives(ms) == \A m \in ms \cap Prompts : Alternative(m)
LinkReached(t) ==
    /\ t = svc.token => Alternatives(Left)
    /\ \A l \in FlowLoop : Speaks(l) =>
           /\ loops[l].view \in View /\ loops[l].view.token = t => Alternatives(loops[l].view.open)
           /\ loops[l].answer \in View /\ loops[l].answer.token = t =>
                  Alternatives(loops[l].answer.open)

\* The dialog shows the prompt its loop is at, or a link that was reached.
PromptKept ==
    /\ shown = Link => LinkReached(active)
    /\ resend # 0 => LinkReached(resend)
    /\ \A l \in FlowLoop : Speaks(l) /\ loops[l].pc = "prompt" => shown \in {Link, loops[l].at}

FlowInv == FlowTypeOK /\ LoopsOK /\ RunsKept /\ DialogKept /\ ViewsKept /\ PromptKept

----------------------------------------------------------------------------
(* Shapes *)

\* A view is an answer, and not the missing one.
LEMMA ViewShape ==
    ASSUME NEW v \in View
    PROVE  /\ v # NoAnswer /\ v \in Answer
           /\ v.token \in 1 .. MaxTokens /\ v.open \subseteq Method
           /\ v.status \in {"pending", "ready", "rejected"} /\ v.kind = "view"
<1>1. v.kind = "view" /\ NoAnswer.kind = "none"
  BY DEF View, NoAnswer
<1> QED BY <1>1 DEF View, Answer

\* An answer is a view by its kind.
LEMMA AnswerShape ==
    ASSUME NEW a \in Answer
    PROVE  a.kind = "view" <=> a \in View
BY DEF Answer, View

\* The other answers are no views.
LEMMA PlainAnswers ==
    /\ NoAnswer \in Answer /\ NoAnswer \notin View
    /\ \A k \in {"transient", "refused", "rejected", "provision"} :
           [kind |-> k] \in Answer /\ [kind |-> k] \notin View
<1>1. ASSUME NEW k \in {"transient", "refused", "rejected", "provision", "none"}
      PROVE  [kind |-> k] \in Answer /\ [kind |-> k] \notin View
  <2>1. [kind |-> k].kind # "view"
    OBVIOUS
  <2> QED BY <2>1 DEF Answer, View
<1> QED BY <1>1 DEF NoAnswer

\* The fields of a loop that has not returned.
LEMMA LoopShape ==
    ASSUME NEW q \in LoopState
    PROVE  /\ q # Off
           /\ q.pc \in {"info", "join", "sign", "verify", "delay", "poll", "prompt", "provision"}
           /\ q.run \in 0 .. MaxRuns /\ q.view \in View \cup {NoAnswer} /\ q.answer \in Answer
           /\ q.groups \subseteq SUBSET Method /\ q.polls \in 0 .. MaxPollAttempts
           /\ q.at \in Method \cup {None}
<1>1. q.pc # "off" /\ Off.pc = "off"
  BY DEF LoopState, Off
<1> QED BY <1>1 DEF LoopState

\* A setup, and what a service makes of it.
LEMMA SetupShape ==
    ASSUME setup \in Setups
    PROVE  /\ setup.entries \subseteq SUBSET Method
           /\ setup.prefilled \subseteq Method \cup {"email"}
           /\ \A cl, absent : MadeOf(cl, absent) \subseteq Method
BY FlowAssumption DEF MadeOf

\* A session as FlowTypeOK has it.
Service == [token : 0 .. MaxTokens, status : {None, "pending", "ready", "rejected"},
            made : SUBSET Method, done : SUBSET Method]

\* A session that settles stays a session and keeps its challenges.
LEMMA SettledShape ==
    ASSUME NEW s \in Service
    PROVE  /\ Settled(s) \in Service
           /\ Settled(s).token = s.token /\ Settled(s).made = s.made /\ Settled(s).done = s.done
           /\ Settled(s).status = s.status \/ Settled(s).status = "ready"
           /\ s.status # None <=> Settled(s).status # None
BY DEF Settled, Service, None

\* What a client is told of a session that lives is a view of it.
LEMMA SeenShape ==
    ASSUME NEW s \in Service, s.token > 0, s.status # None
    PROVE  /\ Seen(s) \in View
           /\ Seen(s).token = s.token /\ Seen(s).open = s.made \ s.done
           /\ Seen(s).status = s.status
BY FlowAssumption DEF Service, View, Seen, None

----------------------------------------------------------------------------
(* The two ways a loop moves: it is answered, or goes on *)

\* An answered loop is where it was, and knows the answer.
LEMMA AnsweredMoves ==
    ASSUME FlowTypeOK, NEW l \in FlowLoop, loops[l] # Off, NEW a \in Answer, Answered(l, a)
    PROVE  \E q \in LoopState :
              /\ loops' = [loops EXCEPT ![l] = q]
              /\ q.pc = loops[l].pc /\ q.run = loops[l].run /\ q.view = loops[l].view
              /\ q.groups = loops[l].groups /\ q.polls = loops[l].polls /\ q.at = loops[l].at
              /\ q.answer = a
<1>1. loops[l] \in LoopState
  BY DEF FlowTypeOK
<1>2. PICK q : q = [loops[l] EXCEPT !.answer = a]
  OBVIOUS
<1>3. q \in LoopState /\ q.answer = a
  BY <1>1, <1>2 DEF LoopState
<1>4. loops' = [loops EXCEPT ![l] = q]
  BY <1>2 DEF Answered
<1>5. /\ q.pc = loops[l].pc /\ q.run = loops[l].run /\ q.view = loops[l].view
      /\ q.groups = loops[l].groups /\ q.polls = loops[l].polls /\ q.at = loops[l].at
  BY <1>1, <1>2 DEF LoopState
<1> QED BY <1>3, <1>4, <1>5

\* A loop that goes on is at the new point and waits.
LEMMA GoesMoves ==
    ASSUME NEW l \in FlowLoop, NEW lp \in LoopState,
           NEW pc \in {"join", "sign", "verify", "delay", "poll", "prompt", "provision"},
           Goes(l, lp, pc)
    PROVE  \E q \in LoopState :
              /\ loops' = [loops EXCEPT ![l] = q]
              /\ q.pc = pc /\ q.run = lp.run /\ q.view = lp.view
              /\ q.groups = lp.groups /\ q.polls = lp.polls /\ q.at = lp.at
              /\ q.answer = NoAnswer
<1>1. PICK q : q = [lp EXCEPT !.pc = pc, !.answer = NoAnswer]
  OBVIOUS
<1>2. /\ q \in LoopState /\ q.answer = NoAnswer /\ q.pc = pc
      /\ q.run = lp.run /\ q.view = lp.view
      /\ q.groups = lp.groups /\ q.polls = lp.polls /\ q.at = lp.at
  BY <1>1, PlainAnswers DEF LoopState
<1> QED BY <1>1, <1>2 DEF Goes

----------------------------------------------------------------------------
(* The service answers *)

Serves(l) ==
    \/ ServeJoin(l) \/ ServeVerify(l) \/ ServePoll(l) \/ ServeProvision(l)
    \/ ServeOther(l) \/ ServeNothing(l)

\* A session only completes challenges, or is a new one.
SvcGoes(s, t) ==
    /\ t \in Service
    /\ t.status # None => t.token > 0
    /\ \/ t.token = s.token /\ t.made \ t.done \subseteq s.made \ s.done
       \/ t.token = s.token + 1

\* An answer that is a view is one of the session as it is now, and of the loop's.
AnswerOK(lp, a, t) ==
    a \in View =>
        /\ lp.pc \in {"join", "verify", "poll"}
        /\ a.token = t.token /\ a.open = t.made \ t.done
        /\ lp.pc # "join" => a.token = lp.view.token

\* Every answer of the service comes with a session that goes on, and is about it.
LEMMA ServesMoves ==
    ASSUME FlowInv, NEW l \in FlowLoop, Serves(l)
    PROVE  /\ Unserved /\ SvcGoes(svc, svc')
           /\ loops[l] # Off /\ loops[l].pc # "prompt"
           /\ \E a \in Answer : Answered(l, a) /\ AnswerOK(loops[l], a, svc')
<1> USE DEF FlowInv
<1>1. svc \in Service /\ (svc.status # None => svc.token > 0) /\ MaxTokens \in Nat
  BY FlowAssumption DEF FlowTypeOK, Service, ViewsKept
<1>2. SvcGoes(svc, svc)
  BY <1>1 DEF SvcGoes
<1>3. ASSUME NEW k \in {"transient", "refused", "rejected", "provision"}, NEW t
      PROVE  [kind |-> k] \in Answer /\ AnswerOK(loops[l], [kind |-> k], t)
  BY PlainAnswers DEF AnswerOK
<1>t. ASSUME NEW a \in Answer, AnswerOK(loops[l], a, svc'), Replies(l, a)
      PROVE  \E b \in Answer : Answered(l, b) /\ AnswerOK(loops[l], b, svc')
  BY <1>t, <1>3 DEF Replies
<1>s. SvcGoes(svc, Settled(svc)) /\ Settled(svc) \in Service
  BY <1>1, SettledShape DEF SvcGoes
<1>r. SvcGoes(svc, Removed) /\ SvcGoes(svc, Replaced)
  <2>1. Removed \in Service /\ Removed.token = svc.token /\ Removed.status = None
        /\ Removed.made \ Removed.done = {}
    BY <1>1 DEF Removed, Service
  <2> QED BY <2>1, <1>2 DEF SvcGoes, Replaced
<1>v. ASSUME svc' \in Service, svc'.token > 0, svc'.status # None,
             loops[l].pc \in {"join", "verify", "poll"},
             loops[l].pc # "join" => svc'.token = loops[l].view.token
      PROVE  Seen(svc') \in Answer /\ AnswerOK(loops[l], Seen(svc'), svc')
  BY <1>v, SeenShape DEF AnswerOK, Answer
<1>4. CASE ServeJoin(l)
  <2>0. Unserved /\ loops[l] # Off /\ loops[l].pc = "join"
    BY <1>4 DEF ServeJoin, Pending
  <2>1. CASE Answered(l, [kind |-> "refused"]) /\ UNCHANGED svc
    BY <2>0, <2>1, <1>2, <1>3
  <2>2. CASE /\ Resumes /\ svc' \in {svc, Settled(svc)}
             /\ Replies(l, IF svc'.status = "ready" THEN [kind |-> "refused"] ELSE Seen(svc'))
    <3>1. svc' \in Service /\ svc'.token > 0 /\ svc'.status # None
      BY <2>2, <1>1, SettledShape DEF Resumes, HoldsLink, None
    <3>2. Seen(svc') \in Answer /\ AnswerOK(loops[l], Seen(svc'), svc')
      BY <3>1, <2>0, <1>v
    <3>3. PICK a \in Answer : AnswerOK(loops[l], a, svc') /\ Replies(l, a)
      BY <2>2, <3>2, <1>3
    <3> QED BY <2>0, <2>2, <3>3, <1>2, <1>s, <1>t
  <2>3. CASE \E absent \in NoChallenge :
                LET ms == MadeOf(claims, absent) IN
                \/ /\ ~Eligible(ms) \/ "invite_code" \in ms
                   /\ \E k \in {"refused", "rejected"} : Replies(l, [kind |-> k])
                   /\ svc' = Replaced
                \/ /\ Eligible(ms) /\ Answered(l, [kind |-> "transient"])
                   /\ svc' = Replaced
                \/ /\ Eligible(ms) /\ svc.token < MaxTokens
                   /\ svc' = NewSession(ms) /\ Replies(l, Seen(svc'))
    <3>1. PICK absent \in NoChallenge, ms \in SUBSET Method :
                /\ ms = MadeOf(claims, absent)
                /\ \/ /\ \E k \in {"refused", "rejected"} : Replies(l, [kind |-> k])
                      /\ svc' = Replaced
                   \/ Answered(l, [kind |-> "transient"]) /\ svc' = Replaced
                   \/ /\ svc.token < MaxTokens
                      /\ svc' = NewSession(ms) /\ Replies(l, Seen(svc'))
      BY <2>3, SetupShape DEF FlowTypeOK
    <3>2. CASE /\ \E k \in {"refused", "rejected"} : Replies(l, [kind |-> k])
               /\ svc' = Replaced
      BY <2>0, <3>2, <1>r, <1>3, <1>t
    <3>3. CASE Answered(l, [kind |-> "transient"]) /\ svc' = Replaced
      BY <2>0, <3>3, <1>r, <1>3
    <3>4. CASE svc.token < MaxTokens /\ svc' = NewSession(ms) /\ Replies(l, Seen(svc'))
      <4>1. PICK s : s = [token |-> svc.token + 1, status |-> "pending", made |-> ms,
                          done |-> ms \cap {"invite_code"}]
        OBVIOUS
      <4>2. svc' = Settled(s)
        BY <4>1, <3>4 DEF NewSession
      <4>3. s \in Service /\ s.token = svc.token + 1 /\ s.status = "pending"
        BY <4>1, <3>4, <1>1 DEF Service
      <4>4. svc' \in Service /\ svc'.token = svc.token + 1 /\ svc'.status # None
        BY <4>2, <4>3, SettledShape DEF None
      <4>5. svc'.token > 0
        BY <4>4, <1>1 DEF Service
      <4>6. Seen(svc') \in Answer /\ AnswerOK(loops[l], Seen(svc'), svc')
        BY <4>4, <4>5, <2>0, <1>v
      <4> QED BY <2>0, <3>4, <4>4, <4>5, <4>6, <1>t DEF SvcGoes
    <3> QED BY <3>1, <3>2, <3>3, <3>4
  <2> QED BY <2>1, <2>2, <2>3, <1>4 DEF ServeJoin
<1>5. CASE ServeVerify(l)
  <2>0. Unserved /\ loops[l] # Off /\ loops[l].pc = "verify"
    BY <1>5 DEF ServeVerify, Pending
  <2>1. CASE Replies(l, [kind |-> "refused"]) /\ UNCHANGED svc
    BY <2>0, <2>1, <1>2, <1>3, <1>t
  <2>2. ASSUME NEW s, s = [svc EXCEPT !.done = @ \cup {loops[l].at}],
               svc.token = loops[l].view.token, svc.status = "pending",
               \/ svc' = Settled(s) /\ Replies(l, Seen(svc'))
               \/ svc' = s /\ Answered(l, [kind |-> "transient"])
        PROVE  /\ SvcGoes(svc, svc')
               /\ \E a \in Answer : Answered(l, a) /\ AnswerOK(loops[l], a, svc')
    <3>1. loops[l].at \in Method
      BY <2>0 DEF LoopsOK, LoopOK
    <3>2. s \in Service /\ s.token = svc.token /\ s.status = "pending"
          /\ s.made = svc.made /\ s.done = svc.done \cup {loops[l].at}
      BY <3>1, <2>2, <1>1 DEF Service
    <3>3. svc.token > 0
      BY <2>2, <1>1 DEF None
    <3>4. svc' \in Service /\ svc'.token = svc.token /\ svc'.status # None
          /\ svc'.made = svc.made /\ svc'.done = svc.done \cup {loops[l].at}
      BY <3>2, <2>2, SettledShape DEF None
    <3>5. SvcGoes(svc, svc')
      BY <3>3, <3>4 DEF SvcGoes
    <3>6. Seen(svc') \in Answer /\ AnswerOK(loops[l], Seen(svc'), svc')
      BY <3>3, <3>4, <2>0, <2>2, <1>v
    <3> QED BY <2>2, <3>5, <3>6, <1>3, <1>t
  <2> QED BY <2>0, <2>1, <2>2, <1>5 DEF ServeVerify
<1>6. CASE ServePoll(l)
  <2>0. Unserved /\ loops[l] # Off /\ loops[l].pc = "poll"
    BY <1>6 DEF ServePoll, Pending
  <2>1. CASE Answered(l, [kind |-> "refused"]) /\ UNCHANGED svc
    BY <2>0, <2>1, <1>2, <1>3
  <2>2. CASE /\ svc.token = loops[l].view.token /\ svc.status # None
             /\ svc' \in {svc, Settled(svc)} /\ Replies(l, Seen(svc'))
    <3>1. svc' \in Service /\ svc'.token > 0 /\ svc'.status # None
          /\ svc'.token = loops[l].view.token
      BY <2>2, <1>1, SettledShape
    <3>2. Seen(svc') \in Answer /\ AnswerOK(loops[l], Seen(svc'), svc')
      BY <3>1, <2>0, <1>v
    <3> QED BY <2>0, <2>2, <3>2, <1>2, <1>s, <1>t
  <2> QED BY <2>1, <2>2, <1>6 DEF ServePoll
<1>9. CASE ServeProvision(l)
  <2>1. PICK k \in {"refused", "provision"} : Answered(l, [kind |-> k])
    BY <1>9 DEF ServeProvision
  <2>2. svc' = svc \/ (svc.status = "ready" /\ svc' = [svc EXCEPT !.status = "rejected"])
    BY <1>9 DEF ServeProvision
  <2>3. SvcGoes(svc, svc')
    BY <2>2, <1>1, <1>2 DEF SvcGoes, Service, None
  <2> QED BY <2>1, <2>3, <1>3, <1>9 DEF ServeProvision, Pending
<1>7. CASE ServeOther(l)
  BY <1>2, <1>3, <1>7 DEF ServeOther, Pending
<1>8. CASE ServeNothing(l)
  BY <1>2, <1>3, <1>8 DEF ServeNothing, Pending
<1> QED BY <1>4, <1>5, <1>6, <1>7, <1>8, <1>9 DEF Serves

----------------------------------------------------------------------------
(* What the service does keeps the invariant *)

\* What is said of a loop does not change while the configuration stays.
LEMMA LoopFrame ==
    ASSUME setup' = setup
    PROVE  /\ \A p : LoopOK(p) => LoopOK(p)'
           /\ \A ms : Alternatives(ms) => Alternatives(ms)'
BY DEF LoopOK, Alternatives, Alternative

\* A view keeps its place in a session that goes on.
LEMMA SeenFrame ==
    ASSUME FlowInv, SvcGoes(svc, svc'), NEW v \in View, SeenBefore(v)
    PROVE  SeenBefore(v)'
BY ViewShape DEF SvcGoes, SeenBefore, Left, Service, FlowInv, FlowTypeOK

\* A loop that is answered as the service is.
LEMMA ServiceKeeps ==
    ASSUME FlowInv, Unserved, SvcGoes(svc, svc'),
           NEW l \in FlowLoop, loops[l] # Off, loops[l].pc # "prompt",
           NEW a \in Answer, Answered(l, a), AnswerOK(loops[l], a, svc')
    PROVE  FlowInv'
<1> USE DEF FlowInv
<1>0. PICK q \in LoopState :
          /\ loops' = [loops EXCEPT ![l] = q]
          /\ q.pc = loops[l].pc /\ q.run = loops[l].run /\ q.view = loops[l].view
          /\ q.groups = loops[l].groups /\ q.polls = loops[l].polls /\ q.at = loops[l].at
          /\ q.answer = a
  BY AnsweredMoves
<1>1. /\ loops'[l] = q /\ q # Off /\ \A k \in FlowLoop : k # l => loops'[k] = loops[k]
      /\ setup' = setup /\ runs' = runs /\ flow' = flow /\ shown' = shown
      /\ answering' = answering /\ active' = active /\ resend' = resend
      /\ outcomes' = outcomes
  BY <1>0, LoopShape DEF FlowTypeOK, Unserved
<1>2. svc \in Service /\ svc' \in Service
  BY DEF FlowTypeOK, Service, SvcGoes
<1>3. FlowTypeOK'
  BY <1>0, <1>2 DEF FlowTypeOK, Unserved, Service
<1>4. LoopsOK'
  <2> SUFFICES ASSUME NEW k \in FlowLoop, loops'[k] # Off PROVE LoopOK(loops[k])'
    BY DEF LoopsOK
  <2>1. CASE k # l
    BY <2>1, <1>1 DEF LoopsOK, LoopOK
  <2>2. CASE k = l
    <3>1. LoopOK(loops[l])
      BY DEF LoopsOK
    <3>2. LoopOK(q)
      BY <3>1, <1>0 DEF LoopOK, AnswerOK
    <3> QED BY <3>2, <2>2, <1>1 DEF LoopOK
  <2> QED BY <2>1, <2>2
<1>5. \A k \in FlowLoop :
          /\ Speaks(k)' <=> Speaks(k)
          /\ loops'[k] # Off <=> loops[k] # Off
          /\ loops'[k].pc = loops[k].pc /\ loops'[k].run = loops[k].run
          /\ loops'[k].view = loops[k].view /\ loops'[k].at = loops[k].at
          /\ k # l => loops'[k].answer = loops[k].answer
  BY <1>0, <1>1 DEF Speaks, Current
<1>6. RunsKept'
  <2>1. ASSUME NEW k \in FlowLoop, Speaks(k)' PROVE StatusOf(loops[k])'
    BY <2>1, <1>1, <1>5 DEF RunsKept, StatusOf
  <2> QED BY <2>1, <1>1, <1>5 DEF RunsKept
<1>7. DialogKept'
  BY <1>1, <1>5 DEF DialogKept
<1>8. ViewsKept'
  <2>1. (svc.status # None => svc.token > 0)'
    BY DEF SvcGoes
  <2>2. active' <= svc'.token /\ resend' <= svc'.token
    BY <1>1, <1>2 DEF ViewsKept, SvcGoes, FlowTypeOK, Service
  <2>3. ASSUME NEW k \in FlowLoop, loops'[k] # Off, loops'[k].view \in View
        PROVE  SeenBefore(loops[k].view)'
    <3>1. PICK v \in View : v = loops[k].view
      BY <2>3, <1>5
    <3>2. SeenBefore(v)
      BY <3>1, <2>3, <1>5 DEF ViewsKept
    <3>3. SeenBefore(v)'
      BY <3>2, SeenFrame
    <3> QED BY <3>1, <3>3, <1>5 DEF SeenBefore, Left
  <2>4. ASSUME NEW k \in FlowLoop, loops'[k] # Off, loops'[k].answer \in View
        PROVE  SeenBefore(loops[k].answer)'
    <3>1. CASE k = l
      <4>1. a.token = svc'.token /\ a.open = svc'.made \ svc'.done
        BY <3>1, <2>4, <1>0, <1>1 DEF AnswerOK
      <4>2. SeenBefore(a)'
        BY <4>1, <1>2 DEF SeenBefore, Left, Service
      <4> QED BY <3>1, <4>2, <1>0, <1>1 DEF SeenBefore, Left
    <3>2. CASE k # l
      <4>1. PICK v \in View : v = loops[k].answer
        BY <3>2, <2>4, <1>5
      <4>2. SeenBefore(v)
        BY <4>1, <2>4, <1>5 DEF ViewsKept
      <4>3. SeenBefore(v)'
        BY <4>2, SeenFrame
      <4> QED BY <4>1, <4>3, <3>2, <1>5 DEF SeenBefore, Left
    <3> QED BY <3>1, <3>2
  <2> QED BY <2>1, <2>2, <2>3, <2>4 DEF ViewsKept
<1>9. ASSUME NEW t \in 0 .. MaxTokens, t <= svc.token, LinkReached(t)
      PROVE  LinkReached(t)'
  <2>1. t = svc'.token => t = svc.token /\ svc'.made \ svc'.done \subseteq Left
    BY <1>2, <1>9 DEF SvcGoes, Service, Left
  <2>2. t = svc'.token => Alternatives(svc'.made \ svc'.done)
    BY <2>1, <1>9 DEF LinkReached, Alternatives
  <2>3. t = svc'.token => Alternatives(Left)'
    BY <2>2, <1>1 DEF Left, Alternatives, Alternative
  <2>4. ASSUME NEW k \in FlowLoop, Speaks(k)', loops'[k].view \in View, loops'[k].view.token = t
        PROVE  Alternatives(loops[k].view.open)'
    <3>1. PICK ms : ms = loops[k].view.open
      OBVIOUS
    <3>2. Alternatives(ms)
      BY <3>1, <2>4, <1>5, <1>9 DEF LinkReached
    <3>3. Alternatives(ms)'
      BY <3>2, <1>1, LoopFrame
    <3> QED BY <3>1, <3>3, <1>5 DEF Alternatives, Alternative
  <2>5. ASSUME NEW k \in FlowLoop, Speaks(k)', loops'[k].answer \in View,
               loops'[k].answer.token = t
        PROVE  Alternatives(loops[k].answer.open)'
    <3>1. CASE k = l
      <4>1. a.token = svc'.token /\ a.open = svc'.made \ svc'.done /\ a.token = t
        BY <3>1, <2>5, <1>0, <1>1 DEF AnswerOK
      <4>2. PICK ms : ms = a.open
        OBVIOUS
      <4>3. Alternatives(ms)'
        BY <4>1, <4>2, <2>2, <1>1, LoopFrame
      <4> QED BY <4>2, <4>3, <3>1, <1>0, <1>1 DEF Alternatives, Alternative
    <3>2. CASE k # l
      <4>1. PICK ms : ms = loops[k].answer.open
        OBVIOUS
      <4>2. Alternatives(ms)
        BY <4>1, <3>2, <2>5, <1>5, <1>9 DEF LinkReached
      <4>3. Alternatives(ms)'
        BY <4>2, <1>1, LoopFrame
      <4> QED BY <4>1, <4>3, <3>2, <1>5 DEF Alternatives, Alternative
    <3> QED BY <3>1, <3>2
  <2> QED BY <2>3, <2>4, <2>5 DEF LinkReached
<1>10. PromptKept'
  <2>1. PICK t \in 0 .. MaxTokens : t = active
    BY DEF FlowTypeOK
  <2>2. PICK u \in 0 .. MaxTokens : u = resend
    BY DEF FlowTypeOK
  <2>3. t <= svc.token /\ u <= svc.token
    BY <2>1, <2>2 DEF ViewsKept
  <2>4. shown = Link => LinkReached(t)'
    BY <2>1, <2>3, <1>9 DEF PromptKept
  <2>5. resend # 0 => LinkReached(u)'
    BY <2>2, <2>3, <1>9 DEF PromptKept
  <2>6. ASSUME NEW k \in FlowLoop, Speaks(k)', loops'[k].pc = "prompt"
        PROVE  shown' \in {Link, loops'[k].at}
    BY <2>6, <1>1, <1>5 DEF PromptKept
  <2>7. shown' = Link => LinkReached(active)'
    BY <2>1, <2>4, <1>1 DEF LinkReached
  <2>8. resend' # 0 => LinkReached(resend)'
    BY <2>2, <2>5, <1>1 DEF LinkReached
  <2> QED BY <2>6, <2>7, <2>8 DEF PromptKept
<1> QED BY <1>3, <1>4, <1>6, <1>7, <1>8, <1>10

\* Whatever the service answers keeps the invariant.
LEMMA ServesKeeps ==
    ASSUME FlowInv, NEW l \in FlowLoop, Serves(l)
    PROVE  FlowInv'
BY ServesMoves, ServiceKeeps

\* The same away from the app, where no loop is answered.
LEMMA ServiceMovesKeeps ==
    ASSUME FlowInv, ServiceMoves
    PROVE  FlowInv'
<1> USE DEF FlowInv
<1>1. /\ setup' = setup /\ runs' = runs /\ flow' = flow /\ shown' = shown /\ claims' = claims
      /\ answering' = answering /\ active' = active /\ resend' = resend
      /\ connected' = connected /\ outcomes' = outcomes /\ loops' = loops
  BY DEF ServiceMoves, Unserved
<1>2. svc \in Service /\ svc.token > 0
  BY DEF FlowTypeOK, Service, ServiceMoves, ViewsKept, None
<1>3. SvcGoes(svc, svc') /\ svc'.token = svc.token
  <2>1. CASE \E m \in (svc.made \ svc.done) \cap {Link, Approval} :
                svc' = [svc EXCEPT !.done = @ \cup {m}]
    BY <2>1, <1>2 DEF SvcGoes, Service
  <2>2. CASE svc' = Settled(svc)
    BY <2>2, <1>2, SettledShape DEF SvcGoes, Service
  <2>3. CASE svc' = [svc EXCEPT !.status = "rejected"]
    BY <2>3, <1>2 DEF SvcGoes, Service
  <2>4. CASE svc' = Removed
    BY <2>4, <1>2 DEF SvcGoes, Service, Removed
  <2> QED BY <2>1, <2>2, <2>3, <2>4 DEF ServiceMoves
<1>4. FlowTypeOK'
  BY <1>1, <1>3 DEF FlowTypeOK, SvcGoes, Service
<1>5. LoopsOK'
  BY <1>1 DEF LoopsOK, LoopOK
<1>6. RunsKept'
  BY <1>1 DEF RunsKept, Speaks, Current, StatusOf
<1>7. DialogKept'
  BY <1>1 DEF DialogKept
<1>8. ViewsKept'
  <2>1. \A v \in View : SeenBefore(v) => SeenBefore(v)'
    BY <1>3, SeenFrame
  <2>2. \A v \in View, k \in FlowLoop : loops[k] # Off =>
            /\ v = loops[k].view => SeenBefore(v)'
            /\ v = loops[k].answer => SeenBefore(v)'
    BY <2>1 DEF ViewsKept
  <2>3. ASSUME NEW k \in FlowLoop, loops[k] # Off
        PROVE  /\ loops[k].view \in View => SeenBefore(loops[k].view)'
               /\ loops[k].answer \in View => SeenBefore(loops[k].answer)'
    <3>1. \A v \in View : v = loops[k].view => SeenBefore(v)'
      BY <2>2, <2>3
    <3>2. \A v \in View : v = loops[k].answer => SeenBefore(v)'
      BY <2>2, <2>3
    <3> QED BY <3>1, <3>2, <1>1 DEF SeenBefore, Left
  <2> QED BY <2>3, <1>1, <1>2, <1>3 DEF ViewsKept
<1>9. PromptKept'
  <2>1. Left' \subseteq Left
    BY <1>2, <1>3 DEF SvcGoes, Left, Service
  <2>2. \A ms : Alternatives(ms) => Alternatives(ms)'
    BY <1>1, LoopFrame
  <2>3. ASSUME NEW t, LinkReached(t) PROVE LinkReached(t)'
    <3>1. t = svc'.token => Alternatives(Left')
      BY <2>1, <2>3, <1>3 DEF LinkReached, Alternatives
    <3> QED BY <3>1, <2>3, <1>1 DEF LinkReached, Alternatives, Alternative, Speaks, Current
  <2>4. (shown = Link => LinkReached(active))'
    <3>1. PICK t : t = active
      OBVIOUS
    <3>2. shown = Link => LinkReached(t)'
      BY <3>1, <2>3 DEF PromptKept
    <3> QED BY <3>1, <3>2, <1>1 DEF LinkReached
  <2>5. (resend # 0 => LinkReached(resend))'
    <3>1. PICK t : t = resend
      OBVIOUS
    <3>2. resend # 0 => LinkReached(t)'
      BY <3>1, <2>3 DEF PromptKept
    <3> QED BY <3>1, <3>2, <1>1 DEF LinkReached
  <2> QED BY <2>4, <2>5, <1>1 DEF PromptKept, Speaks, Current
<1> QED BY <1>4, <1>5, <1>6, <1>7, <1>8, <1>9

----------------------------------------------------------------------------
(* What the flow does keeps the invariant *)

\* One loop starts, goes on with what it was told, or returns; others may be lost.
LoopMoved(l, q) ==
    /\ setup' = setup /\ svc' = svc /\ resend' = resend
    /\ runs' \in {runs, runs + 1}
    /\ loops'[l] = q
    /\ \A k \in FlowLoop : k # l => loops'[k] \in {loops[k], Off}
    /\ q # Off =>
          /\ LoopOK(q) /\ q.answer = NoAnswer
          /\ \/ q.view = NoAnswer
             \/ Speaks(l) /\ q.view \in View /\ q.view \in {loops[l].view, loops[l].answer}

\* The move keeps what is said of loops and views, and links stay reached.
LEMMA MovedKeeps ==
    ASSUME FlowInv, NEW l \in FlowLoop, NEW q \in LoopState \cup {Off}, LoopMoved(l, q)
    PROVE  /\ LoopsOK'
           /\ active' <= svc.token => ViewsKept'
           /\ \A t : LinkReached(t) => LinkReached(t)'
<1> USE DEF FlowInv
<1>1. /\ setup' = setup /\ svc' = svc /\ resend' = resend /\ runs' \in {runs, runs + 1}
      /\ loops'[l] = q
      /\ \A k \in FlowLoop : k # l => loops'[k] \in {loops[k], Off}
  BY DEF LoopMoved
<1>2. NoAnswer \notin View
  BY PlainAnswers
<1>3. LoopsOK'
  <2> SUFFICES ASSUME NEW k \in FlowLoop, loops'[k] # Off PROVE LoopOK(loops[k])'
    BY DEF LoopsOK
  <2>1. CASE k = l
    BY <2>1, <1>1 DEF LoopMoved, LoopOK
  <2>2. CASE k # l
    BY <2>2, <1>1 DEF LoopsOK, LoopOK
  <2> QED BY <2>1, <2>2
<1>4. ASSUME NEW k \in FlowLoop, loops'[k] # Off
      PROVE  /\ loops'[k].view \in View => SeenBefore(loops[k].view)'
             /\ loops'[k].answer \in View => SeenBefore(loops[k].answer)'
  <2>1. CASE k = l
    <3>1. q # Off /\ q.answer = NoAnswer
      BY <2>1, <1>4, <1>1 DEF LoopMoved
    <3>2. q.view \in View => SeenBefore(q.view)
      BY <2>1, <1>4, <1>1, <1>2 DEF LoopMoved, ViewsKept, Speaks
    <3> QED BY <3>1, <3>2, <2>1, <1>1, <1>2 DEF SeenBefore, Left
  <2>2. CASE k # l
    BY <2>2, <1>4, <1>1 DEF ViewsKept, SeenBefore, Left
  <2> QED BY <2>1, <2>2
<1>5. active' <= svc.token => ViewsKept'
  BY <1>1, <1>4 DEF ViewsKept
<1>6. ASSUME NEW t, LinkReached(t) PROVE LinkReached(t)'
  <2>1. (t = svc.token => Alternatives(Left))'
    BY <1>6, <1>1 DEF LinkReached, Left, Alternatives, Alternative
  <2>2. ASSUME NEW k \in FlowLoop, Speaks(k)'
        PROVE  (/\ loops[k].view \in View /\ loops[k].view.token = t =>
                       Alternatives(loops[k].view.open)
                /\ loops[k].answer \in View /\ loops[k].answer.token = t =>
                       Alternatives(loops[k].answer.open))'
    <3>1. CASE k = l
      <4>1. q # Off /\ q.answer = NoAnswer
        BY <3>1, <2>2, <1>1 DEF LoopMoved, Speaks
      <4>2. q.view \in View /\ q.view.token = t => Alternatives(q.view.open)
        BY <4>1, <1>1, <1>2, <1>6 DEF LoopMoved, LinkReached
      <4> QED BY <4>1, <4>2, <3>1, <1>1, <1>2 DEF Alternatives, Alternative
    <3>2. CASE k # l
      <4>1. loops'[k] = loops[k] /\ loops[k] # Off
        BY <3>2, <2>2, <1>1 DEF Speaks
      <4>2. loops[k].run <= runs /\ runs \in Nat /\ loops[k].run \in Nat
        BY <4>1, LoopShape DEF RunsKept, FlowTypeOK
      <4>3. Speaks(k)
        BY <4>1, <4>2, <2>2, <1>1 DEF Speaks, Current
      <4>4. /\ loops[k].view \in View /\ loops[k].view.token = t =>
                   Alternatives(loops[k].view.open)
            /\ loops[k].answer \in View /\ loops[k].answer.token = t =>
                   Alternatives(loops[k].answer.open)
        BY <4>3, <1>6 DEF LinkReached
      <4> QED BY <4>1, <4>4, <1>1 DEF Alternatives, Alternative
    <3> QED BY <3>1, <3>2
  <2> QED BY <2>1, <2>2 DEF LinkReached
<1> QED BY <1>3, <1>5, <1>6

\* The dialog keeps showing a prompt or a reached link.
LEMMA PromptFrame ==
    ASSUME FlowInv, \A t : LinkReached(t) => LinkReached(t)', resend' = resend,
           shown' = Link => \/ shown = Link /\ active' = active
                            \/ \A t : t = active' => LinkReached(t)',
           \A k \in FlowLoop : Speaks(k)' /\ loops'[k].pc = "prompt" =>
               shown' \in {Link, loops'[k].at}
    PROVE  PromptKept'
<1>1. ASSUME shown' = Link PROVE LinkReached(active)'
  <2>1. PICK t : t = active'
    OBVIOUS
  <2>2. LinkReached(t)'
    BY <2>1, <1>1 DEF FlowInv, PromptKept
  <2> QED BY <2>1, <2>2 DEF LinkReached
<1>2. ASSUME resend' # 0 PROVE LinkReached(resend)'
  <2>1. PICK t : t = resend
    OBVIOUS
  <2>2. LinkReached(t)'
    BY <2>1, <1>2 DEF FlowInv, PromptKept
  <2> QED BY <2>1, <2>2 DEF LinkReached
<1> QED BY <1>1, <1>2 DEF PromptKept

\* The one loop of the current run goes on, and none waits at a prompt for it.
LEMMA GoesOn ==
    ASSUME FlowInv, FlowTypeOK', NEW l \in FlowLoop, NEW q \in LoopState, LoopMoved(l, q), Speaks(l),
           q.run = runs, q.pc \notin {"info", "prompt"}, loops[l].pc # "prompt",
           runs' = runs, outcomes' = outcomes, answering' = answering,
           \A k \in FlowLoop : k # l => loops'[k] = loops[k],
           active' <= svc.token, StatusOf(q)',
           flow' \in {"joining", "verifying", "provisioning"},
           shown' # None \/ active' # 0 => flow' = "verifying",
           shown' = Link => \/ shown = Link /\ active' = active
                            \/ \A t : t = active' => LinkReached(t)'
    PROVE  FlowInv'
<1> USE DEF FlowInv
<1>1. loops'[l] = q /\ q # Off
  BY LoopShape DEF LoopMoved
<1>2. \A k \in FlowLoop : Speaks(k) => k = l
  BY DEF RunsKept
<1>3. \A k \in FlowLoop : k # l => ~Speaks(k)'
  BY <1>2 DEF Speaks, Current
<1>4. outcomes[runs] = 0
  BY LoopShape DEF RunsKept, StatusOf, Speaks, Current, FlowTypeOK
<1>5. RunsKept'
  <2>1. ASSUME NEW k \in FlowLoop, Speaks(k)' PROVE StatusOf(loops[k])'
    BY <2>1, <1>1, <1>3 DEF StatusOf
  <2>2. \A k \in FlowLoop : loops'[k] # Off => loops'[k].run <= runs
    BY <1>1 DEF RunsKept, FlowTypeOK
  <2> QED BY <2>1, <2>2, <1>1, <1>3, <1>4 DEF RunsKept
<1>6. DialogKept'
  BY <1>1 DEF DialogKept, Speaks
<1>7. LoopsOK' /\ ViewsKept' /\ \A t : LinkReached(t) => LinkReached(t)'
  BY MovedKeeps
<1>8. PromptKept'
  <2>1. \A k \in FlowLoop : Speaks(k)' /\ loops'[k].pc = "prompt" => shown' \in {Link, loops'[k].at}
    BY <1>1, <1>3
  <2>2. resend' = resend
    BY DEF LoopMoved
  <2> QED BY <2>1, <2>2, <1>7, PromptFrame
<1> QED BY <1>5, <1>6, <1>7, <1>8

\* The flow fails, and the loop that failed returns.
LEMMA FailsKeeps ==
    ASSUME FlowInv, NEW status \in {"error", "rejected"}, HandleError(status),
           \/ loops' = loops /\ (FormShown \/ DialogShown)
           \/ \E l \in FlowLoop : Return(l) /\ Speaks(l) /\ loops[l].pc # "prompt"
    PROVE  FlowInv'
<1> USE DEF FlowInv
<1>1. /\ setup' = setup /\ svc' = svc /\ resend' = resend /\ answering' = answering
      /\ claims' = claims /\ connected' = connected
      /\ runs' = runs + 1 /\ runs < MaxRuns /\ flow' = status /\ shown' = None /\ active' = 0
      /\ outcomes' = [outcomes EXCEPT ![runs] = @ + 1]
  BY DEF HandleError, EndChallenges, Emit
<1>2. /\ loops' \in [FlowLoop -> LoopState \cup {Off}]
      /\ \A k \in FlowLoop : /\ loops'[k] \in {loops[k], Off}
                             /\ loops'[k] = loops[k] \/ (loops[k] # Off /\ loops[k].pc # "prompt")
  BY DEF Return, Speaks, FlowTypeOK
<1>3. runs \in 0 .. MaxRuns /\ MaxRuns \in Nat /\ outcomes \in [0 .. MaxRuns -> Nat]
  BY <1>1, FlowAssumption DEF FlowTypeOK
<1>4. outcomes[runs] = 0
  <2>1. ASSUME NEW k \in FlowLoop, Speaks(k) PROVE outcomes[runs] = 0
    BY <2>1, LoopShape DEF RunsKept, StatusOf, Speaks, Current, FlowTypeOK
  <2>2. FormShown \/ DialogShown => outcomes[runs] = 0
    BY DEF RunsKept, DialogKept, FormShown, DialogShown
  <2> QED BY <2>1, <2>2
<1>5. FlowTypeOK'
  <2>1. outcomes' \in [0 .. MaxRuns -> Nat] /\ runs' \in 0 .. MaxRuns
    BY <1>1, <1>3
  <2>2. 0 \in 0 .. MaxTokens /\ MaxTokens \in Nat
    BY FlowAssumption
  <2> QED BY <2>1, <2>2, <1>1, <1>2 DEF FlowTypeOK
<1>7. \A k \in FlowLoop : ~Speaks(k)'
  <2> SUFFICES ASSUME NEW k \in FlowLoop, loops'[k] # Off PROVE loops'[k].run # runs'
    BY DEF Speaks, Current
  <2>1. loops'[k] = loops[k] /\ loops[k] \in LoopState /\ loops[k].run <= runs
    BY <1>2 DEF RunsKept, FlowTypeOK
  <2> QED BY <2>1, <1>1, <1>3, LoopShape
<1>8. LoopsOK'
  BY <1>1, <1>2 DEF LoopsOK, LoopOK
<1>9. RunsKept'
  <2>1. ASSUME NEW k \in FlowLoop, loops'[k] # Off PROVE loops'[k].run <= runs'
    <3>1. loops'[k] = loops[k] /\ loops[k] \in LoopState /\ loops[k].run <= runs
      BY <2>1, <1>2 DEF RunsKept, FlowTypeOK
    <3> QED BY <3>1, <1>1, <1>3, LoopShape
  <2>2. \A r \in 0 .. MaxRuns : outcomes'[r] <= 1 /\ (r > runs' => outcomes'[r] = 0)
    BY <1>1, <1>3, <1>4 DEF RunsKept
  <2> QED BY <2>1, <2>2, <1>1, <1>7 DEF RunsKept
<1>10. DialogKept'
  BY <1>1, <1>2 DEF DialogKept, Off
<1>11. ViewsKept'
  <2>1. 0 <= svc.token /\ resend <= svc.token
    BY DEF ViewsKept, FlowTypeOK
  <2>2. ASSUME NEW k \in FlowLoop, loops'[k] # Off
        PROVE  /\ loops'[k].view \in View => SeenBefore(loops[k].view)'
               /\ loops'[k].answer \in View => SeenBefore(loops[k].answer)'
    BY <2>2, <1>1, <1>2 DEF ViewsKept, SeenBefore, Left
  <2> QED BY <2>1, <2>2, <1>1 DEF ViewsKept
<1>12. PromptKept'
  <2>1. ASSUME NEW t, LinkReached(t) PROVE LinkReached(t)'
    BY <2>1, <1>1, <1>7 DEF LinkReached, Alternatives, Alternative, Left
  <2> QED BY <2>1, <1>1, <1>7, PromptFrame DEF Link, None
<1> QED BY <1>5, <1>8, <1>9, <1>10, <1>11, <1>12

\* The current loop returns while no other one waits for it.
LEMMA ReturnsKeeps ==
    ASSUME FlowInv, FlowTypeOK', NEW l \in FlowLoop, Return(l), Speaks(l), loops[l].pc # "prompt",
           runs' = runs, setup' = setup, svc' = svc, resend' = resend, answering' = answering,
           \/ shown' = None /\ active' = 0
           \/ loops[l].pc \in {"info", "provision"} /\ shown' = shown /\ active' = active,
           \/ outcomes' = outcomes /\ flow' \in {"collecting-claims", "idle"}
           \/ Emit /\ flow' \in {"rejected", "ready"}
    PROVE  FlowInv'
<1> USE DEF FlowInv
<1>1. Off \in LoopState \cup {Off} /\ loops'[l] = Off
      /\ \A k \in FlowLoop : k # l => loops'[k] = loops[k]
  BY DEF Return, FlowTypeOK
<1>2. /\ runs \in 0 .. MaxRuns /\ outcomes \in [0 .. MaxRuns -> Nat] /\ active \in Nat
      /\ MaxRuns \in Nat
  BY FlowAssumption DEF FlowTypeOK
<1>3. outcomes[runs] = 0
  BY LoopShape DEF RunsKept, StatusOf, Speaks, Current, FlowTypeOK
<1>4. shown' = None /\ active' = 0
  BY <1>2, LoopShape DEF RunsKept, StatusOf, Speaks, DialogKept, FlowTypeOK
<1>5. \A k \in FlowLoop : ~Speaks(k)'
  BY <1>1 DEF RunsKept, Speaks, Current
<1>6. LoopMoved(l, Off)
  BY <1>1 DEF LoopMoved
<1>7. LoopsOK' /\ ViewsKept' /\ \A t : LinkReached(t) => LinkReached(t)'
  <2>1. 0 <= svc.token
    BY DEF FlowTypeOK
  <2> QED BY <2>1, <1>1, <1>4, <1>6, MovedKeeps
<1>8. RunsKept'
  <2>1. \A k \in FlowLoop : loops'[k] # Off => loops'[k].run <= runs
    BY <1>1 DEF RunsKept
  <2>2. \A r \in 0 .. MaxRuns : outcomes'[r] <= 1 /\ (r > runs => outcomes'[r] = 0)
    BY <1>2, <1>3 DEF RunsKept, Emit
  <2> QED BY <2>1, <2>2, <1>3, <1>5 DEF RunsKept
<1>9. DialogKept'
  BY <1>1, <1>4 DEF DialogKept, Speaks
<1>10. PromptKept'
  BY <1>4, <1>5, <1>7, PromptFrame DEF Link, None
<1> QED BY <1>7, <1>8, <1>9, <1>10

\* A loop's record with another challenge at hand.
LEMMA AtShape ==
    ASSUME NEW lp \in LoopState, NEW m \in Method \cup {None}
    PROVE  LET p == [lp EXCEPT !.at = m] IN
           /\ p \in LoopState /\ p.at = m /\ p.run = lp.run /\ p.view = lp.view
           /\ p.groups = lp.groups /\ p.polls = lp.polls
BY DEF LoopState

\* What a turn of executeJoin's loop begins with: the loop's view, or the one it was
\* told, and any_of entries to pass over.
TurnsFrom(l, lp) ==
    /\ Speaks(l) /\ loops[l].pc \in {"join", "verify", "poll"}
    /\ lp \in LoopState /\ lp.run = runs
    /\ lp.view \in View /\ lp.view \in {loops[l].view, loops[l].answer}
    /\ \A g \in lp.groups : g \in setup.entries /\ Cardinality(g) > 1

\* Where a turn begins, its view is of the session the flow works on.
LEMMA TurnsFromOK ==
    ASSUME FlowInv, NEW l \in FlowLoop, NEW lp, TurnsFrom(l, lp)
    PROVE  /\ loops[l] \in LoopState /\ lp \in LoopState
           /\ SeenBefore(lp.view) /\ lp.view.token \in 1 .. MaxTokens
           /\ lp.view.token <= svc.token /\ lp.view.open \subseteq Method
           /\ outcomes[runs] = 0
           /\ flow = "verifying" => active = lp.view.token
<1> USE DEF FlowInv
<1>1. loops[l] \in LoopState /\ loops[l] # Off /\ lp \in LoopState
  BY DEF TurnsFrom, Speaks, FlowTypeOK
<1>2. StatusOf(loops[l]) /\ LoopOK(loops[l])
  BY <1>1 DEF TurnsFrom, RunsKept, LoopsOK
<1>3. outcomes[runs] = 0
  BY <1>2 DEF TurnsFrom, StatusOf, RunsKept
<1>4. SeenBefore(lp.view)
  BY <1>1 DEF TurnsFrom, ViewsKept
<1>5. flow = "verifying" => active = lp.view.token
  BY <1>1, <1>2, PlainAnswers DEF TurnsFrom, StatusOf, LoopOK
<1> QED BY <1>1, <1>3, <1>4, <1>5, ViewShape DEF TurnsFrom, SeenBefore

\* The turn leaves the loop at a wait that is no prompt.
LEMMA TurnGoesOn ==
    ASSUME FlowInv, NEW l \in FlowLoop, NEW lp, TurnsFrom(l, lp),
           NEW q \in LoopState, loops' = [loops EXCEPT ![l] = q],
           q.run = lp.run, q.view = lp.view, q.groups = lp.groups, q.answer = NoAnswer,
           \/ /\ q.pc = "provision" /\ flow' = "provisioning" /\ shown' = None /\ active' = 0
           \/ /\ q.pc \in {"sign", "delay"} /\ (q.pc = "sign" => q.at \in Method)
              /\ flow' = "verifying" /\ active' = lp.view.token,
           shown' \in Method \cup {None},
           \/ shown' \in {shown, None, Approval}
           \/ \A t : t = lp.view.token => LinkReached(t)',
           UNCHANGED <<setup, svc, runs, claims, answering, connected, resend, outcomes>>
    PROVE  FlowInv'
<1> USE DEF FlowInv
<1>1. /\ loops[l] \in LoopState /\ lp \in LoopState
      /\ lp.view.token \in 1 .. MaxTokens /\ lp.view.token <= svc.token
      /\ flow = "verifying" => active = lp.view.token
  BY TurnsFromOK
<1>2. FlowTypeOK'
  <2>1. loops' \in [FlowLoop -> LoopState \cup {Off}]
    BY DEF FlowTypeOK
  <2>2. active' \in 0 .. MaxTokens
    BY <1>1, FlowAssumption
  <2> QED BY <2>1, <2>2 DEF FlowTypeOK
<1>3. loops'[l] = q /\ \A k \in FlowLoop : k # l => loops'[k] = loops[k]
  BY DEF FlowTypeOK
<1>4. LoopOK(q)
  BY PlainAnswers DEF LoopOK, TurnsFrom
<1>5. LoopMoved(l, q)
  BY <1>3, <1>4 DEF LoopMoved, TurnsFrom
<1>6. shown' = Link => \/ shown = Link /\ active' = active
                       \/ \A t : t = active' => LinkReached(t)'
  <2>1. shown = Link => flow = "verifying"
    BY DEF DialogKept, Link, None
  <2> QED BY <2>1, <1>1 DEF Link, None, Approval
<1>7. StatusOf(q)' /\ active' <= svc.token /\ q.pc \notin {"info", "prompt"}
      /\ flow' \in {"joining", "verifying", "provisioning"}
      /\ (shown' # None \/ active' # 0 => flow' = "verifying")
  BY <1>1 DEF StatusOf, FlowTypeOK
<1>8. Speaks(l) /\ loops[l].pc # "prompt" /\ q.run = runs
  BY DEF TurnsFrom
<1> QED BY <1>2, <1>3, <1>5, <1>6, <1>7, <1>8, GoesOn

\* The turn asks the person.
LEMMA TurnPrompts ==
    ASSUME FlowInv, NEW l \in FlowLoop, NEW lp, TurnsFrom(l, lp),
           NEW m \in lp.view.open \cap Prompts, Prompted(l, lp, m),
           flow' = "verifying", active' = lp.view.token,
           UNCHANGED <<setup, svc, runs, claims, connected, resend, outcomes>>
    PROVE  FlowInv'
<1> USE DEF FlowInv
<1>1. /\ loops[l] \in LoopState /\ lp \in LoopState /\ lp.view.open \subseteq Method
      /\ lp.view.token \in 1 .. MaxTokens /\ lp.view.token <= svc.token
      /\ outcomes[runs] = 0
  BY TurnsFromOK
<1>2. PICK q : q = [lp EXCEPT !.pc = "prompt", !.at = m, !.polls = 0, !.answer = NoAnswer]
  OBVIOUS
<1>3. /\ q \in LoopState /\ q.pc = "prompt" /\ q.at = m /\ q.answer = NoAnswer
      /\ q.run = lp.run /\ q.view = lp.view /\ q.groups = lp.groups
  <2>1. m \in Method \cup {None} /\ 0 \in 0 .. MaxPollAttempts
    BY <1>1, FlowAssumption
  <2> QED BY <2>1, <1>1, <1>2, PlainAnswers DEF LoopState
<1>4. loops' = [k \in FlowLoop |-> IF k = l THEN q ELSE IF k = answering THEN Off ELSE loops[k]]
      /\ shown' = m /\ answering' = l
  BY <1>2 DEF Prompted
<1>5. loops'[l] = q /\ q # Off
      /\ \A k \in FlowLoop : k # l => loops'[k] = IF k = answering THEN Off ELSE loops[k]
  BY <1>3, <1>4, LoopShape
<1>6. FlowTypeOK'
  <2>1. loops' \in [FlowLoop -> LoopState \cup {Off}]
    BY <1>3, <1>4 DEF FlowTypeOK
  <2>2. active' \in 0 .. MaxTokens /\ shown' \in Method \cup {None}
    BY <1>1, <1>4, FlowAssumption
  <2> QED BY <2>1, <2>2, <1>4 DEF FlowTypeOK
<1>7. LoopOK(q)
  BY <1>3, PlainAnswers DEF LoopOK, TurnsFrom
<1>8. LoopMoved(l, q)
  BY <1>3, <1>5, <1>7 DEF LoopMoved, TurnsFrom
<1>9. LoopsOK' /\ ViewsKept' /\ \A t : LinkReached(t) => LinkReached(t)'
  BY <1>1, <1>3, <1>8, MovedKeeps
<1>10. \A k \in FlowLoop : k # l => ~Speaks(k)'
  BY <1>5 DEF TurnsFrom, RunsKept, Speaks, Current
<1>11. RunsKept'
  <2>1. ASSUME NEW k \in FlowLoop, Speaks(k)' PROVE StatusOf(loops[k])'
    BY <2>1, <1>3, <1>5, <1>10 DEF StatusOf
  <2>2. \A k \in FlowLoop : loops'[k] # Off => loops'[k].run <= runs
    BY <1>3, <1>5 DEF RunsKept, FlowTypeOK, TurnsFrom
  <2> QED BY <2>1, <2>2, <1>1, <1>10 DEF RunsKept
<1>12. DialogKept'
  BY <1>3, <1>4, <1>5 DEF DialogKept
<1>13. PromptKept'
  <2>1. \A k \in FlowLoop : Speaks(k)' /\ loops'[k].pc = "prompt" => shown' \in {Link, loops'[k].at}
    BY <1>3, <1>4, <1>5, <1>10
  <2> QED BY <2>1, <1>4, <1>9, PromptFrame DEF Link, Prompts
<1> QED BY <1>6, <1>9, <1>11, <1>12, <1>13

\* A loop that polls, or fails because it polled often enough.
LEMMA PollOrTimeOutKeeps ==
    ASSUME FlowInv, NEW l \in FlowLoop, NEW lp, TurnsFrom(l, lp),
           NEW m \in {Approval, None}, NEW kept \in {shown, None}, PollOrTimeOut(l, lp, m, kept)
    PROVE  FlowInv'
<1>1. /\ lp \in LoopState /\ lp.polls \in 0 .. MaxPollAttempts /\ MaxPollAttempts \in Nat
      /\ m \in Method \cup {None}
  BY TurnsFromOK, LoopShape, FlowAssumption DEF Method, Approval
<1>2. CASE lp.polls + 1 > MaxPollAttempts
  BY <1>2, FailsKeeps DEF PollOrTimeOut, TurnsFrom
<1>3. CASE ~(lp.polls + 1 > MaxPollAttempts)
  <2>1. PICK p : p = [lp EXCEPT !.polls = @ + 1, !.at = m]
    OBVIOUS
  <2>2. /\ p \in LoopState /\ p.run = lp.run /\ p.view = lp.view /\ p.groups = lp.groups
        /\ p.at = m
    <3>1. lp.polls + 1 \in 0 .. MaxPollAttempts
      BY <1>1, <1>3
    <3> QED BY <3>1, <2>1, <1>1 DEF LoopState
  <2>3. /\ Goes(l, p, "delay") /\ shown' = IF m = None THEN kept ELSE m
        /\ flow' = "verifying" /\ active' = lp.view.token
        /\ UNCHANGED <<setup, svc, runs, claims, answering, connected, resend, outcomes>>
    BY <2>1, <1>3 DEF PollOrTimeOut
  <2>4. PICK q \in LoopState :
            /\ loops' = [loops EXCEPT ![l] = q] /\ q.pc = "delay"
            /\ q.run = p.run /\ q.view = p.view /\ q.groups = p.groups /\ q.answer = NoAnswer
    BY <2>2, <2>3, GoesMoves
  <2>5. shown' \in {shown, None, Approval} /\ shown' \in Method \cup {None}
    BY <2>3, <1>1 DEF FlowInv, FlowTypeOK
  <2> QED BY <2>2, <2>3, <2>4, <2>5, <1>1, TurnGoesOn
<1> QED BY <1>2, <1>3

\* One turn of executeJoin's loop.
LEMMA TurnKeeps ==
    ASSUME FlowInv, NEW l \in FlowLoop, NEW lp, TurnsFrom(l, lp), Turn(l, lp)
    PROVE  FlowInv'
<1>0. /\ lp \in LoopState /\ lp.view.token \in 1 .. MaxTokens /\ lp.view.open \subseteq Method
      /\ SeenBefore(lp.view) /\ shown \in Method \cup {None}
  BY TurnsFromOK DEF FlowInv, FlowTypeOK
<1> DEFINE open == {m \in lp.view.open : \A g \in lp.groups : m \notin g}
           acts == {m \in open : /\ m # Link
                                 /\ ~(m = Approval /\ Link \in open)
                                 /\ ~(m = "agent_allow_list" /\ ~setup.signs)}
           kept == IF lp.at = Approval THEN None ELSE shown
           still == UNCHANGED <<setup, svc, runs, claims, answering, connected, resend, outcomes>>
<1>1. CASE /\ Goes(l, lp, "provision") /\ EndChallenges /\ flow' = "provisioning" /\ still
  <2>1. PICK q \in LoopState :
            /\ loops' = [loops EXCEPT ![l] = q] /\ q.pc = "provision"
            /\ q.run = lp.run /\ q.view = lp.view /\ q.groups = lp.groups /\ q.answer = NoAnswer
    BY <1>0, <1>1, GoesMoves
  <2> QED BY <2>1, <1>1, TurnGoesOn DEF EndChallenges
<1>2. CASE /\ Return(l) /\ EndChallenges /\ flow' = "rejected" /\ Emit
           /\ UNCHANGED <<setup, svc, runs, claims, answering, connected, resend>>
  <2>1. FlowTypeOK'
    <3>1. outcomes' \in [0 .. MaxRuns -> Nat] /\ loops' \in [FlowLoop -> LoopState \cup {Off}]
      BY <1>2 DEF Emit, Return, FlowInv, FlowTypeOK
    <3>2. 0 \in 0 .. MaxTokens
      BY FlowAssumption
    <3> QED BY <3>1, <3>2, <1>2 DEF EndChallenges, FlowInv, FlowTypeOK
  <2> QED BY <2>1, <1>2, ReturnsKeeps DEF EndChallenges, TurnsFrom
<1>3. CASE /\ Goes(l, [lp EXCEPT !.at = "agent_allow_list"], "sign")
           /\ flow' = "verifying" /\ active' = lp.view.token /\ shown' = kept /\ still
  <2>1. PICK p : p = [lp EXCEPT !.at = "agent_allow_list"]
    OBVIOUS
  <2>2. /\ p \in LoopState /\ p.run = lp.run /\ p.view = lp.view /\ p.groups = lp.groups
        /\ p.at \in Method
    BY <2>1, <1>0, AtShape DEF Method
  <2>3. PICK q \in LoopState :
            /\ loops' = [loops EXCEPT ![l] = q] /\ q.pc = "sign" /\ q.at = p.at
            /\ q.run = p.run /\ q.view = p.view /\ q.groups = p.groups /\ q.answer = NoAnswer
    <3>1. Goes(l, p, "sign")
      BY <2>1, <1>3 DEF Goes
    <3> QED BY <3>1, <2>2, GoesMoves
  <2>4. shown' \in {shown, None, Approval} /\ shown' \in Method \cup {None}
    BY <1>0, <1>3
  <2> HIDE DEF kept
  <2> QED BY <2>2, <2>3, <2>4, <1>3, TurnGoesOn
<1>4. CASE PollOrTimeOut(l, lp, Approval, kept) \/ PollOrTimeOut(l, lp, None, kept)
  <2>1. PICK m \in {Approval, None} : PollOrTimeOut(l, lp, m, kept)
    BY <1>4
  <2>2. kept \in {shown, None}
    OBVIOUS
  <2> HIDE DEF kept
  <2> QED BY <2>1, <2>2, PollOrTimeOutKeeps
<1>5. CASE /\ \E m \in acts \cap Prompts : Prompted(l, lp, m)
           /\ flow' = "verifying" /\ active' = lp.view.token
           /\ UNCHANGED <<setup, svc, runs, claims, connected, resend, outcomes>>
  <2>1. PICK m \in lp.view.open \cap Prompts : Prompted(l, lp, m)
    BY <1>5
  <2> QED BY <2>1, <1>5, TurnPrompts
<1>6. CASE /\ acts = {} /\ Goes(l, [lp EXCEPT !.at = Link], "delay")
           /\ shown' = Link /\ flow' = "verifying" /\ active' = lp.view.token /\ still
  <2>1. PICK p : p = [lp EXCEPT !.at = Link]
    OBVIOUS
  <2>2. /\ p \in LoopState /\ p.run = lp.run /\ p.view = lp.view /\ p.groups = lp.groups
    BY <2>1, <1>0, AtShape DEF Method, Link
  <2>3. PICK q \in LoopState :
            /\ loops' = [loops EXCEPT ![l] = q] /\ q.pc = "delay"
            /\ q.run = p.run /\ q.view = p.view /\ q.groups = p.groups /\ q.answer = NoAnswer
    <3>1. Goes(l, p, "delay")
      BY <2>1, <1>6 DEF Goes
    <3> QED BY <3>1, <2>2, GoesMoves
  <2>4. Alternatives(lp.view.open)
    <3> SUFFICES ASSUME NEW m \in lp.view.open \cap Prompts PROVE Alternative(m)
      BY DEF Alternatives
    <3>1. m \notin acts /\ m # Link /\ m # Approval /\ m # "agent_allow_list"
      BY <1>6 DEF Prompts, Link, Approval
    <3>2. PICK g \in lp.groups : m \in g
      BY <3>1
    <3> QED BY <3>2 DEF TurnsFrom, Alternative
  <2>5. ASSUME NEW t, t = lp.view.token PROVE LinkReached(t)'
    <3>1. loops'[l] = q /\ \A k \in FlowLoop : k # l => ~Speaks(k)'
      <4>1. loops'[l] = q /\ \A k \in FlowLoop : k # l => loops'[k] = loops[k]
        BY <2>3 DEF FlowInv, FlowTypeOK
      <4> QED BY <4>1, <1>6 DEF FlowInv, TurnsFrom, RunsKept, Speaks, Current
    <3>2. t = svc.token => Alternatives(Left)
      BY <2>4, <2>5, <1>0 DEF SeenBefore, Alternatives
    <3>3. (t = svc.token => Alternatives(Left))'
      BY <3>2, <1>6 DEF Alternatives, Alternative, Left
    <3>4. ASSUME NEW k \in FlowLoop, Speaks(k)'
          PROVE  (/\ loops[k].view \in View /\ loops[k].view.token = t =>
                         Alternatives(loops[k].view.open)
                  /\ loops[k].answer \in View /\ loops[k].answer.token = t =>
                         Alternatives(loops[k].answer.open))'
      <4>1. loops'[k] = q /\ q.view = lp.view /\ q.answer = NoAnswer
        BY <3>1, <3>4, <2>2, <2>3
      <4> QED BY <4>1, <2>4, <1>6, PlainAnswers DEF Alternatives, Alternative
    <3> QED BY <3>3, <3>4 DEF LinkReached
  <2>6. Link \in Method
    BY DEF Link, Method
  <2> HIDE DEF acts, open
  <2> QED BY <2>2, <2>3, <2>5, <2>6, <1>6, TurnGoesOn
<1> QED BY <1>1, <1>2, <1>3, <1>4, <1>5, <1>6 DEF Turn

\* A loop of an earlier flow stops, and nothing else changes.
LEMMA StopsKeeps ==
    ASSUME FlowInv, NEW l \in FlowLoop, loops[l] # Off, loops[l].pc # "prompt",
           ~Current(l), Stops(l)
    PROVE  FlowInv'
<1> USE DEF FlowInv
<1>1. /\ loops'[l] = Off /\ \A k \in FlowLoop : k # l => loops'[k] = loops[k]
      /\ UNCHANGED <<setup, svc, runs, flow, claims, shown, answering, active, connected,
                     resend, outcomes>>
  BY DEF Stops, Return, FlowTypeOK
<1>2. FlowTypeOK'
  <2>1. loops' \in [FlowLoop -> LoopState \cup {Off}]
    BY DEF Stops, Return, FlowTypeOK
  <2> QED BY <2>1, <1>1 DEF FlowTypeOK
<1>3. LoopMoved(l, Off)
  BY <1>1 DEF LoopMoved
<1>4. LoopsOK' /\ ViewsKept' /\ \A t : LinkReached(t) => LinkReached(t)'
  BY <1>1, <1>3, MovedKeeps DEF ViewsKept
<1>5. \A k \in FlowLoop : Speaks(k)' => k # l /\ Speaks(k) /\ loops'[k] = loops[k]
  BY <1>1 DEF Speaks, Current
<1>6. RunsKept'
  <2>1. ASSUME NEW k \in FlowLoop, Speaks(k)' PROVE StatusOf(loops[k])'
    BY <2>1, <1>1, <1>5 DEF RunsKept, StatusOf
  <2> QED BY <2>1, <1>1, <1>5 DEF RunsKept
<1>7. DialogKept'
  BY <1>1 DEF DialogKept
<1>8. PromptKept'
  <2>1. \A k \in FlowLoop : Speaks(k)' /\ loops'[k].pc = "prompt" => shown' \in {Link, loops'[k].at}
    BY <1>1, <1>5 DEF PromptKept
  <2> QED BY <2>1, <1>1, <1>4, PromptFrame
<1> QED BY <1>2, <1>4, <1>6, <1>7, <1>8

\* The form of a step that only sends a loop on: it joins, verifies or polls.
LEMMA SendsKeeps ==
    ASSUME FlowInv, NEW l \in FlowLoop, Speaks(l),
           NEW pc \in {"join", "verify", "poll"}, Goes(l, loops[l], pc),
           \/ pc = "join" /\ loops[l].pc = "info" /\ flow' = "joining" /\ claims' = setup.prefilled
           \/ /\ \/ pc = "verify" /\ loops[l].pc = "sign"
                 \/ pc = "poll" /\ loops[l].pc = "delay"
              /\ UNCHANGED <<flow, claims>>,
           UNCHANGED <<setup, svc, runs, shown, answering, active, connected, resend, outcomes>>
    PROVE  FlowInv'
<1> USE DEF FlowInv
<1>1. loops[l] \in LoopState /\ loops[l] # Off
  BY DEF Speaks, FlowTypeOK
<1>2. PICK q \in LoopState :
          /\ loops' = [loops EXCEPT ![l] = q] /\ q.pc = pc /\ q.answer = NoAnswer
          /\ q.run = loops[l].run /\ q.view = loops[l].view /\ q.groups = loops[l].groups
          /\ q.at = loops[l].at
  BY <1>1, GoesMoves
<1>3. loops'[l] = q /\ \A k \in FlowLoop : k # l => loops'[k] = loops[k]
  BY <1>2 DEF FlowTypeOK
<1>4. FlowTypeOK'
  <2>1. loops' \in [FlowLoop -> LoopState \cup {Off}]
    BY <1>2 DEF FlowTypeOK
  <2>2. claims' \subseteq Method \cup {"email"}
    BY SetupShape DEF FlowTypeOK
  <2> QED BY <2>1, <2>2 DEF FlowTypeOK
<1>5. LoopOK(loops[l]) /\ StatusOf(loops[l])
  BY <1>1 DEF LoopsOK, RunsKept
<1>6. LoopOK(q)
  BY <1>2, <1>5, PlainAnswers DEF LoopOK
<1>7. LoopMoved(l, q)
  BY <1>1, <1>2, <1>3, <1>5, <1>6, LoopShape DEF LoopMoved, LoopOK
<1>8. /\ StatusOf(q)' /\ active' <= svc.token /\ flow' \in {"joining", "verifying"}
      /\ (shown' # None \/ active' # 0 => flow' = "verifying")
  BY <1>2, <1>5 DEF StatusOf, DialogKept, ViewsKept
<1> QED BY <1>2, <1>3, <1>4, <1>7, <1>8, GoesOn DEF Speaks, Current

\* A loop takes what it was told.
LEMMA TakeKeeps ==
    ASSUME FlowInv, NEW l \in FlowLoop, Take(l)
    PROVE  FlowInv'
<1>0. /\ loops[l] \in LoopState /\ loops[l] # Off /\ loops[l].answer # NoAnswer
      /\ LoopOK(loops[l]) /\ loops[l].pc # "prompt" /\ loops[l].answer \in Answer
      /\ (Current(l) => Speaks(l))
  BY LoopShape DEF Take, FlowInv, FlowTypeOK, LoopsOK, LoopOK, Speaks
<1>1. CASE ~Current(l) /\ Stops(l)
  BY <1>0, <1>1, StopsKeeps
<1>2. CASE /\ Current(l) /\ loops[l].pc = "info"
           /\ Return(l) /\ flow' = "collecting-claims" /\ UNCHANGED claims
           /\ UNCHANGED <<setup, svc, runs, shown, answering, active, connected, resend, outcomes>>
  <2>1. FlowTypeOK'
    BY <1>2 DEF FlowInv, FlowTypeOK, Return
  <2> QED BY <2>1, <1>0, <1>2, ReturnsKeeps
<1>3. CASE /\ Current(l) /\ loops[l].pc = "info"
           /\ Goes(l, loops[l], "join") /\ flow' = "joining" /\ claims' = setup.prefilled
           /\ UNCHANGED <<setup, svc, runs, shown, answering, active, connected, resend, outcomes>>
  BY <1>0, <1>3, SendsKeeps
<1>4. CASE /\ Current(l) /\ loops[l].pc = "sign" /\ Goes(l, loops[l], "verify")
           /\ UNCHANGED <<setup, svc, runs, flow, claims, shown, answering, active, connected,
                          resend, outcomes>>
  BY <1>0, <1>4, SendsKeeps
<1>5. CASE /\ Current(l) /\ loops[l].answer.kind = "view"
           /\ Turn(l, [loops[l] EXCEPT !.view = loops[l].answer, !.groups = @ \cup
                 {g \in setup.entries : /\ loops[l].pc = "verify" /\ Cardinality(g) > 1
                                        /\ loops[l].at \in g}])
  <2>1. PICK more : more = {g \in setup.entries : /\ loops[l].pc = "verify" /\ Cardinality(g) > 1
                                                  /\ loops[l].at \in g}
    OBVIOUS
  <2>2. PICK lp : lp = [loops[l] EXCEPT !.view = loops[l].answer, !.groups = @ \cup more]
    OBVIOUS
  <2>3. loops[l].answer \in View
    BY <1>0, <1>5, AnswerShape
  <2>4. more \subseteq SUBSET Method
    BY <2>1, SetupShape DEF FlowInv, FlowTypeOK
  <2>5. /\ lp \in LoopState /\ lp.run = loops[l].run /\ lp.view = loops[l].answer
        /\ lp.groups = loops[l].groups \cup more
    BY <2>2, <2>3, <2>4, <1>0 DEF LoopState
  <2>6. TurnsFrom(l, lp)
    BY <2>1, <2>3, <2>5, <1>0, <1>5 DEF TurnsFrom, LoopOK, Speaks, Current
  <2>7. Turn(l, lp)
    BY <2>1, <2>2, <1>5
  <2> QED BY <2>6, <2>7, TurnKeeps
<1>6. CASE /\ Current(l) /\ loops[l].pc = "provision"
           /\ Return(l) /\ flow' = "ready" /\ Emit
           /\ UNCHANGED <<setup, svc, runs, claims, shown, answering, active, connected, resend>>
  <2>1. FlowTypeOK'
    <3>1. outcomes' \in [0 .. MaxRuns -> Nat] /\ loops' \in [FlowLoop -> LoopState \cup {Off}]
      BY <1>6 DEF Emit, Return, FlowInv, FlowTypeOK
    <3> QED BY <3>1, <1>6 DEF FlowInv, FlowTypeOK
  <2> QED BY <2>1, <1>0, <1>6, ReturnsKeeps
<1>7. CASE Current(l) /\ loops[l].pc = "poll" /\ Turn(l, loops[l])
  <2>1. loops[l].view \in View
    BY <1>0, <1>7, LoopShape DEF LoopOK
  <2>2. TurnsFrom(l, loops[l])
    BY <2>1, <1>0, <1>7 DEF TurnsFrom, LoopOK, Speaks, Current
  <2> QED BY <2>2, <1>0, <1>7, TurnKeeps
<1>8. CASE /\ Current(l) /\ Return(l)
           /\ HandleError(IF loops[l].answer.kind = "rejected" THEN "rejected" ELSE "error")
  BY <1>0, <1>8, FailsKeeps
<1> QED BY <1>1, <1>2, <1>3, <1>4, <1>5, <1>6, <1>7, <1>8 DEF Take

\* A delay ends.
LEMMA WakeKeeps ==
    ASSUME FlowInv, NEW l \in FlowLoop, Wake(l)
    PROVE  FlowInv'
<1>1. loops[l] # Off /\ loops[l].pc = "delay" /\ (Current(l) => Speaks(l))
  BY DEF Wake, Speaks
<1>2. CASE ~Current(l) /\ Stops(l)
  BY <1>1, <1>2, StopsKeeps
<1>3. CASE /\ Current(l) /\ Return(l) /\ EndChallenges /\ flow' = "idle"
           /\ UNCHANGED <<setup, svc, runs, claims, answering, connected, resend, outcomes>>
  <2>1. FlowTypeOK'
    <3>1. 0 \in 0 .. MaxTokens
      BY FlowAssumption
    <3> QED BY <3>1, <1>3 DEF FlowInv, FlowTypeOK, Return, EndChallenges
  <2> QED BY <2>1, <1>1, <1>3, ReturnsKeeps DEF EndChallenges
<1>4. CASE /\ Current(l) /\ Goes(l, loops[l], "poll")
           /\ UNCHANGED <<setup, svc, runs, flow, claims, shown, answering, active, connected,
                          resend, outcomes>>
  BY <1>1, <1>4, SendsKeeps
<1> QED BY <1>2, <1>3, <1>4 DEF Wake

----------------------------------------------------------------------------
(* What the person and the page do keeps the invariant *)

\* A loop that starts, or that the form starts again.
LEMMA FreshLoop ==
    ASSUME NEW pc \in {"info", "join"}, NEW r \in 0 .. MaxRuns
    PROVE  \E q \in LoopState :
              /\ q = [pc |-> pc, run |-> r, view |-> NoAnswer, answer |-> NoAnswer,
                      groups |-> {}, polls |-> 0, at |-> None]
              /\ LoopOK(q) /\ q.pc = pc /\ q.run = r /\ q.view = NoAnswer /\ q.answer = NoAnswer
<1>1. PICK q : q = [pc |-> pc, run |-> r, view |-> NoAnswer, answer |-> NoAnswer,
                    groups |-> {}, polls |-> 0, at |-> None]
  OBVIOUS
<1>2. q \in LoopState
  BY <1>1, PlainAnswers, FlowAssumption DEF LoopState
<1>3. LoopOK(q)
  BY <1>1, PlainAnswers DEF LoopOK
<1> QED BY <1>1, <1>2, <1>3

\* A flow starts: what ran before is not current any more.
LEMMA StartKeeps ==
    ASSUME FlowInv, NEW l \in FlowLoop, Start(l), connected' \in BOOLEAN
    PROVE  FlowInv'
<1> USE DEF FlowInv
<1>1. /\ setup' = setup /\ svc' = svc /\ resend' = resend /\ answering' = answering
      /\ claims' = claims /\ outcomes' = outcomes
      /\ runs' = runs + 1 /\ runs < MaxRuns /\ runs \in Nat /\ MaxRuns \in Nat
      /\ flow' = "connecting" /\ shown' = None /\ active' = 0 /\ loops[l] = Off
  BY FlowAssumption DEF Start, EndChallenges, FlowTypeOK
<1>2. runs' \in 0 .. MaxRuns
  BY <1>1
<1>3. PICK q \in LoopState :
          /\ q = [pc |-> "info", run |-> runs + 1, view |-> NoAnswer, answer |-> NoAnswer,
                  groups |-> {}, polls |-> 0, at |-> None]
          /\ LoopOK(q) /\ q.pc = "info" /\ q.run = runs' /\ q.view = NoAnswer
          /\ q.answer = NoAnswer
  BY <1>1, <1>2, FreshLoop
<1>4. loops' = [loops EXCEPT ![l] = q]
  BY <1>3 DEF Start
<1>5. loops'[l] = q /\ q # Off /\ \A k \in FlowLoop : k # l => loops'[k] = loops[k]
  BY <1>3, <1>4, LoopShape DEF FlowTypeOK
<1>6. FlowTypeOK'
  <2>1. loops' \in [FlowLoop -> LoopState \cup {Off}]
    BY <1>4 DEF FlowTypeOK
  <2>2. 0 \in 0 .. MaxTokens
    BY FlowAssumption
  <2> QED BY <2>1, <2>2, <1>1, <1>2 DEF FlowTypeOK
<1>7. LoopMoved(l, q)
  BY <1>1, <1>3, <1>5 DEF LoopMoved
<1>8. LoopsOK' /\ ViewsKept' /\ \A t : LinkReached(t) => LinkReached(t)'
  <2>1. 0 <= svc.token
    BY DEF FlowTypeOK
  <2> QED BY <2>1, <1>1, <1>7, MovedKeeps
<1>9. ASSUME NEW k \in FlowLoop, k # l, loops'[k] # Off
      PROVE  loops'[k].run <= runs' /\ ~Speaks(k)'
  <2>1. loops[k] \in LoopState /\ loops[k].run <= runs
    BY <1>5, <1>9 DEF FlowTypeOK, RunsKept
  <2> QED BY <2>1, <1>1, <1>5, <1>9, LoopShape DEF Speaks, Current
<1>10. RunsKept'
  <2>1. ASSUME NEW k \in FlowLoop, Speaks(k)' PROVE k = l /\ StatusOf(loops[k])'
    <3>1. k = l
      BY <2>1, <1>9 DEF Speaks
    <3> QED BY <3>1, <1>1, <1>3, <1>5 DEF StatusOf
  <2>2. \A k \in FlowLoop : loops'[k] # Off => loops'[k].run <= runs'
    BY <1>2, <1>3, <1>5, <1>9
  <2>3. \A r \in 0 .. MaxRuns : outcomes'[r] <= 1 /\ (r > runs' => outcomes'[r] = 0)
    BY <1>1 DEF RunsKept
  <2>4. outcomes'[runs'] = 0
    BY <1>1, <1>2 DEF RunsKept
  <2> QED BY <2>1, <2>2, <2>3, <2>4, <1>1 DEF RunsKept
<1>11. DialogKept'
  BY <1>1, <1>3, <1>5 DEF DialogKept
<1>12. PromptKept'
  <2>1. \A k \in FlowLoop : Speaks(k)' => loops'[k].pc # "prompt"
    BY <1>3, <1>5, <1>9 DEF Speaks
  <2> QED BY <2>1, <1>1, <1>8, PromptFrame DEF Link, None
<1> QED BY <1>6, <1>8, <1>10, <1>11, <1>12

\* The form is submitted under the run that showed it.
LEMMA SubmitClaimsKeeps ==
    ASSUME FlowInv, NEW l \in FlowLoop, SubmitClaims(l)
    PROVE  FlowInv'
<1> USE DEF FlowInv
<1>1. /\ UNCHANGED <<setup, svc, runs, shown, answering, active, connected, resend, outcomes>>
      /\ flow' = "joining" /\ flow = "collecting-claims" /\ loops[l] = Off
      /\ claims' \in FormClaims
  BY DEF SubmitClaims, FormShown
<1>2. runs \in 0 .. MaxRuns /\ outcomes[runs] = 0 /\ \A k \in FlowLoop : ~Speaks(k)
  BY <1>1 DEF FlowTypeOK, RunsKept
<1>3. PICK q \in LoopState :
          /\ q = [pc |-> "join", run |-> runs, view |-> NoAnswer, answer |-> NoAnswer,
                  groups |-> {}, polls |-> 0, at |-> None]
          /\ LoopOK(q) /\ q.pc = "join" /\ q.run = runs /\ q.view = NoAnswer
          /\ q.answer = NoAnswer
  BY <1>2, FreshLoop
<1>4. loops' = [loops EXCEPT ![l] = q]
  BY <1>3 DEF SubmitClaims
<1>5. loops'[l] = q /\ q # Off /\ \A k \in FlowLoop : k # l => loops'[k] = loops[k]
  BY <1>3, <1>4, LoopShape DEF FlowTypeOK
<1>6. FlowTypeOK'
  <2>1. loops' \in [FlowLoop -> LoopState \cup {Off}]
    BY <1>4 DEF FlowTypeOK
  <2>2. UNION setup.entries \subseteq Method
    BY SetupShape DEF FlowTypeOK
  <2>3. claims' \subseteq Method \cup {"email"}
    BY <2>2, <1>1 DEF FormClaims, FormInputs, ClaimKey
  <2> QED BY <2>1, <2>3, <1>1 DEF FlowTypeOK
<1>7. LoopMoved(l, q)
  BY <1>1, <1>3, <1>5 DEF LoopMoved
<1>8. LoopsOK' /\ ViewsKept' /\ \A t : LinkReached(t) => LinkReached(t)'
  BY <1>1, <1>7, MovedKeeps DEF ViewsKept
<1>9. \A k \in FlowLoop : Speaks(k)' => k = l
  BY <1>1, <1>2, <1>5 DEF Speaks, Current
<1>10. shown = None /\ active = 0
  BY <1>1 DEF DialogKept, FlowTypeOK
<1>11. RunsKept'
  <2>1. ASSUME NEW k \in FlowLoop, Speaks(k)' PROVE StatusOf(loops[k])'
    BY <2>1, <1>1, <1>3, <1>5, <1>9 DEF StatusOf
  <2>2. \A k \in FlowLoop : loops'[k] # Off => loops'[k].run <= runs
    BY <1>2, <1>3, <1>5 DEF RunsKept
  <2> QED BY <2>1, <2>2, <1>1, <1>2, <1>9 DEF RunsKept
<1>12. DialogKept'
  BY <1>1, <1>3, <1>5, <1>10 DEF DialogKept
<1>13. PromptKept'
  <2>1. \A k \in FlowLoop : Speaks(k)' => loops'[k].pc # "prompt"
    BY <1>3, <1>5, <1>9
  <2> QED BY <2>1, <1>1, <1>8, <1>10, PromptFrame DEF Link, None
<1> QED BY <1>6, <1>8, <1>11, <1>12, <1>13

\* The answer goes to the loop at the prompt, which verifies it, or stops when its run
\* is over.
LEMMA RespondKeeps ==
    ASSUME FlowInv, Respond
    PROVE  FlowInv'
<1> USE DEF FlowInv
<1>1. /\ UNCHANGED <<setup, svc, runs, flow, claims, active, connected, resend, outcomes>>
      /\ answering' = None /\ shown' = None /\ answering # None /\ shown # None
  BY DEF Respond, MayAnswer, DialogShown
<1>2. PICK l \in FlowLoop : l = answering
  BY <1>1 DEF FlowTypeOK
<1>3. loops[l] # Off /\ loops[l].pc = "prompt" /\ loops[l] \in LoopState /\ LoopOK(loops[l])
      /\ flow = "verifying"
  BY <1>1, <1>2 DEF DialogKept, FlowTypeOK, LoopsOK
<1>4. PICK q \in LoopState \cup {Off} :
          /\ loops' = [loops EXCEPT ![l] = q]
          /\ q = Off => ~Current(l)
          /\ q # Off => /\ Current(l) /\ q.pc = "verify" /\ q.answer = NoAnswer
                        /\ q.run = loops[l].run /\ q.view = loops[l].view
                        /\ q.groups = loops[l].groups /\ q.at = loops[l].at
  <2>1. CASE Current(l)
    <3>1. Goes(l, loops[l], "verify")
      BY <2>1, <1>2 DEF Respond
    <3> QED BY <2>1, <3>1, <1>3, GoesMoves, LoopShape
  <2>2. CASE ~Current(l)
    BY <2>2, <1>2 DEF Respond, Return
  <2> QED BY <2>1, <2>2
<1>5. loops'[l] = q /\ \A k \in FlowLoop : k # l => loops'[k] = loops[k]
  BY <1>4 DEF FlowTypeOK
<1>6. FlowTypeOK'
  BY <1>1, <1>4 DEF FlowTypeOK
<1>7. q # Off => LoopOK(q) /\ q.view \in View
  <2>1. q # Off => LoopOK(q)
    BY <1>3, <1>4, LoopShape, PlainAnswers DEF LoopOK, Prompts, Method
  <2>2. loops[l].view \in View
    BY <1>3, LoopShape DEF LoopOK
  <2> QED BY <2>1, <2>2, <1>4
<1>8. LoopMoved(l, q)
  BY <1>1, <1>3, <1>4, <1>5, <1>7 DEF LoopMoved, Speaks
<1>9. LoopsOK' /\ ViewsKept' /\ \A t : LinkReached(t) => LinkReached(t)'
  BY <1>1, <1>8, MovedKeeps DEF ViewsKept
<1>10. \A k \in FlowLoop : Speaks(k)' => Speaks(k)
  BY <1>1, <1>3, <1>4, <1>5 DEF Speaks, Current
<1>11. RunsKept'
  <2>1. ASSUME NEW k \in FlowLoop, Speaks(k)' PROVE StatusOf(loops[k])'
    <3>1. StatusOf(loops[k]) /\ Speaks(k)
      BY <2>1, <1>10 DEF RunsKept
    <3>2. CASE k = l
      BY <3>1, <3>2, <2>1, <1>1, <1>3, <1>4, <1>5 DEF StatusOf, Speaks
    <3>3. CASE k # l
      BY <3>1, <3>3, <1>1, <1>5 DEF StatusOf
    <3> QED BY <3>2, <3>3
  <2>2. \A k \in FlowLoop : loops'[k] # Off => loops'[k].run <= runs
    BY <1>3, <1>4, <1>5 DEF RunsKept
  <2> QED BY <2>1, <2>2, <1>1, <1>3, <1>10 DEF RunsKept
<1>12. DialogKept'
  <2>1. \A k \in FlowLoop : ~(loops'[k] # Off /\ loops'[k].pc = "prompt")
    BY <1>2, <1>4, <1>5 DEF DialogKept
  <2>2. \A k \in FlowLoop : answering' # k
    BY <1>1, FlowAssumption
  <2> QED BY <2>1, <2>2, <1>1, <1>3 DEF DialogKept
<1>13. PromptKept'
  <2>1. \A k \in FlowLoop : ~(Speaks(k)' /\ loops'[k].pc = "prompt")
    BY <1>2, <1>4, <1>5 DEF DialogKept, Speaks
  <2> QED BY <2>1, <1>1, <1>9, PromptFrame DEF Link, None
<1> QED BY <1>6, <1>9, <1>11, <1>12, <1>13

\* The email is asked for again, or that is answered; the loops go on.
LEMMA ResendKeeps ==
    ASSUME FlowInv, AskResend \/ TakeResent
    PROVE  FlowInv'
<1> USE DEF FlowInv
<1>1. UNCHANGED <<setup, svc, runs, flow, claims, answering, active, connected, loops, outcomes>>
  BY DEF AskResend, TakeResent
<1>2. \/ AskResend /\ resend' = active /\ shown' = shown /\ shown = Link
      \/ TakeResent /\ resend' = 0 /\ shown' = shown
      \/ TakeResent /\ resend' = 0 /\ shown' = Link /\ active = resend /\ resend # 0
  BY DEF AskResend, MayResend, TakeResent, Resent
<1>3. FlowTypeOK'
  <2>1. Link \in Method /\ 0 \in 0 .. MaxTokens
    BY FlowAssumption DEF Link, Method
  <2> QED BY <2>1, <1>1, <1>2 DEF FlowTypeOK
<1>4. LoopsOK'
  BY <1>1 DEF LoopsOK, LoopOK
<1>5. RunsKept'
  BY <1>1 DEF RunsKept, Speaks, Current, StatusOf
<1>6. DialogKept'
  BY <1>1, <1>2 DEF DialogKept
<1>7. ViewsKept'
  <2>1. 0 <= svc.token
    BY DEF FlowTypeOK
  <2> QED BY <2>1, <1>1, <1>2 DEF ViewsKept, SeenBefore, Left
<1>8. PromptKept'
  <2>1. ASSUME NEW t, LinkReached(t) PROVE LinkReached(t)'
    BY <2>1, <1>1 DEF LinkReached, Alternatives, Alternative, Left, Speaks, Current
  <2>2. shown' = Link => LinkReached(active)
    BY <1>2 DEF PromptKept
  <2>3. resend' # 0 => LinkReached(resend')
    BY <1>2 DEF PromptKept
  <2>4. \A k \in FlowLoop : Speaks(k)' /\ loops'[k].pc = "prompt" => shown' \in {Link, loops'[k].at}
    BY <1>1, <1>2 DEF PromptKept, Speaks, Current
  <2>5. (shown = Link => LinkReached(active))'
    <3>1. PICK t : t = active
      OBVIOUS
    <3>2. shown' = Link => LinkReached(t)'
      BY <3>1, <2>1, <2>2
    <3> QED BY <3>1, <3>2, <1>1 DEF LinkReached
  <2>6. (resend # 0 => LinkReached(resend))'
    <3>1. PICK t : t = resend'
      OBVIOUS
    <3>2. resend' # 0 => LinkReached(t)'
      BY <3>1, <2>1, <2>3
    <3> QED BY <3>1, <3>2 DEF LinkReached
  <2> QED BY <2>4, <2>5, <2>6 DEF PromptKept
<1> QED BY <1>3, <1>4, <1>5, <1>6, <1>7, <1>8

\* The element is moved, or nothing happens.
LEMMA StillKeeps ==
    ASSUME FlowInv, connected' \in BOOLEAN,
           UNCHANGED <<setup, svc, runs, flow, claims, shown, answering, active, loops,
                       resend, outcomes>>
    PROVE  FlowInv'
BY DEF FlowInv, FlowTypeOK, LoopsOK, LoopOK, RunsKept, StatusOf, Speaks, Current, DialogKept,
       ViewsKept, SeenBefore, Left, PromptKept, LinkReached, Alternatives, Alternative

----------------------------------------------------------------------------
(* The theorems *)

\* The invariant holds at first.
LEMMA FlowInitOK ==
    ASSUME FlowInit
    PROVE  FlowInv
<1>1. FlowTypeOK
  <2>1. 0 \in 0 .. MaxRuns /\ 0 \in 0 .. MaxTokens /\ 0 \in Nat
    BY FlowAssumption
  <2>2. svc \in [token : 0 .. MaxTokens, status : {None, "pending", "ready", "rejected"},
                 made : SUBSET Method, done : SUBSET Method]
    BY <2>1 DEF FlowInit
  <2> QED BY <2>1, <2>2 DEF FlowInit, FlowTypeOK
<1>2. LoopsOK /\ RunsKept
  BY FlowAssumption DEF FlowInit, LoopsOK, RunsKept, Speaks
<1>3. DialogKept /\ ViewsKept /\ PromptKept
  BY FlowAssumption DEF FlowInit, DialogKept, ViewsKept, PromptKept, Speaks, Link, None
<1> QED BY <1>1, <1>2, <1>3 DEF FlowInv

\* Every step keeps the invariant.
LEMMA FlowNextOK ==
    ASSUME FlowInv, [FlowNext]_flowVars
    PROVE  FlowInv'
<1>1. ASSUME NEW l \in FlowLoop,
             \/ ServeJoin(l) \/ ServeVerify(l) \/ ServePoll(l) \/ ServeProvision(l)
             \/ ServeOther(l) \/ ServeNothing(l)
      PROVE  FlowInv'
  BY <1>1, ServesKeeps DEF Serves
<1>2. ASSUME NEW l \in FlowLoop, Take(l) \/ Wake(l) \/ SubmitClaims(l) PROVE FlowInv'
  BY <1>2, TakeKeeps, WakeKeeps, SubmitClaimsKeeps
<1>3. CASE ServiceMoves
  BY <1>3, ServiceMovesKeeps
<1>4. CASE Connect \/ Restart
  BY <1>4, StartKeeps, StillKeeps DEF Connect, Restart, FlowInv, FlowTypeOK
<1>5. CASE Cancel
  BY <1>5, FailsKeeps DEF Cancel
<1>6. CASE Disconnect
  BY <1>6, StillKeeps DEF Disconnect
<1>7. CASE Respond \/ AskResend \/ TakeResent
  BY <1>7, RespondKeeps, ResendKeeps
<1>8. CASE UNCHANGED flowVars
  BY <1>8, StillKeeps DEF flowVars, FlowInv, FlowTypeOK
<1> QED BY <1>1, <1>2, <1>3, <1>4, <1>5, <1>6, <1>7, <1>8 DEF FlowNext

\* The invariant holds of every flow, whatever the setups, loops and bounds.
THEOREM FlowInvariance == FlowSpec => []FlowInv
<1>1. FlowInv /\ [FlowNext]_flowVars => FlowInv'
  BY FlowNextOK
<1> QED BY <1>1, FlowInitOK, PTL DEF FlowSpec

\* Every variable of the flow keeps its type.
THEOREM FlowTypeCorrect == FlowSpec => []FlowTypeOK
<1>1. FlowInv => FlowTypeOK
  BY DEF FlowInv
<1> QED BY <1>1, FlowInvariance, PTL

\* A flow that starts ends with one event at most, and one loop at most speaks for it.
THEOREM OneEventPerFlow == FlowSpec => []OneOutcome
<1>1. FlowInv => OneOutcome
  <2> SUFFICES ASSUME FlowInv
               PROVE  Cardinality({l \in FlowLoop : loops[l] # Off /\ loops[l].run = runs}) <= 1
    BY DEF OneOutcome, FlowInv, RunsKept
  <2>1. PICK S : S = {l \in FlowLoop : loops[l] # Off /\ loops[l].run = runs}
    OBVIOUS
  <2>2. CASE S = {}
    BY <2>1, <2>2, FS_EmptySet
  <2>3. CASE S # {}
    <3>1. PICK l : l \in S
      BY <2>3
    <3>2. S = {l}
      BY <2>1, <3>1 DEF FlowInv, RunsKept, Speaks, Current
    <3>3. Cardinality(S) = 1
      BY <3>2, FS_Singleton
    <3> QED BY <2>1, <3>3
  <2> QED BY <2>2, <2>3
<1> QED BY <1>1, FlowInvariance, PTL

\* A waiting loop's own promise is the one the dialog settles, and what the dialog
\* shows is its prompt, or the link of its session where an any_of entry allows that;
\* no dialog is open when the flow does not verify.
THEOREM DialogIsOfTheLoop == FlowSpec => []DialogOfTheLoop
<1>1. FlowInv => DialogOfTheLoop
  <2> SUFFICES ASSUME FlowInv, NEW l \in FlowLoop, loops[l] # Off, loops[l].pc = "prompt",
                      loops[l].run = runs
               PROVE  /\ answering = l
                      /\ shown = loops[l].at \/ (shown = Link /\ Alternative(loops[l].at))
    BY DEF DialogOfTheLoop, FlowInv, DialogKept
  <2>1. /\ answering = l /\ Speaks(l) /\ loops[l] \in LoopState /\ LoopOK(loops[l])
        /\ shown \in {Link, loops[l].at}
    BY DEF FlowInv, DialogKept, PromptKept, LoopsOK, Speaks, Current, FlowTypeOK
  <2>2. active = loops[l].view.token /\ loops[l].view \in View
    BY <2>1, LoopShape DEF FlowInv, RunsKept, StatusOf, LoopOK
  <2>3. CASE shown = Link
    <3>1. Alternatives(loops[l].view.open)
      BY <2>1, <2>2, <2>3 DEF FlowInv, PromptKept, LinkReached
    <3>2. Alternative(loops[l].at)
      BY <2>1, <3>1 DEF LoopOK, Alternatives
    <3> QED BY <2>1, <2>3, <3>2
  <2> QED BY <2>1, <2>3
<1> QED BY <1>1, FlowInvariance, PTL

----------------------------------------------------------------------------
(* The service of the flow keeps the promises of SessionLife *)

\* A session that may become ready, or did, asks for a check of every entry but of
\* those that need none.
EligibleKept == svc.status \in {"pending", "ready"} => Eligible(svc.made)

\* A session all of whose challenges allow it to be ready has passed one check of
\* every entry.
LEMMA SettledAdmits ==
    ASSUME NEW t, NEW s \in Service, setup \in Setups,
           Eligible(s.made), Satisfied(s)
    PROVE  Life(t)!Admitted(s.done \cup ({"open", Approval} \ s.made))
<1> SUFFICES ASSUME NEW e \in setup.entries
             PROVE  e \cap (s.done \cup ({"open", Approval} \ s.made)) # {}
  BY DEF Life!Admitted
<1>1. CASE e \cap s.made = {}
  BY <1>1 DEF Eligible
<1>2. CASE e \cap s.done # {}
  BY <1>2
<1> QED BY <1>1, <1>2 DEF Satisfied

\* The service may answer with a session of its own.
ServiceGoes == ServiceMoves \/ \E l \in FlowLoop : Serves(l)

\* Nothing but the service changes its session.
LEMMA OthersLeaveService ==
    ASSUME [FlowNext]_flowVars
    PROVE  setup' = setup /\ (ServiceGoes \/ svc' = svc)
<1>0. ASSUME NEW l \in FlowLoop, NEW lp, NEW m, NEW status,
             NEW kept, Stops(l) \/ HandleError(status) \/ PollOrTimeOut(l, lp, m, kept)
      PROVE  setup' = setup /\ svc' = svc
  BY <1>0 DEF Stops, HandleError, PollOrTimeOut
<1>t. ASSUME NEW l \in FlowLoop, NEW lp, Turn(l, lp)
      PROVE  setup' = setup /\ svc' = svc
  BY <1>t, <1>0 DEF Turn
<1>1. ASSUME NEW l \in FlowLoop, Take(l)
      PROVE  setup' = setup /\ svc' = svc
  BY <1>1, <1>0, <1>t DEF Take
<1>2. ASSUME NEW l \in FlowLoop, Wake(l) \/ SubmitClaims(l)
      PROVE  setup' = setup /\ svc' = svc
  BY <1>2 DEF Wake, Stops, SubmitClaims
<1>3. ASSUME NEW l \in FlowLoop, Serves(l)
      PROVE  setup' = setup
  BY <1>3 DEF Serves, ServeJoin, ServeVerify, ServePoll, ServeProvision, ServeOther,
              ServeNothing, Unserved
<1>4. CASE Connect \/ Restart \/ Disconnect
  BY <1>4 DEF Connect, Restart, Disconnect, Start
<1>5. CASE Cancel \/ Respond \/ AskResend \/ TakeResent
  BY <1>5 DEF Cancel, HandleError, Respond, AskResend, TakeResent
<1>6. CASE ServiceMoves
  BY <1>6 DEF ServiceMoves, Unserved, ServiceGoes
<1>7. CASE UNCHANGED flowVars
  BY <1>7 DEF flowVars
<1> QED BY <1>1, <1>2, <1>3, <1>4, <1>5, <1>6, <1>7 DEF FlowNext, Serves, ServiceGoes

\* How the service changes its session: it makes one, or loses it, or settles it,
\* completes a challenge of it, or rejects it.
LEMMA ServiceSteps ==
    ASSUME FlowInv, ServiceGoes
    PROVE  \/ svc' = svc \/ svc' = Removed
           \/ svc' = Settled(svc)
           \/ svc.status \in {"pending", "ready"} /\ svc' = [svc EXCEPT !.status = "rejected"]
           \/ \E m \in Method :
                 /\ svc.status = "pending"
                 /\ LET s == [svc EXCEPT !.done = @ \cup {m}] IN svc' = s \/ svc' = Settled(s)
           \/ /\ svc.token < MaxTokens
              /\ \E ms \in SUBSET Method : Eligible(ms) /\ svc' = NewSession(ms)
<1>1. ASSUME NEW l \in FlowLoop, ServeJoin(l)
      PROVE  \/ svc' = svc \/ svc' = Removed \/ svc' = Settled(svc)
             \/ /\ svc.token < MaxTokens
                /\ \E ms \in SUBSET Method : Eligible(ms) /\ svc' = NewSession(ms)
  <2>1. setup \in Setups
    BY DEF FlowInv, FlowTypeOK
  <2> QED BY <1>1, <2>1, SetupShape DEF ServeJoin, Replaced
<1>2. ASSUME NEW l \in FlowLoop, ServeVerify(l)
      PROVE  \/ svc' = svc
             \/ \E m \in Method :
                 /\ svc.status = "pending"
                 /\ LET s == [svc EXCEPT !.done = @ \cup {m}] IN svc' = s \/ svc' = Settled(s)
  <2>1. loops[l].at \in Method
    BY <1>2 DEF ServeVerify, Pending, FlowInv, LoopsOK, LoopOK
  <2> QED BY <1>2, <2>1 DEF ServeVerify
<1>3. ASSUME NEW l \in FlowLoop, ServePoll(l) \/ ServeOther(l) \/ ServeNothing(l)
      PROVE  svc' = svc \/ svc' = Settled(svc)
  BY <1>3 DEF ServePoll, ServeOther, ServeNothing
<1>4. ASSUME NEW l \in FlowLoop, ServeProvision(l)
      PROVE  \/ svc' = svc
             \/ svc.status = "ready" /\ svc' = [svc EXCEPT !.status = "rejected"]
  BY <1>4 DEF ServeProvision
<1>5. CASE ServiceMoves
  BY <1>5 DEF ServiceMoves, Link, Approval, Method
<1> QED BY <1>1, <1>2, <1>3, <1>4, <1>5 DEF ServiceGoes, Serves

\* The steps of SessionLife by what they make of the one session it is about.
LEMMA LifeSteps ==
    ASSUME NEW t, setup' = setup,
           NEW old, old = StatusSeen(t), NEW new, new = StatusSeen(t)',
           NEW p, p = PassedSeen(t), NEW q, q = PassedSeen(t)',
           \/ new = old /\ q = p
           \/ /\ old = "unborn" /\ new \in {"pending", "ready"} /\ q \subseteq Method
              /\ new = "ready" => Life(t)!Admitted(q)
           \/ old # "unborn" /\ new = old /\ \E m \in Method : q = p \cup {m}
           \/ /\ old \in {"pending", "ready", "rejected"} /\ new = "ready"
              /\ Life(t)!Admitted(q)
              /\ q = p \/ \E m \in Method : q = p \cup {m}
           \/ old \in {"pending", "ready", "rejected"} /\ new = "rejected" /\ q = p
           \/ old \in {"pending", "ready", "rejected"} /\ new = "gone" /\ q = {}
    PROVE  UNCHANGED Life(t)!lifeVars \/ Life(t)!Next
<1>1. CASE new = old /\ q = p
  BY <1>1 DEF Life!lifeVars
<1>2. CASE /\ old = "unborn" /\ new \in {"pending", "ready"} /\ q \subseteq Method
           /\ new = "ready" => Life(t)!Admitted(q)
  <2>1. Life(t)!Create(t)
    BY <1>2 DEF Life!Create
  <2> QED BY <2>1 DEF Life!Next
<1>3. ASSUME NEW m \in Method, old # "unborn", new = old, q = p \cup {m}
      PROVE  Life(t)!Next
  <2>1. Life(t)!Pass(t, m)
    BY <1>3 DEF Life!Pass
  <2> QED BY <2>1 DEF Life!Next
<1>4. CASE /\ old \in {"pending", "ready", "rejected"} /\ new = "ready"
           /\ Life(t)!Admitted(q) /\ q = p
  <2>1. Life(t)!Admit(t)
    BY <1>4 DEF Life!Admit, Life!Exists
  <2> QED BY <2>1 DEF Life!Next
<1>5. ASSUME NEW m \in Method, old \in {"pending", "ready", "rejected"}, new = "ready",
             Life(t)!Admitted(q), q = p \cup {m}
      PROVE  Life(t)!Next
  <2>1. Life(t)!PassAndAdmit(t, m)
    BY <1>5 DEF Life!PassAndAdmit, Life!Exists
  <2> QED BY <2>1 DEF Life!Next
<1>6. CASE old \in {"pending", "ready", "rejected"} /\ new = "rejected" /\ q = p
  <2>1. Life(t)!Reject(t)
    BY <1>6 DEF Life!Reject, Life!Exists
  <2> QED BY <2>1 DEF Life!Next
<1>7. CASE old \in {"pending", "ready", "rejected"} /\ new = "gone" /\ q = {}
  <2>1. Life(t)!Drop({t})
    BY <1>7 DEF Life!Drop, Life!Exists
  <2> QED BY <2>1 DEF Life!Next
<1> QED BY <1>1, <1>2, <1>3, <1>4, <1>5, <1>6, <1>7

\* The session of a join is taken up by SessionLife as a new one.
LEMMA NewSessionLives ==
    ASSUME FlowInv, setup' = setup, NEW t \in 1 .. MaxTokens, svc.token < MaxTokens,
           NEW ms \in SUBSET Method, Eligible(ms), svc' = NewSession(ms)
    PROVE  UNCHANGED Life(t)!lifeVars \/ Life(t)!Next
<1>1. svc \in Service /\ MaxTokens \in Nat /\ t \in Nat /\ setup \in Setups
  BY FlowAssumption DEF FlowInv, FlowTypeOK, Service
<1>a. svc.token \in Nat /\ svc.status \in {None, "pending", "ready", "rejected"}
  BY <1>1 DEF Service
<1>2. PICK s : s = [token |-> svc.token + 1, status |-> "pending", made |-> ms,
                    done |-> ms \cap {"invite_code"}]
  OBVIOUS
<1>3. s \in Service /\ s.token = svc.token + 1 /\ s.made = ms /\ s.status = "pending"
  BY <1>1, <1>2 DEF Service
<1>4. /\ svc' = Settled(s) /\ svc'.token = svc.token + 1 /\ svc'.made = s.made
      /\ svc'.done = s.done /\ svc'.status \in {"pending", "ready"}
      /\ svc'.status = "ready" => Satisfied(s)
  BY <1>2, <1>3 DEF NewSession, Settled, Service
<1>5. CASE t = svc.token + 1
  <2>1. StatusSeen(t) = "unborn" /\ StatusSeen(t)' = svc'.status
    BY <1>1, <1>4, <1>5 DEF StatusSeen, Service, None
  <2>2. PassedSeen(t)' = s.done \cup ({"open", Approval} \ s.made)
    BY <1>4, <1>5 DEF PassedSeen, None
  <2>3. s.done \subseteq Method /\ {"open", Approval} \subseteq Method
    BY <1>3 DEF Service, Method, Approval
  <2>4. svc'.status = "ready" => Life(t)!Admitted(PassedSeen(t)')
    BY <2>2, <1>1, <1>3, <1>4, SettledAdmits
  <2> QED BY <2>1, <2>2, <2>3, <2>4, <1>4, LifeSteps
<1>6. CASE t = svc.token
  <2>1. StatusSeen(t)' = "gone" /\ PassedSeen(t)' = {}
    BY <1>1, <1>4, <1>6 DEF StatusSeen, PassedSeen, Service
  <2>2. \/ StatusSeen(t) \in {"pending", "ready", "rejected"}
        \/ StatusSeen(t) = "gone" /\ PassedSeen(t) = {}
    <3>1. CASE svc.status = None
      BY <1>1, <1>6, <3>1 DEF StatusSeen, PassedSeen
    <3>2. CASE svc.status # None
      <4>1. StatusSeen(t) = svc.status
        BY <1>1, <1>6, <3>2, <1>a DEF StatusSeen
      <4> QED BY <4>1, <1>a, <3>2
    <3> QED BY <3>1, <3>2
  <2> QED BY <2>1, <2>2, LifeSteps
<1>7. CASE t # svc.token /\ t # svc.token + 1
  <2>1. StatusSeen(t)' = StatusSeen(t) /\ PassedSeen(t)' = PassedSeen(t)
    BY <1>1, <1>4, <1>7 DEF StatusSeen, PassedSeen, Service
  <2> QED BY <2>1, LifeSteps
<1> QED BY <1>5, <1>6, <1>7

\* Whatever the service does with the session it has is a step of SessionLife.
LEMMA ServiceLives ==
    ASSUME FlowInv, EligibleKept, setup' = setup, ServiceGoes, NEW t \in 1 .. MaxTokens
    PROVE  UNCHANGED Life(t)!lifeVars \/ Life(t)!Next
<1>1. svc \in Service /\ MaxTokens \in Nat /\ t \in Nat /\ setup \in Setups
  BY FlowAssumption DEF FlowInv, FlowTypeOK, Service
<1>a. svc.token \in Nat /\ svc.status \in {None, "pending", "ready", "rejected"}
  BY <1>1 DEF Service
<1>2. CASE svc.token < MaxTokens
           /\ \E ms \in SUBSET Method : Eligible(ms) /\ svc' = NewSession(ms)
  BY <1>2, NewSessionLives
<1>3. CASE t # svc.token /\ svc'.token = svc.token
  <2>1. StatusSeen(t)' = StatusSeen(t) /\ PassedSeen(t)' = PassedSeen(t)
    BY <1>1, <1>3 DEF StatusSeen, PassedSeen, Service
  <2> QED BY <2>1, LifeSteps
<1>4. CASE svc' = svc
  <2>1. StatusSeen(t)' = StatusSeen(t) /\ PassedSeen(t)' = PassedSeen(t)
    BY <1>4 DEF StatusSeen, PassedSeen
  <2> QED BY <2>1, LifeSteps
<1>5. CASE t = svc.token /\ svc' = Removed
  <2>1. StatusSeen(t)' = "gone" /\ PassedSeen(t)' = {}
    BY <1>1, <1>5 DEF StatusSeen, PassedSeen, Service, Removed
  <2>2. \/ StatusSeen(t) \in {"pending", "ready", "rejected"}
        \/ StatusSeen(t) = "gone" /\ PassedSeen(t) = {}
    <3>1. CASE svc.status = None
      BY <1>1, <1>5, <3>1 DEF StatusSeen, PassedSeen
    <3>2. CASE svc.status # None
      <4>1. StatusSeen(t) = svc.status
        BY <1>1, <1>5, <3>2, <1>a DEF StatusSeen
      <4> QED BY <4>1, <1>a, <3>2
    <3> QED BY <3>1, <3>2
  <2> QED BY <2>1, <2>2, LifeSteps
<1>6. ASSUME t = svc.token, svc.status \in {"pending", "ready"},
             svc' = [svc EXCEPT !.status = "rejected"]
      PROVE  UNCHANGED Life(t)!lifeVars \/ Life(t)!Next
  <2>1. StatusSeen(t)' = "rejected" /\ PassedSeen(t)' = PassedSeen(t)
        /\ StatusSeen(t) \in {"pending", "ready"}
    BY <1>1, <1>6 DEF StatusSeen, PassedSeen, Service, None
  <2> QED BY <2>1, LifeSteps
<1>7. ASSUME t = svc.token, svc.status = "pending", NEW ds \in SUBSET Method,
             NEW s, s = [svc EXCEPT !.done = @ \cup ds],
             ds = {} \/ \E m \in Method : ds = {m},
             svc' = s \/ svc' = Settled(s)
      PROVE  UNCHANGED Life(t)!lifeVars \/ Life(t)!Next
  <2>1. /\ s \in Service /\ s.token = svc.token /\ s.status = "pending"
        /\ s.made = svc.made /\ s.done = svc.done \cup ds
    BY <1>1, <1>7 DEF Service
  <2>2. /\ svc'.token = svc.token /\ svc'.made = svc.made /\ svc'.done = svc.done \cup ds
        /\ svc'.status \in {"pending", "ready"}
        /\ svc'.status = "ready" => Satisfied(s)
    BY <1>7, <2>1 DEF Settled, Service
  <2>3. StatusSeen(t) = "pending" /\ StatusSeen(t)' = svc'.status
    BY <1>a, <1>7, <2>2 DEF StatusSeen, None
  <2>4. /\ PassedSeen(t) = svc.done \cup ({"open", Approval} \ svc.made)
        /\ PassedSeen(t)' = svc'.done \cup ({"open", Approval} \ svc'.made)
    BY <1>7, <2>2 DEF PassedSeen, None
  <2>5. PassedSeen(t)' = PassedSeen(t) \cup ds
    BY <2>2, <2>4
  <2>6. PassedSeen(t)' = s.done \cup ({"open", Approval} \ s.made)
    BY <2>1, <2>2, <2>4
  <2>7. svc'.status = "ready" => Life(t)!Admitted(PassedSeen(t)')
    <3>1. Eligible(s.made)
      BY <2>1, <1>7 DEF EligibleKept
    <3> QED BY <3>1, <2>1, <2>2, <2>6, <1>1, SettledAdmits
  <2>8. PassedSeen(t)' = PassedSeen(t)
        \/ \E m \in Method : PassedSeen(t)' = PassedSeen(t) \cup {m}
    BY <2>5, <1>7
  <2>9. CASE svc'.status = "pending"
    BY <2>3, <2>8, <2>9, LifeSteps
  <2>10. CASE svc'.status = "ready"
    <3>1. StatusSeen(t) = "pending" /\ StatusSeen(t)' = "ready"
      BY <2>3, <2>10
    <3>2. Life(t)!Admitted(PassedSeen(t)')
      BY <2>7, <2>10
    <3> QED BY <3>1, <3>2, <2>8, LifeSteps
  <2> QED BY <2>2, <2>9, <2>10
<1>8. ASSUME t = svc.token, svc' = Settled(svc)
      PROVE  UNCHANGED Life(t)!lifeVars \/ Life(t)!Next
  <2>1. CASE svc.status = "pending"
    <3>1. svc = [svc EXCEPT !.done = @ \cup {}]
      BY <1>1 DEF Service
    <3> QED BY <3>1, <2>1, <1>7, <1>8
  <2>2. CASE svc.status # "pending"
    BY <2>2, <1>4, <1>8 DEF Settled
  <2> QED BY <2>1, <2>2
<1>9. ASSUME t = svc.token, NEW m \in Method, svc.status = "pending",
             NEW s, s = [svc EXCEPT !.done = @ \cup {m}], svc' = s \/ svc' = Settled(s)
      PROVE  UNCHANGED Life(t)!lifeVars \/ Life(t)!Next
  BY <1>9, <1>7
<1>10. CASE \/ svc' = Removed \/ svc' = Settled(svc)
            \/ svc.status \in {"pending", "ready"} /\ svc' = [svc EXCEPT !.status = "rejected"]
  <2>1. svc'.token = svc.token
    <3>1. Removed.token = svc.token /\ [svc EXCEPT !.status = "rejected"].token = svc.token
      BY <1>1 DEF Removed, Service
    <3> QED BY <3>1, <1>1, <1>10, SettledShape
  <2> QED BY <2>1, <1>3, <1>5, <1>6, <1>8, <1>10
<1>11. ASSUME NEW m \in Method, svc.status = "pending",
              NEW s, s = [svc EXCEPT !.done = @ \cup {m}], svc' = s \/ svc' = Settled(s)
       PROVE  UNCHANGED Life(t)!lifeVars \/ Life(t)!Next
  <2>1. s \in Service /\ s.token = svc.token
    BY <1>1, <1>11 DEF Service
  <2>2. svc'.token = svc.token
    BY <2>1, <1>11, SettledShape
  <2> QED BY <2>2, <1>3, <1>9, <1>11
<1> QED BY <1>2, <1>4, <1>10, <1>11, ServiceSteps

\* A session made by a join is eligible, and stays so.
LEMMA EligibleStays ==
    ASSUME FlowInv, EligibleKept, [FlowNext]_flowVars
    PROVE  EligibleKept'
<1>1. setup' = setup /\ (ServiceGoes \/ svc' = svc) /\ svc \in Service
  BY OthersLeaveService DEF FlowInv, FlowTypeOK, Service
<1>2. \A ms : Eligible(ms) => Eligible(ms)'
  BY <1>1 DEF Eligible
<1>3. ASSUME svc'.made = svc.made,
             svc'.status \in {"pending", "ready"} => svc.status \in {"pending", "ready"}
      PROVE  EligibleKept'
  BY <1>2, <1>3, <1>1 DEF EligibleKept, Eligible
<1>4. CASE svc' = svc \/ svc' = Settled(svc)
  <2>1. svc'.made = svc.made
    BY <1>1, <1>4, SettledShape
  <2>2. svc'.status \in {"pending", "ready"} => svc.status \in {"pending", "ready"}
    BY <1>1, <1>4 DEF Settled
  <2> QED BY <2>1, <2>2, <1>3
<1>5. CASE svc' = Removed
  BY <1>5, <1>1 DEF Removed, EligibleKept, Service, None
<1>6. ASSUME svc.status \in {"pending", "ready"}, svc' = [svc EXCEPT !.status = "rejected"]
      PROVE  EligibleKept'
  BY <1>6, <1>1, <1>3 DEF Service
<1>7. ASSUME NEW m \in Method, svc.status = "pending",
             NEW s, s = [svc EXCEPT !.done = @ \cup {m}], svc' = s \/ svc' = Settled(s)
      PROVE  EligibleKept'
  <2>1. s \in Service /\ s.made = svc.made
    BY <1>1, <1>7 DEF Service
  <2>2. svc'.made = svc.made
    BY <2>1, <1>7, SettledShape
  <2> QED BY <2>2, <1>7, <1>3
<1>8. ASSUME NEW ms \in SUBSET Method, Eligible(ms), svc' = NewSession(ms), svc.token < MaxTokens
      PROVE  EligibleKept'
  <2>1. svc'.made = ms
    BY <1>8 DEF NewSession, Settled
  <2> QED BY <2>1, <1>1, <1>8 DEF EligibleKept, Eligible
<1> QED BY <1>1, <1>4, <1>5, <1>6, <1>7, <1>8, ServiceSteps

\* Each session of the service begins as SessionLife has it.
LEMMA LifeBegins ==
    ASSUME FlowInit, NEW t \in 1 .. MaxTokens
    PROVE  Life(t)!Init
<1>1. t > 0 /\ svc.token = 0 /\ setup.entries \subseteq SUBSET Method
  BY FlowAssumption DEF FlowInit
<1>2. StatusSeen(t) = "unborn" /\ PassedSeen(t) = {}
  BY <1>1 DEF StatusSeen, PassedSeen
<1> QED BY <1>1, <1>2 DEF Life!Init

\* A session is eligible from the join on, in every behaviour.
THEOREM EligibleAlways == FlowSpec => []EligibleKept
<1>1. FlowInit => EligibleKept
  BY DEF FlowInit, EligibleKept, None
<1>2. FlowInv /\ EligibleKept /\ [FlowNext]_flowVars => EligibleKept'
  BY EligibleStays
<1> QED BY <1>1, <1>2, FlowInvariance, PTL DEF FlowSpec

\* Every step of the flow, or of what it takes the service for, is one of SessionLife or
\* leaves the sessions alone.
LEMMA StepLives ==
    ASSUME FlowInv, EligibleKept, [FlowNext]_flowVars, NEW t \in 1 .. MaxTokens
    PROVE  UNCHANGED Life(t)!lifeVars \/ Life(t)!Next
<1>1. setup' = setup /\ (ServiceGoes \/ svc' = svc)
  BY OthersLeaveService
<1>2. CASE svc' = svc
  <2>1. StatusSeen(t)' = StatusSeen(t) /\ PassedSeen(t)' = PassedSeen(t)
    BY <1>2 DEF StatusSeen, PassedSeen
  <2> QED BY <1>1, <2>1, LifeSteps
<1> QED BY <1>1, <1>2, ServiceLives

\* What the flow takes the service for keeps the promises of SessionLife: a session is
\* ready only by checks its agent has passed, and stays decided or gone.
THEOREM ServicePromises == FlowSpec => ServiceLife
<1>1. FlowInit => \A t \in 1 .. MaxTokens : Life(t)!Init
  BY LifeBegins
<1>2. FlowInv /\ EligibleKept /\ [FlowNext]_flowVars =>
          [UNCHANGED <<setup, svc>>
           \/ \A t \in 1 .. MaxTokens : UNCHANGED Life(t)!lifeVars \/ Life(t)!Next]_flowVars
  BY StepLives
<1> QED BY <1>1, <1>2, FlowInvariance, EligibleAlways, PTL DEF FlowSpec, ServiceLife

\* Each session of the flow's service, by itself, implements SessionLife.
THEOREM SessionOfFlow == FlowSpec => \A t \in 1 .. MaxTokens : Life(t)!Spec
<1> SUFFICES ASSUME NEW t \in 1 .. MaxTokens
             PROVE  FlowSpec => Life(t)!Spec
  OBVIOUS
<1>1. FlowInit => Life(t)!Init
  BY LifeBegins
<1>2. FlowInv /\ EligibleKept /\ [FlowNext]_flowVars => [Life(t)!Next]_(Life(t)!lifeVars)
  BY StepLives
<1> QED BY <1>1, <1>2, FlowInvariance, EligibleAlways, PTL DEF FlowSpec, Life!Spec

=============================================================================
