------------------------- MODULE JoinServiceProofs -------------------------
(***************************************************************************)
(* Every variable of JoinService keeps its type, for every value of the    *)
(* constants.  A handler uses what earlier points of it have put into its  *)
(* request record, so the types need to know how far each request is.      *)
(*                                                                         *)
(* Then what the requests in flight owe each other: the ready steps a      *)
(* session is made ready on, the invite code a join has spent, the         *)
(* revocation a provision or a reconnect has looked for, the attempts of a *)
(* challenge whose objects all handlers share, and the sessions that       *)
(* requests leave behind when they come one after another.  Each invariant *)
(* says what a request record is good for at each point of its handler.    *)
(*                                                                         *)
(* Last, a session may be ready only on what was really passed for it,     *)
(* while any number of handlers hold copies of its challenges, some of     *)
(* them stale, and JoinService implements the life cycle of SessionLife.   *)
(***************************************************************************)
EXTENDS JoinService, FiniteSetTheorems, WellFoundedInduction, TLAPS

JoinOp == {"join", "delegated"}
JoinPC == {"j_delete", "j_record", "j_request", "j_assemble", "j_create"}
NotifyPC == {"n_get", "n_request", "n_transition", "n_verified", "n_link"}
VerifyPC == {"v_check", "v_plugin", "v_answer"}
SessionPC == VerifyPC \cup {"s_poll", "s_pass", "s_reject", "c_check", "c_ready"}

\* The request works on a stored session it has read.
OnSession(q) ==
    q.pc \in SessionPC \/ (q.pc \in NotifyPC /\ q.op \notin JoinOp)

\* Which part of its record a request may use at each point.
Control(q) ==
    /\ q.pc \in JoinPC => q.op \in JoinOp
    /\ q.pc \in SessionPC => q.op \notin JoinOp
    /\ OnSession(q) => q.sid \in Sid
    /\ q.pc \in VerifyPC => q.method \in Method
    /\ q.pc \in {"j_record", "j_request", "s_poll", "s_pass"} => Approval \in Method
    /\ q.op \in JoinOp => q.net \in Network
    /\ q.op = "delegated" => Delegated \in Method

ControlOK == \A r \in Request : Control(req[r])

-----------------------------------------------------------------------------
(* Types.                                                                  *)

\* The free request slot is well formed.
LEMMA IdleOK == Idle \in RequestRecord /\ Control(Idle)
BY ConfigAssumption
   DEF Idle, RequestRecord, Control, OnSession, NoTries, PC, NoSid, RecordState,
       JoinPC, NotifyPC, VerifyPC, SessionPC, JoinOp

\* Replacing one request record by one that is fit for its point.
LEMMA ReplaceOK ==
  ASSUME TypeOK, ControlOK, NEW r \in Request, NEW q \in RequestRecord, Control(q),
         req' = [req EXCEPT ![r] = q]
  PROVE  req' \in [Request -> RequestRecord] /\ ControlOK'
<1>1. req' \in [Request -> RequestRecord]
  BY DEF TypeOK
<1>2. \A t \in Request : req'[t] = IF t = r THEN q ELSE req[t]
  BY DEF TypeOK
<1>3. ControlOK'
  BY <1>2 DEF ControlOK
<1> QED BY <1>1, <1>3

\* A request that ends keeps the others as they are.
LEMMA FinishOK ==
  ASSUME TypeOK, ControlOK, NEW r \in Request, Finish(r)
  PROVE  req' \in [Request -> RequestRecord] /\ ControlOK'
BY IdleOK, ReplaceOK DEF Finish

\* A request that only moves on to another point.
LEMMA GotoOK ==
  ASSUME TypeOK, ControlOK, NEW r \in Request, NEW pc \in PC,
         Control([req[r] EXCEPT !.pc = pc]), Goto(r, pc)
  PROVE  req' \in [Request -> RequestRecord] /\ ControlOK'
<1>1. [req[r] EXCEPT !.pc = pc] \in RequestRecord
  <2>1. req[r] \in RequestRecord
    BY DEF TypeOK
  <2> QED BY <2>1 DEF RequestRecord
<1>2. req' = [req EXCEPT ![r] = [req[r] EXCEPT !.pc = pc]]
  BY DEF Goto
<1> QED BY <1>1, <1>2, ReplaceOK

\* Removing a session, or writing a status, keeps the types of the store.
LEMMA RemoveType ==
  ASSUME TypeOK, NEW s, Remove(s)
  PROVE  /\ status' \in [Sid -> Status \cup {"unborn", "gone"}]
         /\ index' \in [Network -> Sid \cup {NoSid}]
BY DEF TypeOK, Remove, NoSid

\* update() of a status keeps the types.
LEMMA SetStatusType ==
  ASSUME TypeOK, NEW s, NEW new \in Status, SetStatus(s, new)
  PROVE  /\ status' \in [Sid -> Status \cup {"unborn", "gone"}]
         /\ index' \in [Network -> Sid \cup {NoSid}]
BY RemoveType DEF TypeOK, SetStatus

\* An update that leaves the status alone keeps the types.
LEMMA KeepStatusType ==
  ASSUME TypeOK, NEW s, KeepStatus(s)
  PROVE  /\ status' \in [Sid -> Status \cup {"unborn", "gone"}]
         /\ index' \in [Network -> Sid \cup {NoSid}]
BY RemoveType DEF TypeOK, KeepStatus

\* Writing a challenge list back keeps the types.
LEMMA WriteChallengesType ==
  ASSUME TypeOK, NEW s, NEW d \in SUBSET Method, NEW t \in [Method -> Nat],
         WriteChallenges(s, d, t)
  PROVE  done' \in [Sid -> SUBSET Method] /\ tries' \in [Sid -> [Method -> Nat]]
BY DEF TypeOK, WriteChallenges

\* What a handler sees of a session's challenges is well typed.
LEMMA ViewType ==
  ASSUME TypeOK, NEW r \in Request, req[r].sid \in Sid
  PROVE  ViewDone(r) \in SUBSET Method /\ ViewTries(r) \in [Method -> Nat]
BY DEF TypeOK, ViewDone, ViewTries, RequestRecord

\* Where a join goes after its lookup.
LEMMA JoinStartOK ==
  ASSUME NEW op \in JoinOp
  PROVE  /\ JoinStart(op) \in {"j_record", "j_assemble", "n_get", "n_link", "n_verified"}
         /\ JoinStart(op) = "j_record" => Approval \in Method
BY DEF JoinStart, NotifyStart, JoinOp

\* Where the ready path begins.
LEMMA NotifyStartOK ==
  ASSUME NEW h
  PROVE  NotifyStart(h) \in {"n_get", "n_link", "n_verified"}
BY DEF NotifyStart

\* A join whose challenges are assembled is still a request.
LEMMA AssembledType ==
  ASSUME NEW q \in RequestRecord, NEW x \in SUBSET Method, NEW y \in SUBSET Method,
         NEW z \in SUBSET Method, NEW code \in Code \cup {NoCode}, NEW pc \in PC
  PROVE  [q EXCEPT !.held = x, !.done = y, !.auto = z, !.code = code, !.pc = pc]
           \in RequestRecord
BY DEF RequestRecord

\* The steps of POST /v1/join.
LEMMA JoinStepOK ==
  ASSUME TypeOK, ControlOK, NEW r \in Request, JoinStep(r)
  PROVE  TypeOK' /\ ControlOK'
<1> USE DEF PC, JoinPC, NotifyPC, VerifyPC, SessionPC, OnSession, Control
<1>0. req[r] \in RequestRecord /\ Control(req[r])
  BY DEF TypeOK, ControlOK
<1>1. CASE JoinDelete(r)
  <2> DEFINE q == [req[r] EXCEPT !.pc = JoinStart(req[r].op), !.sid = NoSid]
  <2>1. req[r].op \in JoinOp
    BY <1>0, <1>1 DEF JoinDelete
  <2>2. q \in RequestRecord /\ Control(q)
    <3>1. q \in RequestRecord
      BY <1>0, <2>1, JoinStartOK DEF RequestRecord
    <3>2. /\ q.pc = JoinStart(req[r].op) /\ q.op = req[r].op
          /\ q.net = req[r].net /\ q.method = req[r].method
      BY <1>0 DEF RequestRecord
    <3>3. Control(q)
      BY <1>0, <2>1, <3>2, JoinStartOK
    <3> QED BY <3>1, <3>3
  <2>3. req' \in [Request -> RequestRecord] /\ ControlOK'
    <3>1. req' = [req EXCEPT ![r] = q]
      BY <1>1 DEF JoinDelete
    <3> QED BY <2>2, <3>1, ReplaceOK
  <2>4. /\ status' \in [Sid -> Status \cup {"unborn", "gone"}]
        /\ index' \in [Network -> Sid \cup {NoSid}]
    BY <1>1, RemoveType DEF JoinDelete
  <2> QED BY <1>1, <2>3, <2>4 DEF JoinDelete, TypeOK, history
<1>2. CASE JoinRecord(r)
  <2>1. req' \in [Request -> RequestRecord] /\ ControlOK'
    <3>1. CASE Goto(r, "j_request")
      BY <1>0, <1>2, <3>1, GotoOK DEF JoinRecord, RequestRecord
    <3>2. CASE Goto(r, "j_assemble")
      BY <1>0, <1>2, <3>2, GotoOK DEF JoinRecord, RequestRecord
    <3>3. ASSUME NEW q, q = [req[r] EXCEPT !.pc = "j_assemble", !.auto = {Approval}],
                 req' = [req EXCEPT ![r] = q]
          PROVE  req' \in [Request -> RequestRecord] /\ ControlOK'
      <4>1. q \in RequestRecord /\ Control(q)
        BY <1>0, <1>2, <3>3 DEF JoinRecord, RequestRecord
      <4> QED BY <3>3, <4>1, ReplaceOK
    <3>4. ASSUME NEW q, q = [req[r] EXCEPT !.pc = "j_assemble", !.held = {Approval}],
                 req' = [req EXCEPT ![r] = q]
          PROVE  req' \in [Request -> RequestRecord] /\ ControlOK'
      <4>1. q \in RequestRecord /\ Control(q)
        BY <1>0, <1>2, <3>4 DEF JoinRecord, RequestRecord
      <4> QED BY <3>4, <4>1, ReplaceOK
    <3> QED BY <1>2, <3>1, <3>2, <3>3, <3>4 DEF JoinRecord
  <2> QED BY <1>2, <2>1 DEF JoinRecord, TypeOK, store, history
<1>3. CASE JoinRequestAuth(r)
  <2>1. req' \in [Request -> RequestRecord] /\ ControlOK'
    <3>1. CASE Goto(r, "j_assemble")
      BY <1>0, <1>3, <3>1, GotoOK DEF JoinRequestAuth, RequestRecord
    <3>2. ASSUME NEW q, q = [req[r] EXCEPT !.pc = "j_assemble", !.held = {Approval}],
                 req' = [req EXCEPT ![r] = q]
          PROVE  req' \in [Request -> RequestRecord] /\ ControlOK'
      <4>1. q \in RequestRecord /\ Control(q)
        BY <1>0, <1>3, <3>2 DEF JoinRequestAuth, RequestRecord
      <4> QED BY <3>2, <4>1, ReplaceOK
    <3> QED BY <1>3, <3>1, <3>2 DEF JoinRequestAuth
  <2>2. record' \in RecordState
    BY <1>3 DEF JoinRequestAuth, RequestAuth, TypeOK, RecordState
  <2> QED BY <1>3, <2>1, <2>2 DEF JoinRequestAuth, TypeOK, store, history
<1>4. CASE JoinRefused(r)
  BY <1>4, FinishOK DEF JoinRefused, TypeOK, store, history
<1>5. CASE JoinAssemble(r)
  <2> PICK offered \in SUBSET (Method \cap (Answered \cup {Invite})),
           code \in Code \cup {NoCode} : JoinAssemble(r)!2!(offered, code)
    BY <1>5 DEF JoinAssemble
  <2> DEFINE h == req[r].held \cup offered
             a == req[r].auto \cup (Method \cap {"open"})
             d == h \cap {Invite}
             p == IF Satisfied(h, d) THEN NotifyStart(h) ELSE "j_create"
             q == [req[r] EXCEPT !.held = h, !.done = d, !.auto = a,
                                 !.code = code, !.pc = p]
  <2>1. CASE Finish(r) /\ UNCHANGED codes
    BY <1>5, <2>1, FinishOK DEF JoinAssemble, TypeOK, store, history
  <2>2. CASE Spend(code) /\ req' = [req EXCEPT ![r] = q]
    <3>1. req[r].op \in JoinOp /\ req[r].pc = "j_assemble"
      BY <1>0, <1>5 DEF JoinAssemble
    <3>2. q \in RequestRecord
      <4>1. /\ h \in SUBSET Method /\ a \in SUBSET Method
            /\ d \in SUBSET Method
        BY <1>0 DEF RequestRecord
      <4>2. p \in PC
        BY NotifyStartOK
      <4>3. req[r] \in RequestRecord /\ code \in Code \cup {NoCode}
        BY <1>0
      <4> HIDE DEF h, d, a, p, Control, OnSession, PC, JoinPC, NotifyPC, VerifyPC, SessionPC
      <4> QED BY ONLY <4>1, <4>2, <4>3, AssembledType
    <3>3. Control(q)
      BY <1>0, <3>1, NotifyStartOK DEF RequestRecord
    <3>4. req' \in [Request -> RequestRecord] /\ ControlOK'
      BY <2>2, <3>2, <3>3, ReplaceOK
    <3>5. codes' \subseteq Code
      BY <2>2 DEF Spend, TypeOK
    <3> QED BY <1>5, <3>4, <3>5 DEF JoinAssemble, TypeOK, store, history
  <2> QED BY <2>1, <2>2
<1>6. CASE JoinCreate(r)
  <2> PICK s \in Sid : Create(s, req[r])
    BY <1>6 DEF JoinCreate
  <2>1. req' \in [Request -> RequestRecord] /\ ControlOK'
    BY <1>6, FinishOK DEF JoinCreate
  <2>2. /\ status' \in [Sid -> Status \cup {"unborn", "gone"}]
        /\ net' \in [Sid -> Network]
        /\ held' \in [Sid -> SUBSET Method]
        /\ done' \in [Sid -> SUBSET Method]
        /\ index' \in [Network -> Sid \cup {NoSid}]
        /\ passed' \in [Sid -> SUBSET Method]
        /\ steps' \in [Sid -> SUBSET ReadySteps]
        /\ codeOf' \in [Sid -> Code \cup {NoCode}]
    <3>1. req[r].op \in JoinOp /\ req[r].net \in Network
      BY <1>0, <1>6 DEF JoinCreate
    <3>2. /\ req[r].held \in SUBSET Method /\ req[r].done \in SUBSET Method
          /\ req[r].auto \in SUBSET Method /\ req[r].steps \in SUBSET ReadySteps
          /\ req[r].code \in Code \cup {NoCode}
      BY <1>0 DEF RequestRecord
    <3> QED BY <3>1, <3>2 DEF Create, TypeOK, Status
  <2> QED BY <1>6, <2>1, <2>2 DEF JoinCreate, TypeOK
<1>7. CASE JoinCreateFails(r)
  BY <1>7, FinishOK DEF JoinCreateFails, Throw, TypeOK, store, history
<1> QED BY <1>1, <1>2, <1>3, <1>4, <1>5, <1>6, <1>7 DEF JoinStep

\* A request in the middle of notifyReady that moves on along it.
LEMMA NotifyOK ==
  ASSUME TypeOK, ControlOK, NEW r \in Request, req[r].pc \in NotifyPC,
         NEW q \in RequestRecord, q.pc \in NotifyPC \cup {NotifyDone(r)},
         q.op = req[r].op, q.net = req[r].net, q.sid = req[r].sid,
         q.method = req[r].method, req' = [req EXCEPT ![r] = q]
  PROVE  req' \in [Request -> RequestRecord] /\ ControlOK'
<1>1. Control(req[r])
  BY DEF TypeOK, ControlOK
<1>2. Control(q)
  BY <1>1 DEF Control, OnSession, NotifyDone, JoinPC, NotifyPC, VerifyPC,
              SessionPC, JoinOp
<1> QED BY <1>2, ReplaceOK

\* The ready path moves on to its next step.
LEMMA NotifyGotoOK ==
  ASSUME TypeOK, ControlOK, NEW r \in Request, req[r].pc \in NotifyPC,
         NEW pc \in NotifyPC \cup {NotifyDone(r)}, Goto(r, pc)
  PROVE  req' \in [Request -> RequestRecord] /\ ControlOK'
<1> DEFINE q == [req[r] EXCEPT !.pc = pc]
<1>1. req[r] \in RequestRecord
  BY DEF TypeOK
<1>2. pc \in PC
  BY DEF NotifyPC, NotifyDone, PC
<1>3. /\ q \in RequestRecord /\ q.pc = pc /\ q.op = req[r].op /\ q.net = req[r].net
      /\ q.sid = req[r].sid /\ q.method = req[r].method
  BY <1>1, <1>2 DEF RequestRecord
<1>4. req' = [req EXCEPT ![r] = q]
  BY DEF Goto
<1> QED BY <1>3, <1>4, NotifyOK

\* A failing hc-auth ends the request or, when best-effort, is passed over.
LEMMA HcAuthFailsOK ==
  ASSUME TypeOK, ControlOK, NEW r \in Request, req[r].pc \in NotifyPC, HcAuthFails(r)
  PROVE  /\ req' \in [Request -> RequestRecord] /\ ControlOK'
         /\ codes' \subseteq Code
<1>1. CASE HcAuth = "required"
  BY <1>1, FinishOK DEF HcAuthFails, Throw, TypeOK
<1>2. CASE HcAuth # "required"
  <2>1. "n_link" \in NotifyPC \cup {NotifyDone(r)}
    BY DEF NotifyPC
  <2> QED BY <1>2, <2>1, NotifyGotoOK DEF HcAuthFails, TypeOK
<1> QED BY <1>1, <1>2

\* The steps of notifyReady and completeIfSatisfied.
LEMMA ReadyPathStepOK ==
  ASSUME TypeOK, ControlOK, NEW r \in Request, ReadyPathStep(r)
  PROVE  TypeOK' /\ ControlOK'
<1>0. req[r] \in RequestRecord /\ Control(req[r])
  BY DEF TypeOK, ControlOK
<1>1. CASE Complete(r)
  <2>1. CASE Finish(r)
    BY <1>1, <2>1, FinishOK DEF Complete, TypeOK, store, history
  <2>2. CASE Goto(r, NotifyStart(held[req[r].sid]))
    <3> DEFINE pc == NotifyStart(held[req[r].sid])
    <3>1. pc \in PC /\ pc \in {"n_get", "n_link", "n_verified"}
      BY NotifyStartOK DEF PC
    <3>2. Control([req[r] EXCEPT !.pc = pc])
      <4>1. req[r].pc = "c_check"
        BY <1>1 DEF Complete
      <4> HIDE DEF pc
      <4> QED BY <1>0, <3>1, <4>1
              DEF RequestRecord, Control, OnSession, JoinPC, NotifyPC, VerifyPC, SessionPC
    <3> HIDE DEF pc
    <3>3. req' \in [Request -> RequestRecord] /\ ControlOK'
      BY <2>2, <3>1, <3>2, GotoOK DEF pc
    <3> QED BY <1>1, <3>3 DEF Complete, TypeOK, store, history
  <2> QED BY <1>1, <2>1, <2>2 DEF Complete
<1>2. CASE NotifyGet(r)
  <2>1. req[r].pc \in NotifyPC /\ {"n_verified", "n_request", "n_transition"} \subseteq NotifyPC
    BY <1>2 DEF NotifyGet, NotifyPC
  <2>2. req' \in [Request -> RequestRecord] /\ ControlOK' /\ codes' \subseteq Code
    <3>1. CASE (Goto(r, "n_verified") \/ Goto(r, "n_request")) /\ UNCHANGED codes
      BY <2>1, <3>1, NotifyGotoOK DEF TypeOK
    <3>2. ASSUME NEW q, q = [req[r] EXCEPT !.pc = "n_transition", !.from = record],
                 req' = [req EXCEPT ![r] = q], UNCHANGED codes
          PROVE  req' \in [Request -> RequestRecord] /\ ControlOK' /\ codes' \subseteq Code
      <4>1. /\ q \in RequestRecord /\ q.pc = "n_transition" /\ q.op = req[r].op
            /\ q.net = req[r].net /\ q.sid = req[r].sid /\ q.method = req[r].method
        BY <1>0, <3>2 DEF RequestRecord, TypeOK, PC
      <4> QED BY <2>1, <3>2, <4>1, NotifyOK DEF TypeOK
    <3>3. CASE HcAuthFails(r)
      BY <2>1, <3>3, HcAuthFailsOK
    <3> QED BY <1>2, <3>1, <3>2, <3>3 DEF NotifyGet
  <2> QED BY <1>2, <2>2 DEF NotifyGet, TypeOK, store, history
<1>3. CASE NotifyRequest(r)
  <2>1. req[r].pc \in NotifyPC /\ "n_transition" \in NotifyPC
    BY <1>3 DEF NotifyRequest, NotifyPC
  <2>2. req' \in [Request -> RequestRecord] /\ ControlOK' /\ codes' \subseteq Code
    <3>1. ASSUME NEW q, q = [req[r] EXCEPT !.pc = "n_transition", !.from = "pending"],
                 req' = [req EXCEPT ![r] = q], UNCHANGED codes
          PROVE  req' \in [Request -> RequestRecord] /\ ControlOK' /\ codes' \subseteq Code
      <4>1. /\ q \in RequestRecord /\ q.pc = "n_transition" /\ q.op = req[r].op
            /\ q.net = req[r].net /\ q.sid = req[r].sid /\ q.method = req[r].method
        BY <1>0, <3>1 DEF RequestRecord, RecordState, PC
      <4> QED BY <2>1, <3>1, <4>1, NotifyOK DEF TypeOK
    <3>2. CASE HcAuthFails(r)
      BY <2>1, <3>2, HcAuthFailsOK
    <3> QED BY <1>3, <3>1, <3>2 DEF NotifyRequest
  <2>3. record' \in RecordState
    BY <1>3 DEF NotifyRequest, RequestAuth, TypeOK, RecordState
  <2> QED BY <1>3, <2>2, <2>3 DEF NotifyRequest, TypeOK, store, history
<1>4. CASE NotifyTransition(r)
  <2>1. req[r].pc \in NotifyPC /\ "n_verified" \in NotifyPC
    BY <1>4 DEF NotifyTransition, NotifyPC
  <2>2. req' \in [Request -> RequestRecord] /\ ControlOK' /\ codes' \subseteq Code
    <3>1. CASE Goto(r, "n_verified") /\ UNCHANGED codes
      BY <2>1, <3>1, NotifyGotoOK DEF TypeOK
    <3>2. CASE HcAuthFails(r)
      BY <2>1, <3>2, HcAuthFailsOK
    <3> QED BY <1>4, <3>1, <3>2 DEF NotifyTransition
  <2>3. record' \in RecordState /\ barred' \subseteq Request
    BY <1>4 DEF NotifyTransition, TypeOK, RecordState
  <2> QED BY <1>4, <2>2, <2>3 DEF NotifyTransition, TypeOK, store
<1>5. CASE NotifyVerified(r)
  <2>1. req[r].pc \in NotifyPC /\ "n_link" \in NotifyPC
    BY <1>5 DEF NotifyVerified, NotifyPC
  <2>2. req' \in [Request -> RequestRecord] /\ ControlOK' /\ codes' \subseteq Code
    <3>1. ASSUME NEW q, q = [req[r] EXCEPT !.pc = "n_link", !.steps = @ \cup {"hc-auth"}],
                 req' = [req EXCEPT ![r] = q], UNCHANGED codes
          PROVE  req' \in [Request -> RequestRecord] /\ ControlOK' /\ codes' \subseteq Code
      <4>1. /\ q \in RequestRecord /\ q.pc = "n_link" /\ q.op = req[r].op
            /\ q.net = req[r].net /\ q.sid = req[r].sid /\ q.method = req[r].method
        BY <1>0, <3>1 DEF RequestRecord, ReadySteps, PC
      <4> QED BY <2>1, <3>1, <4>1, NotifyOK DEF TypeOK
    <3>2. CASE HcAuthFails(r)
      BY <2>1, <3>2, HcAuthFailsOK
    <3> QED BY <1>5, <3>1, <3>2 DEF NotifyVerified
  <2> QED BY <1>5, <2>2 DEF NotifyVerified, TypeOK, store, history
<1>6. CASE NotifyLinkers(r)
  <2>1. req[r].pc \in NotifyPC
    BY <1>6 DEF NotifyLinkers, NotifyPC
  <2>2. req' \in [Request -> RequestRecord] /\ ControlOK' /\ codes' \subseteq Code
    <3>1. ASSUME NEW q, q = [req[r] EXCEPT !.pc = NotifyDone(r), !.steps = @ \cup {"linkers"}],
                 req' = [req EXCEPT ![r] = q], UNCHANGED codes
          PROVE  req' \in [Request -> RequestRecord] /\ ControlOK' /\ codes' \subseteq Code
      <4>1. NotifyDone(r) \in PC
        BY DEF NotifyDone, PC
      <4>2. /\ q \in RequestRecord /\ q.pc = NotifyDone(r) /\ q.op = req[r].op
            /\ q.net = req[r].net /\ q.sid = req[r].sid /\ q.method = req[r].method
        BY <1>0, <3>1, <4>1 DEF RequestRecord, ReadySteps
      <4> QED BY <2>1, <3>1, <4>2, NotifyOK DEF TypeOK
    <3>2. CASE Goto(r, NotifyDone(r)) /\ UNCHANGED codes
      BY <2>1, <3>2, NotifyGotoOK DEF TypeOK
    <3>3. CASE Throw(r)
      BY <3>3, FinishOK DEF Throw, TypeOK
    <3> QED BY <1>6, <3>1, <3>2, <3>3 DEF NotifyLinkers
  <2> QED BY <1>6, <2>2 DEF NotifyLinkers, TypeOK, store, history
<1>7. CASE MakeReady(r)
  <2> DEFINE s == req[r].sid
  <2>1. s \in Sid
    BY <1>0, <1>7 DEF MakeReady, Control, OnSession, SessionPC
  <2>2. ViewDone(r) \in SUBSET Method /\ ViewTries(r) \in [Method -> Nat]
    BY <2>1, ViewType
  <2>3. /\ status' \in [Sid -> Status \cup {"unborn", "gone"}]
        /\ index' \in [Network -> Sid \cup {NoSid}]
    BY <1>7, SetStatusType DEF MakeReady, Status
  <2>4. done' \in [Sid -> SUBSET Method] /\ tries' \in [Sid -> [Method -> Nat]]
    BY <1>7, <2>2, WriteChallengesType DEF MakeReady
  <2>5. steps' \in [Sid -> SUBSET ReadySteps]
    BY <1>0, <1>7 DEF MakeReady, TypeOK, RequestRecord
  <2> QED BY <1>7, <2>3, <2>4, <2>5, FinishOK DEF MakeReady, TypeOK
<1> QED BY <1>1, <1>2, <1>3, <1>4, <1>5, <1>6, <1>7 DEF ReadyPathStep

\* A request on a session that moves on along its handler.
LEMMA OnSessionMoveOK ==
  ASSUME TypeOK, ControlOK, NEW r \in Request, req[r].pc \in SessionPC,
         NEW q \in RequestRecord, q.pc \in {"c_check", "v_plugin", "v_answer", "s_reject"},
         q.pc \in VerifyPC => req[r].pc \in VerifyPC,
         q.op = req[r].op, q.net = req[r].net, q.sid = req[r].sid,
         q.method = req[r].method, req' = [req EXCEPT ![r] = q]
  PROVE  req' \in [Request -> RequestRecord] /\ ControlOK'
<1>1. Control(req[r])
  BY DEF TypeOK, ControlOK
<1>2. Control(q)
  BY <1>1 DEF Control, OnSession, JoinPC, NotifyPC, VerifyPC, SessionPC, JoinOp
<1> QED BY <1>2, ReplaceOK

\* A request that goes on with its session.
LEMMA OnSessionGotoOK ==
  ASSUME TypeOK, ControlOK, NEW r \in Request, req[r].pc \in SessionPC,
         NEW pc \in {"c_check", "v_plugin", "v_answer", "s_reject"},
         pc \in VerifyPC => req[r].pc \in VerifyPC, Goto(r, pc)
  PROVE  req' \in [Request -> RequestRecord] /\ ControlOK'
<1> DEFINE q == [req[r] EXCEPT !.pc = pc]
<1>1. req[r] \in RequestRecord
  BY DEF TypeOK
<1>2. pc \in PC
  BY DEF PC
<1>3. /\ q \in RequestRecord /\ q.pc = pc /\ q.op = req[r].op /\ q.net = req[r].net
      /\ q.sid = req[r].sid /\ q.method = req[r].method
  BY <1>1, <1>2 DEF RequestRecord
<1>4. req' = [req EXCEPT ![r] = q]
  BY DEF Goto
<1> HIDE DEF q
<1> QED BY <1>3, <1>4, OnSessionMoveOK

\* The steps of POST .../verify.
LEMMA VerifyStepOK ==
  ASSUME TypeOK, ControlOK, NEW r \in Request, VerifyStep(r)
  PROVE  TypeOK' /\ ControlOK'
<1> DEFINE s == req[r].sid
           m == req[r].method
<1>0. req[r] \in RequestRecord /\ Control(req[r])
  BY DEF TypeOK, ControlOK
<1>1. req[r].pc \in VerifyPC /\ req[r].pc \in SessionPC
  BY DEF VerifyStep, VerifyCheck, VerifyPlugin, VerifyAnswer, VerifyPC, SessionPC
<1>2. s \in Sid /\ m \in Method
  BY <1>0, <1>1 DEF Control, OnSession
<1>3. ViewDone(r) \in SUBSET Method /\ ViewTries(r) \in [Method -> Nat]
  BY <1>2, ViewType
<1>4. CASE VerifyCheck(r)
  <2> DEFINE n == ViewTries(r)[m] + 1
             counted == [ViewTries(r) EXCEPT ![m] =
                           IF n > AttemptLimit THEN AttemptLimit + 1 ELSE n]
             own == IF Shared THEN req[r].tries ELSE counted
             q == [req[r] EXCEPT !.pc = "v_plugin", !.tries = own]
  <2>1. counted \in [Method -> Nat]
    BY <1>2, <1>3, ConfigAssumption
  <2>2. own \in [Method -> Nat]
    BY <1>0, <2>1 DEF RequestRecord
  <2>3. tries' \in [Sid -> [Method -> Nat]]
    <3>1. tries' = tries \/ tries' = [tries EXCEPT ![s] = counted]
      BY <1>4 DEF VerifyCheck
    <3> HIDE DEF counted
    <3> QED BY <1>2, <2>1, <3>1 DEF TypeOK
  <2>4. req' \in [Request -> RequestRecord] /\ ControlOK'
    <3>1. CASE Finish(r)
      BY <3>1, FinishOK
    <3>2. CASE Goto(r, "c_check")
      <4>1. "c_check" \notin VerifyPC
        BY DEF VerifyPC
      <4> QED BY <1>1, <3>2, <4>1, OnSessionGotoOK
    <3>3. CASE req' = [req EXCEPT ![r] = q]
      <4>1. "v_plugin" \in PC
        BY DEF PC
      <4> HIDE DEF own
      <4>2. /\ q \in RequestRecord /\ q.pc = "v_plugin" /\ q.op = req[r].op
            /\ q.net = req[r].net /\ q.sid = req[r].sid /\ q.method = req[r].method
        BY <1>0, <2>2, <4>1 DEF RequestRecord
      <4> HIDE DEF q
      <4> QED BY <1>1, <3>3, <4>2, OnSessionMoveOK
    <3> QED BY <1>4, <3>1, <3>2, <3>3 DEF VerifyCheck
  <2> QED BY <1>4, <2>3, <2>4 DEF VerifyCheck, TypeOK, history
<1>5. CASE VerifyPlugin(r)
  <2>1. passed' \in [Sid -> SUBSET Method]
    <3>1. passed' = passed \/ passed' = [passed EXCEPT ![s] = @ \cup {m}]
      BY <1>5 DEF VerifyPlugin
    <3>2. passed \in [Sid -> SUBSET Method]
      BY DEF TypeOK
    <3> HIDE DEF s, m
    <3> QED BY <1>2, <3>1, <3>2
  <2>2. evals' \in [Sid -> [Method -> Nat]]
    <3> DEFINE n == IF evals[s][m] > AttemptLimit THEN evals[s][m] ELSE evals[s][m] + 1
    <3>1. evals' = evals \/ evals' = [evals EXCEPT ![s] = [evals[s] EXCEPT ![m] = n]]
      BY <1>5 DEF VerifyPlugin
    <3>2. n \in Nat
      BY <1>2 DEF TypeOK
    <3>3. evals \in [Sid -> [Method -> Nat]]
      BY DEF TypeOK
    <3> HIDE DEF n, s, m
    <3>4. [evals[s] EXCEPT ![m] = n] \in [Method -> Nat]
      BY <1>2, <3>2, <3>3
    <3> QED BY <1>2, <3>1, <3>3, <3>4
  <2>3. req' \in [Request -> RequestRecord] /\ ControlOK'
    <3>1. CASE Finish(r)
      BY <3>1, FinishOK
    <3>2. CASE Goto(r, "v_answer")
      BY <1>1, <3>2, OnSessionGotoOK
    <3>3. ASSUME NEW q, req' = [req EXCEPT ![r] = q],
                 q = [req[r] EXCEPT !.pc = "v_answer", !.right = (record = "authorized")]
          PROVE  req' \in [Request -> RequestRecord] /\ ControlOK'
      <4>1. "v_answer" \in PC
        BY DEF PC
      <4>2. (record = "authorized") \in BOOLEAN
        OBVIOUS
      <4>3. /\ q \in RequestRecord /\ q.pc = "v_answer" /\ q.op = req[r].op
            /\ q.net = req[r].net /\ q.sid = req[r].sid /\ q.method = req[r].method
        BY <1>0, <3>3, <4>1, <4>2 DEF RequestRecord
      <4> QED BY <1>1, <3>3, <4>3, OnSessionMoveOK
    <3> QED BY <1>5, <3>1, <3>2, <3>3 DEF VerifyPlugin, Goto
  <2> QED BY <1>5, <2>1, <2>2, <2>3 DEF VerifyPlugin, TypeOK, store
<1>6. CASE VerifyAnswer(r)
  <2> DEFINE d == IF req[r].right THEN ViewDone(r) \cup {m} ELSE ViewDone(r)
             own == IF Shared THEN req[r].done ELSE d
             q == [req[r] EXCEPT !.pc = "c_check", !.done = own]
  <2>1. d \in SUBSET Method
    BY <1>2, <1>3
  <2>2. own \in SUBSET Method
    BY <1>0, <2>1 DEF RequestRecord
  <2>3. done' \in [Sid -> SUBSET Method] /\ tries' \in [Sid -> [Method -> Nat]]
    BY <1>3, <1>6, <2>1, WriteChallengesType DEF VerifyAnswer
  <2>4. /\ status' \in [Sid -> Status \cup {"unborn", "gone"}]
        /\ index' \in [Network -> Sid \cup {NoSid}]
    BY <1>6, KeepStatusType DEF VerifyAnswer
  <2>5. req' \in [Request -> RequestRecord] /\ ControlOK'
    <3>1. CASE Finish(r)
      BY <3>1, FinishOK
    <3>2. CASE req' = [req EXCEPT ![r] = q]
      <4>1. "c_check" \in PC /\ "c_check" \notin VerifyPC
        BY DEF PC, VerifyPC
      <4> HIDE DEF own
      <4>2. /\ q \in RequestRecord /\ q.pc = "c_check" /\ q.op = req[r].op
            /\ q.net = req[r].net /\ q.sid = req[r].sid /\ q.method = req[r].method
        BY <1>0, <2>2, <4>1 DEF RequestRecord
      <4> HIDE DEF q
      <4> QED BY <1>1, <3>2, <4>1, <4>2, OnSessionMoveOK
    <3> QED BY <1>6, <3>1, <3>2 DEF VerifyAnswer
  <2> QED BY <1>6, <2>3, <2>4, <2>5 DEF VerifyAnswer, TypeOK, history
<1> QED BY <1>4, <1>5, <1>6 DEF VerifyStep

\* The steps of GET .../status.
LEMMA StatusStepOK ==
  ASSUME TypeOK, ControlOK, NEW r \in Request, StatusStep(r)
  PROVE  TypeOK' /\ ControlOK'
<1> DEFINE s == req[r].sid
<1>0. req[r] \in RequestRecord /\ Control(req[r])
  BY DEF TypeOK, ControlOK
<1>1. req[r].pc \in SessionPC
  BY DEF StatusStep, StatusRecord, StatusPass, StatusReject, SessionPC
<1>2. s \in Sid
  BY <1>0, <1>1 DEF Control, OnSession
<1>3. ViewDone(r) \in SUBSET Method /\ ViewTries(r) \in [Method -> Nat]
  BY <1>2, ViewType
<1>4. CASE StatusRecord(r)
  <2>1. Approval \in Method
    BY <1>0, <1>4 DEF StatusRecord, Control
  <2>2. passed' \in [Sid -> SUBSET Method]
    <3>1. passed' = passed \/ passed' = [passed EXCEPT ![s] = @ \cup {Approval}]
      BY <1>4 DEF StatusRecord
    <3>2. passed \in [Sid -> SUBSET Method]
      BY DEF TypeOK
    <3> HIDE DEF s
    <3> QED BY <1>2, <2>1, <3>1, <3>2
  <2>3. req' \in [Request -> RequestRecord] /\ ControlOK'
    <3>1. CASE Goto(r, "s_pass")
      <4>1. "s_pass" \in PC
        BY DEF PC
      <4>2. Control([req[r] EXCEPT !.pc = "s_pass"])
        BY <1>0, <1>1, <2>1
           DEF RequestRecord, Control, OnSession, JoinPC, NotifyPC, VerifyPC, SessionPC
      <4> QED BY <3>1, <4>1, <4>2, GotoOK
    <3>2. CASE Goto(r, "s_reject") \/ Goto(r, "c_check")
      <4>1. "s_reject" \notin VerifyPC /\ "c_check" \notin VerifyPC
        BY DEF VerifyPC
      <4> QED BY <1>1, <3>2, <4>1, OnSessionGotoOK
    <3> QED BY <1>4, <3>1, <3>2 DEF StatusRecord
  <2> QED BY <1>4, <2>2, <2>3 DEF StatusRecord, TypeOK, store
<1>5. CASE StatusPass(r)
  <2> DEFINE d == ViewDone(r) \cup {Approval}
             own == IF Shared THEN req[r].done ELSE d
             q == [req[r] EXCEPT !.pc = "c_check", !.done = own]
  <2>1. d \in SUBSET Method
    BY <1>0, <1>3, <1>5 DEF StatusPass, Control
  <2>2. own \in SUBSET Method
    BY <1>0, <2>1 DEF RequestRecord
  <2>3. done' \in [Sid -> SUBSET Method] /\ tries' \in [Sid -> [Method -> Nat]]
    BY <1>3, <1>5, <2>1, WriteChallengesType DEF StatusPass
  <2>4. /\ status' \in [Sid -> Status \cup {"unborn", "gone"}]
        /\ index' \in [Network -> Sid \cup {NoSid}]
    BY <1>5, KeepStatusType DEF StatusPass
  <2>5. req' \in [Request -> RequestRecord] /\ ControlOK'
    <3>1. req' = [req EXCEPT ![r] = q]
      BY <1>5 DEF StatusPass
    <3>2. "c_check" \in PC /\ "c_check" \notin VerifyPC
      BY DEF PC, VerifyPC
    <3> HIDE DEF own
    <3>3. /\ q \in RequestRecord /\ q.pc = "c_check" /\ q.op = req[r].op
          /\ q.net = req[r].net /\ q.sid = req[r].sid /\ q.method = req[r].method
      BY <1>0, <2>2, <3>2 DEF RequestRecord
    <3> HIDE DEF q
    <3> QED BY <1>1, <3>1, <3>2, <3>3, OnSessionMoveOK
  <2> QED BY <1>5, <2>3, <2>4, <2>5 DEF StatusPass, TypeOK, history
<1>6. CASE StatusReject(r)
  <2>1. done' \in [Sid -> SUBSET Method] /\ tries' \in [Sid -> [Method -> Nat]]
    BY <1>3, <1>6, WriteChallengesType DEF StatusReject
  <2>2. /\ status' \in [Sid -> Status \cup {"unborn", "gone"}]
        /\ index' \in [Network -> Sid \cup {NoSid}]
    BY <1>6, SetStatusType DEF StatusReject, Status
  <2> QED BY <1>6, <2>1, <2>2, FinishOK DEF StatusReject, TypeOK, history
<1> QED BY <1>4, <1>5, <1>6 DEF StatusStep

\* The steps of provision and reconnect.
LEMMA ServeStepOK ==
  ASSUME TypeOK, ControlOK, NEW r \in Request, ServeStep(r)
  PROVE  TypeOK' /\ ControlOK'
<1>0. req[r] \in RequestRecord /\ Control(req[r])
  BY DEF TypeOK, ControlOK
<1>1. ASSUME NEW pc \in {"p_reject", "p_serve", "r_scope"}, Goto(r, pc),
             req[r].pc \in {"p_record", "r_record"}
      PROVE  req' \in [Request -> RequestRecord] /\ ControlOK'
  <2>1. pc \in PC
    BY DEF PC
  <2>2. Control([req[r] EXCEPT !.pc = pc])
    BY <1>0, <1>1 DEF RequestRecord, Control, OnSession, JoinPC, NotifyPC, VerifyPC, SessionPC
  <2> QED BY <1>1, <2>1, <2>2, GotoOK
<1>2. CASE ProvisionRecord(r)
  <2>1. req' \in [Request -> RequestRecord] /\ ControlOK'
    BY <1>1, <1>2, FinishOK DEF ProvisionRecord
  <2> QED BY <1>2, <2>1 DEF ProvisionRecord, TypeOK, store, history
<1>3. CASE ProvisionReject(r)
  <2>1. /\ status' \in [Sid -> Status \cup {"unborn", "gone"}]
        /\ index' \in [Network -> Sid \cup {NoSid}]
    BY <1>3, SetStatusType DEF ProvisionReject, Status
  <2> QED BY <1>3, <2>1, FinishOK DEF ProvisionReject, TypeOK, history
<1>4. CASE ProvisionServe(r)
  BY <1>4, FinishOK DEF ProvisionServe, TypeOK, store, history
<1>5. CASE ReconnectRecord(r)
  <2>1. req' \in [Request -> RequestRecord] /\ ControlOK'
    BY <1>1, <1>5, FinishOK DEF ReconnectRecord
  <2> QED BY <1>5, <2>1 DEF ReconnectRecord, TypeOK, store, history
<1>6. CASE ReconnectScope(r)
  <2> DEFINE c == FindByAgentKey(req[r].net)
             token == IF c # NoSid /\ status[c] = "ready" THEN c ELSE NoSid
             q == [req[r] EXCEPT !.pc = "r_answer", !.sid = token]
  <2>1. /\ status' \in [Sid -> Status \cup {"unborn", "gone"}]
        /\ index' \in [Network -> Sid \cup {NoSid}]
    BY <1>6, RemoveType DEF ReconnectScope, PruneCandidate
  <2>2. token \in Sid \cup {NoSid}
    BY DEF FindByAgentKey
  <2>3. req' \in [Request -> RequestRecord] /\ ControlOK'
    <3>1. CASE Finish(r)
      BY <3>1, FinishOK
    <3>2. CASE req' = [req EXCEPT ![r] = q]
      <4>1. "r_answer" \in PC
        BY DEF PC
      <4> HIDE DEF token
      <4>2. q \in RequestRecord
        BY <1>0, <2>2, <4>1 DEF RequestRecord
      <4>3. q.pc = "r_answer" /\ q.op = req[r].op /\ q.net = req[r].net
        BY <1>0 DEF RequestRecord
      <4>4. Control(q)
        BY <1>0, <4>3 DEF Control, OnSession, JoinPC, NotifyPC, VerifyPC, SessionPC
      <4> HIDE DEF q
      <4> QED BY <3>2, <4>2, <4>4, ReplaceOK
    <3> QED BY <1>6, <3>1, <3>2 DEF ReconnectScope
  <2> QED BY <1>6, <2>1, <2>3 DEF ReconnectScope, TypeOK, history
<1>7. CASE ReconnectAnswer(r)
  BY <1>7, FinishOK DEF ReconnectAnswer, TypeOK, store, history
<1> QED BY <1>2, <1>3, <1>4, <1>5, <1>6, <1>7 DEF ServeStep

\* A request that has just read session s.
LEMMA ReadingType ==
  ASSUME TypeOK, NEW s \in Sid, NEW op \in {"verify", "status", "resume"},
         NEW pc \in {"v_check", "s_poll", "c_check"}
  PROVE  LET q == Reading(s, op, pc)
         IN  /\ q \in RequestRecord /\ q.pc = pc /\ q.op = op /\ q.sid = s
             /\ Shared \/ q.done = done[s]
<1> DEFINE d == IF Shared THEN {} ELSE done[s]
           t == IF Shared THEN NoTries ELSE tries[s]
<1>1. d \in SUBSET Method /\ t \in [Method -> Nat]
  BY DEF TypeOK, NoTries
<1> HIDE DEF d, t
<1>2. Reading(s, op, pc) = [Idle EXCEPT !.pc = pc, !.op = op, !.sid = s, !.done = d, !.tries = t]
  BY DEF Reading, d, t
<1>3. pc \in PC
  BY DEF PC
<1>4. Shared \/ d = done[s]
  BY DEF d
<1> QED BY <1>1, <1>2, <1>3, <1>4, IdleOK DEF RequestRecord

\* The arrival of any request.
LEMMA ArriveOK ==
  ASSUME TypeOK, ControlOK, NEW r \in Request, Arrive(r)
  PROVE  TypeOK' /\ ControlOK'
<1>1. ASSUME NEW n \in Network, NEW op \in JoinOp, Join(r, n, op)
      PROVE  TypeOK' /\ ControlOK'
  <2> DEFINE c == FindByAgentKey(n)
             auto == IF op = "delegated" THEN {Delegated} ELSE {}
             pc == IF c = NoSid THEN JoinStart(op) ELSE "j_delete"
             q == [Idle EXCEPT !.op = op, !.net = n, !.sid = c, !.auto = auto, !.pc = pc]
  <2>1. c \in Sid \cup {NoSid}
    BY DEF FindByAgentKey
  <2>2. /\ pc \in {"j_delete", "j_record", "j_assemble", "n_get", "n_link", "n_verified"}
        /\ pc = "j_record" => Approval \in Method
    BY <1>1, JoinStartOK
  <2>3. auto \in SUBSET Method
    BY <1>1 DEF Join
  <2>4. req' = [req EXCEPT ![r] = q]
    BY <1>1 DEF Join
  <2> HIDE DEF c, auto, pc
  <2>5. q \in RequestRecord
    <3>1. pc \in PC
      BY <2>2 DEF PC
    <3> QED BY <1>1, <2>1, <2>3, <3>1, IdleOK DEF RequestRecord, JoinOp
  <2>6. Control(q)
    <3>1. q.pc = pc /\ q.op = op /\ q.net = n
      BY IdleOK DEF RequestRecord
    <3>2. op = "delegated" => Delegated \in Method
      BY <1>1 DEF Join
    <3> HIDE DEF q
    <3> QED BY <2>2, <3>1, <3>2
            DEF Control, OnSession, JoinPC, NotifyPC, VerifyPC, SessionPC
  <2> HIDE DEF q
  <2>7. req' \in [Request -> RequestRecord] /\ ControlOK'
    BY <2>4, <2>5, <2>6, ReplaceOK
  <2>8. /\ status' \in [Sid -> Status \cup {"unborn", "gone"}]
        /\ index' \in [Network -> Sid \cup {NoSid}]
    BY <1>1, RemoveType DEF Join, PruneCandidate
  <2>9. barred' \subseteq Request
    BY <1>1 DEF Join, NoteBlocked, TypeOK
  <2> QED BY <1>1, <2>7, <2>8, <2>9 DEF Join, TypeOK
<1>2. ASSUME NEW q \in RequestRecord, q.op \notin JoinOp, q.sid \in Sid,
             q.pc \in {"v_check", "s_poll", "c_check"},
             q.pc = "v_check" => q.method \in Method,
             q.pc = "s_poll" => Approval \in Method,
             req' = [req EXCEPT ![r] = q]
      PROVE  req' \in [Request -> RequestRecord] /\ ControlOK'
  <2>1. Control(q)
    BY <1>2 DEF Control, OnSession, JoinPC, NotifyPC, VerifyPC, SessionPC, JoinOp
  <2> QED BY <1>2, <2>1, ReplaceOK
<1>3. \A op \in {"verify", "status", "resume"} : op \notin JoinOp
  BY DEF JoinOp
<1>4. ASSUME NEW n \in Network, Resume(r, n)
      PROVE  TypeOK' /\ ControlOK'
  <2> DEFINE c == FindByAgentKey(n)
             q == Reading(c, "resume", "c_check")
  <2>1. c \in Sid
    BY <1>4 DEF Resume, FindByAgentKey
  <2>2. req' = [req EXCEPT ![r] = q]
    BY <1>4 DEF Resume
  <2> HIDE DEF c
  <2>3. q \in RequestRecord /\ q.pc = "c_check" /\ q.op = "resume" /\ q.sid = c
    BY <2>1, ReadingType
  <2> HIDE DEF q
  <2> QED BY <1>2, <1>3, <1>4, <2>1, <2>2, <2>3 DEF Resume, TypeOK, store, history
<1>5. ASSUME NEW s \in Sid, NEW m \in Method, NEW right \in BOOLEAN, Verify(r, s, m, right)
      PROVE  TypeOK' /\ ControlOK'
  <2> DEFINE p == Reading(s, "verify", "v_check")
             q == [p EXCEPT !.method = m, !.right = right]
  <2>1. p \in RequestRecord /\ p.pc = "v_check" /\ p.op = "verify" /\ p.sid = s
    BY ReadingType
  <2>2. req' = [req EXCEPT ![r] = q]
    BY <1>5 DEF Verify
  <2> HIDE DEF p
  <2>3. /\ q \in RequestRecord /\ q.pc = "v_check" /\ q.op = "verify"
        /\ q.sid = s /\ q.method = m
    BY <2>1 DEF RequestRecord
  <2> HIDE DEF q
  <2> QED BY <1>2, <1>3, <1>5, <2>2, <2>3 DEF Verify, TypeOK, store, history
<1>6. ASSUME NEW s \in Sid, StatusPoll(r, s)
      PROVE  TypeOK' /\ ControlOK'
  <2> DEFINE pc == IF Approval \in held[s] \ done[s] THEN "s_poll" ELSE "c_check"
             q == Reading(s, "status", pc)
  <2>1. pc \in {"s_poll", "c_check"} /\ (pc = "s_poll" => Approval \in Method)
    BY DEF TypeOK
  <2>2. req' = [req EXCEPT ![r] = q]
    BY <1>6 DEF StatusPoll
  <2> HIDE DEF pc
  <2>3. q \in RequestRecord /\ q.pc = pc /\ q.op = "status" /\ q.sid = s
    BY <2>1, ReadingType
  <2> HIDE DEF q
  <2> QED BY <1>2, <1>3, <1>6, <2>1, <2>2, <2>3 DEF StatusPoll, TypeOK, store, history
<1>7. ASSUME NEW q \in RequestRecord, q.op \in {"provision", "reconnect"},
             q.pc \in {"p_record", "p_serve", "r_record", "r_scope"},
             req' = [req EXCEPT ![r] = q]
      PROVE  req' \in [Request -> RequestRecord] /\ ControlOK'
  <2>1. Control(q)
    BY <1>7 DEF Control, OnSession, JoinPC, NotifyPC, VerifyPC, SessionPC, JoinOp
  <2> QED BY <1>7, <2>1, ReplaceOK
<1>8. ASSUME NEW s \in Sid, Provision(r, s)
      PROVE  TypeOK' /\ ControlOK'
  <2> DEFINE pc == IF HcAuth # "off" /\ Approval \in held[s] THEN "p_record" ELSE "p_serve"
             q == [Idle EXCEPT !.op = "provision", !.sid = s, !.pc = pc]
  <2>1. pc \in {"p_record", "p_serve"} /\ pc \in PC
    BY DEF PC
  <2>2. req' = [req EXCEPT ![r] = q]
    BY <1>8 DEF Provision
  <2> HIDE DEF pc
  <2>3. q \in RequestRecord /\ q.op = "provision" /\ q.pc = pc
    BY <2>1, IdleOK DEF RequestRecord
  <2> HIDE DEF q
  <2>4. req' \in [Request -> RequestRecord] /\ ControlOK'
    BY <1>7, <2>1, <2>2, <2>3
  <2>5. barred' \subseteq Request
    BY <1>8 DEF Provision, NoteBlocked, TypeOK
  <2> QED BY <1>8, <2>4, <2>5 DEF Provision, TypeOK, store
<1>9. ASSUME NEW n \in Network, Reconnect(r, n)
      PROVE  TypeOK' /\ ControlOK'
  <2> DEFINE pc == IF HcAuth = "off" THEN "r_scope" ELSE "r_record"
             q == [Idle EXCEPT !.op = "reconnect", !.net = n, !.pc = pc]
  <2>1. pc \in {"r_scope", "r_record"} /\ pc \in PC
    BY DEF PC
  <2>2. req' = [req EXCEPT ![r] = q]
    BY <1>9 DEF Reconnect
  <2> HIDE DEF pc
  <2>3. q \in RequestRecord /\ q.op = "reconnect" /\ q.pc = pc
    BY <2>1, IdleOK DEF RequestRecord
  <2> HIDE DEF q
  <2>4. req' \in [Request -> RequestRecord] /\ ControlOK'
    BY <1>7, <2>1, <2>2, <2>3
  <2>5. barred' \subseteq Request
    BY <1>9 DEF Reconnect, NoteBlocked, TypeOK
  <2> QED BY <1>9, <2>4, <2>5 DEF Reconnect, TypeOK, store
<1> QED BY <1>1, <1>4, <1>5, <1>6, <1>8, <1>9 DEF Arrive, JoinOp

\* No request is in flight at first.
LEMMA InitOK == Init => TypeOK /\ ControlOK
<1> SUFFICES ASSUME Init PROVE TypeOK /\ ControlOK
  OBVIOUS
<1>1. NoTries \in [Method -> Nat]
  BY DEF NoTries
<1>2. StaticNetwork \in Network
  BY ConfigAssumption
<1>3. req \in [Request -> RequestRecord] /\ ControlOK
  BY IdleOK DEF Init, ControlOK
<1> QED BY <1>1, <1>2, <1>3 DEF Init, TypeOK, Status, RecordState

\* A request of any client, a step of a handler, or a step around them.
LEMMA NextOK ==
  ASSUME TypeOK, ControlOK, [Next]_vars
  PROVE  TypeOK' /\ ControlOK'
<1>1. ASSUME NEW r \in Request, Arrive(r)
      PROVE  TypeOK' /\ ControlOK'
  BY <1>1, ArriveOK
<1>2. ASSUME NEW r \in Request, Step(r)
      PROVE  TypeOK' /\ ControlOK'
  BY <1>2, JoinStepOK, ReadyPathStepOK, VerifyStepOK, StatusStepOK, ServeStepOK DEF Step
<1>3. CASE UNCHANGED vars
  <2>1. TypeOK'
    BY <1>3 DEF vars, store, history, TypeOK
  <2>2. ControlOK'
    BY <1>3 DEF vars, ControlOK
  <2> QED BY <2>1, <2>2
<1>4. ASSUME NEW from, NEW to \in RecordState, Operator(from, to)
      PROVE  TypeOK' /\ ControlOK'
  <2>1. barred' \subseteq Request /\ record' \in RecordState
    BY <1>4 DEF Operator, TypeOK
  <2>2. ControlOK'
    BY <1>4 DEF Operator, ControlOK
  <2> QED BY <1>4, <2>1, <2>2 DEF Operator, TypeOK, store
<1>5. CASE Approve \/ Block \/ Unblock
  <2>1. "authorized" \in RecordState /\ "blocked" \in RecordState
    BY DEF RecordState
  <2> QED BY <1>4, <1>5, <2>1 DEF Approve, Block, Unblock
<1>6. ASSUME NEW s \in Sid, Age(s)
      PROVE  TypeOK' /\ ControlOK'
  <2>1. aged' \in [Sid -> BOOLEAN]
    BY <1>6 DEF Age, TypeOK
  <2>2. ControlOK'
    BY <1>6 DEF Age, ControlOK
  <2> QED BY <1>6, <2>1, <2>2 DEF Age, TypeOK, history
<1>7. ASSUME NEW s \in Sid, PruneExpired(s)
      PROVE  TypeOK' /\ ControlOK'
  <2>1. /\ status' \in [Sid -> Status \cup {"unborn", "gone"}]
        /\ index' \in [Network -> Sid \cup {NoSid}]
    BY <1>7, RemoveType DEF PruneExpired
  <2>2. ControlOK'
    BY <1>7 DEF PruneExpired, ControlOK
  <2> QED BY <1>7, <2>1, <2>2 DEF PruneExpired, TypeOK, history
<1>8. CASE Restart
  <2>1. req' \in [Request -> RequestRecord] /\ ControlOK'
    BY <1>8, IdleOK DEF Restart, ControlOK
  <2>2. status' \in [Sid -> Status \cup {"unborn", "gone"}]
    BY <1>8 DEF Restart, TypeOK
  <2>3. index' \in [Network -> Sid \cup {NoSid}]
    BY <1>8 DEF Restart, TypeOK
  <2> QED BY <1>8, <2>1, <2>2, <2>3 DEF Restart, TypeOK
<1> QED BY <1>1, <1>2, <1>3, <1>5, <1>6, <1>7, <1>8 DEF Next, Wait

\* In every reachable state of every configuration each variable has its
\* type, and each request in flight holds what its handler is about to use.
THEOREM TypeCorrect == Spec => [](TypeOK /\ ControlOK)
<1>1. Init => TypeOK /\ ControlOK
  BY InitOK
<1>2. TypeOK /\ ControlOK /\ [Next]_vars => (TypeOK /\ ControlOK)'
  BY NextOK
<1> QED BY <1>1, <1>2, PTL DEF Spec

----------------------------------------------------------------------------
(* What a request has to have done at each point *)

\* Steps that a required hc-auth and a required linker_auth leave behind.
StepsRan(x) ==
    /\ HcAuth = "required" => "hc-auth" \in x
    /\ Linkers = "required" => "linkers" \in x

\* The ready steps a request has recorded when its handler relies on them.
StepsRecorded(q) ==
    /\ q.pc = "n_link" /\ HcAuth = "required" => "hc-auth" \in q.steps
    /\ q.pc = "c_ready" => StepsRan(q.steps)
    /\ q.pc = "j_create" /\ Satisfied(q.held, q.done) => StepsRan(q.steps)

StepsInv == ReadyStepsRan /\ \A r \in Request : StepsRecorded(req[r])

\* A request that was blocked from its start has not passed the look at the
\* record, unless the session it serves never had an approval challenge.
LookedAt(r) ==
    LET q == req[r]
    IN  /\ q.pc \in {"p_record", "p_reject", "p_serve"} =>
              q.sid \in Sid /\ status[q.sid] # "unborn"
        /\ HcAuth = "required" /\ r \in barred =>
              /\ q.pc = "p_serve" => Approval \notin held[q.sid]
              /\ q.pc \notin {"r_scope", "r_answer"}

BarredInv ==
    /\ barred # {} => record = "blocked"
    /\ \A r \in Request : LookedAt(r)

\* Only a join that has assembled its challenges carries an invite code.
CarriesCode(q) ==
    q.op \notin JoinOp \/ q.pc \notin NotifyPC \cup {"j_create"} => q.code = NoCode

CodesKept ==
    /\ \A r \in Request : CarriesCode(req[r])
    /\ \A s \in Sid : status[s] = "unborn" => codeOf[s] = NoCode
    /\ InviteNotLost

\* A code is with the process, with one join, or with one session.
CodesApart ==
    /\ \A r \in Request : req[r].code \notin codes
    /\ \A s \in Sid : codeOf[s] \notin codes
    /\ \A r, t \in Request : r # t /\ req[r].code = req[t].code => req[r].code = NoCode
    /\ \A r \in Request, s \in Sid : req[r].code = codeOf[s] => codeOf[s] = NoCode
    /\ InviteBacksOneSession

\* The requests that have counted an attempt and not yet asked the plugin.
Asking(s, m) ==
    {r \in Request : req[r].pc = "v_plugin" /\ req[r].sid = s /\ req[r].method = m}

\* Every answer handed to a plugin, or about to be, is a counted attempt.
AttemptsCounted ==
    \A s \in Sid, m \in Method :
        /\ IsFiniteSet(Asking(s, m))
        /\ evals[s][m] + Cardinality(Asking(s, m)) <= tries[s][m]
        /\ evals[s][m] + Cardinality(Asking(s, m)) <= AttemptLimit

\* A session that no lookup and no update can bring back.
Over(s) == IF Store = "memory" THEN ~Stored(s) ELSE ~Live(s)

\* Session ids are given in order, an older session of a network is over when
\* there is a newer one, and the index of the memory store knows them all.
InOrder ==
    /\ \A s, t \in Sid : s < t /\ status[t] # "unborn" => status[s] # "unborn"
    /\ \A s, t \in Sid : s < t /\ Stored(t) /\ net[s] = net[t] => Over(s)
    /\ Store = "memory" => \A s \in Sid : Stored(s) => index[net[s]] = s

\* A join that has looked leaves no session of its network, but the one it is
\* about to delete.
Cleared(q) ==
    q.pc \in JoinPC \/ (q.pc \in NotifyPC /\ q.op \in JoinOp) =>
        \A s \in Sid : net[s] = q.net /\ Stored(s) => Over(s) \/ (q.pc = "j_delete" /\ s = q.sid)

OneAfterAnother == InOrder /\ \A r \in Request : Cleared(req[r])

-----------------------------------------------------------------------------
(* Lemmas on the steps of one request.                                     *)

\* A request that ends leaves its slot free.
LEMMA FinishShape ==
  ASSUME TypeOK, NEW r \in Request, Finish(r)
  PROVE  req'[r] = Idle /\ \A t \in Request \ {r} : req'[t] = req[t]
BY DEF TypeOK, Finish

\* A request that moves on keeps everything but its point.
LEMMA GotoShape ==
  ASSUME TypeOK, NEW r \in Request, NEW pc, Goto(r, pc)
  PROVE  /\ req'[r] = [req[r] EXCEPT !.pc = pc]
         /\ \A t \in Request \ {r} : req'[t] = req[t]
BY DEF TypeOK, Goto

\* A step of one request leaves the others alone.
LEMMA OthersKept ==
  ASSUME TypeOK, NEW r \in Request, Step(r)
  PROVE  \A t \in Request \ {r} : req'[t] = req[t]
<1> DEFINE Kept == \A t \in Request \ {r} : req'[t] = req[t]
<1>1. JoinStep(r) => Kept
  BY DEF TypeOK, JoinStep, JoinDelete, JoinRecord, JoinRequestAuth, JoinRefused, JoinAssemble,
         JoinCreate, JoinCreateFails, Throw, Finish, Goto
<1>2. ReadyPathStep(r) => Kept
  BY DEF TypeOK, ReadyPathStep, Complete, NotifyGet, NotifyRequest, NotifyTransition,
         NotifyVerified, NotifyLinkers, MakeReady, HcAuthFails, Throw, Finish, Goto
<1>3. VerifyStep(r) => Kept
  BY DEF TypeOK, VerifyStep, VerifyCheck, VerifyPlugin, VerifyAnswer, Finish, Goto
<1>4. StatusStep(r) => Kept
  BY DEF TypeOK, StatusStep, StatusRecord, StatusPass, StatusReject, Finish, Goto
<1>5. ServeStep(r) => Kept
  BY DEF TypeOK, ServeStep, ProvisionRecord, ProvisionReject, ProvisionServe,
         ReconnectRecord, ReconnectScope, ReconnectAnswer, Finish, Goto
<1> QED BY <1>1, <1>2, <1>3, <1>4, <1>5 DEF Step

\* What a request keeps when it moves along the ready path.
Along(p, q) ==
    /\ q.op = p.op /\ q.sid = p.sid /\ q.net = p.net /\ q.code = p.code
    /\ q.held = p.held /\ q.done = p.done

\* A step to another point is a move along.
LEMMA GotoAlong ==
  ASSUME TypeOK, NEW r \in Request, NEW pc, Goto(r, pc)
  PROVE  /\ Along(req[r], req'[r]) /\ req'[r].pc = pc /\ req'[r].steps = req[r].steps
         /\ \A t \in Request \ {r} : req'[t] = req[t]
<1>1. PICK q : q = [req[r] EXCEPT !.pc = pc]
  OBVIOUS
<1>2. req'[r] = q /\ req[r] \in RequestRecord
  BY <1>1, GotoShape DEF TypeOK
<1>3. Along(req[r], q) /\ q.pc = pc /\ q.steps = req[r].steps
  BY <1>1, <1>2 DEF RequestRecord, Along
<1> QED BY <1>2, <1>3, GotoShape

\* So is one that records a step that was taken.
LEMMA RecordedAlong ==
  ASSUME TypeOK, NEW r \in Request, NEW pc, NEW x,
         req' = [req EXCEPT ![r].pc = pc, ![r].steps = @ \cup x]
  PROVE  Along(req[r], req'[r]) /\ req'[r].pc = pc /\ req'[r].steps = req[r].steps \cup x
<1>1. PICK q : q = [req[r] EXCEPT !.pc = pc, !.steps = req[r].steps \cup x]
  OBVIOUS
<1>2. req'[r] = q /\ req[r] \in RequestRecord
  BY <1>1 DEF TypeOK
<1>3. Along(req[r], q) /\ q.pc = pc /\ q.steps = req[r].steps \cup x
  BY <1>1, <1>2 DEF RequestRecord, Along
<1> QED BY <1>2, <1>3

\* And one that names the state the record was in.
LEMMA NamedAlong ==
  ASSUME TypeOK, NEW r \in Request, NEW x,
         req' = [req EXCEPT ![r].pc = "n_transition", ![r].from = x]
  PROVE  Along(req[r], req'[r]) /\ req'[r].pc = "n_transition"
<1>1. PICK q : q = [req[r] EXCEPT !.pc = "n_transition", !.from = x]
  OBVIOUS
<1>2. req'[r] = q /\ req[r] \in RequestRecord
  BY <1>1 DEF TypeOK
<1>3. Along(req[r], q) /\ q.pc = "n_transition"
  BY <1>1, <1>2 DEF RequestRecord, Along
<1> QED BY <1>2, <1>3

\* A call of hc-auth that fails ends the request, or lets it go on where
\* hc_auth is not required.
LEMMA HcAuthFailsShape ==
  ASSUME TypeOK, NEW r \in Request, HcAuthFails(r)
  PROVE  \/ Throw(r) /\ req'[r] = Idle
         \/ /\ HcAuth # "required" /\ UNCHANGED codes
            /\ req'[r].pc = "n_link" /\ Along(req[r], req'[r])
<1>1. CASE HcAuth = "required"
  BY <1>1, FinishShape DEF HcAuthFails, Throw
<1>2. CASE HcAuth # "required"
  BY <1>2, GotoAlong DEF HcAuthFails
<1> QED BY <1>1, <1>2

\* What the ready path does to the request: it moves along, ends, or throws;
\* it reaches the linkers with hc-auth's step done where that is required,
\* and its end with every required step done.
LEMMA ReadyPathShape ==
  ASSUME TypeOK, NEW r \in Request, ReadyPathStep(r)
  PROVE  \/ req'[r] = Idle /\ Throw(r)
         \/ /\ req'[r] = Idle /\ UNCHANGED codes /\ req[r].pc \in {"c_check", "c_ready"}
         \/ /\ UNCHANGED codes /\ Along(req[r], req'[r])
            /\ req'[r].pc \in NotifyPC \cup {"j_create", "c_ready"}
            /\ req'[r].pc = "j_create" => req[r].op \in JoinOp
            /\ req'[r].pc = "c_ready" => req[r].op \notin JoinOp
            /\ StepsRecorded(req[r]) => StepsRecorded(req'[r])
<1>0. req[r] \in RequestRecord /\ req \in [Request -> RequestRecord]
  BY DEF TypeOK
<1>1. CASE Complete(r)
  <2>1. CASE Finish(r)
    BY <1>1, <2>1, FinishShape DEF Complete
  <2>2. CASE Goto(r, NotifyStart(held[req[r].sid]))
    <3>1. /\ req'[r].pc = NotifyStart(held[req[r].sid]) /\ Along(req[r], req'[r])
          /\ req'[r].steps = req[r].steps
      BY <2>2, GotoAlong
    <3>2. req'[r].pc = "n_link" => HcAuth = "off"
      BY <3>1 DEF NotifyStart
    <3> QED BY <1>1, <3>1, <3>2, NotifyStartOK DEF Complete, NotifyPC, StepsRecorded
  <2> QED BY <1>1, <2>1, <2>2 DEF Complete
<1>2. CASE NotifyGet(r)
  <2>1. CASE HcAuthFails(r)
    BY <2>1, HcAuthFailsShape DEF NotifyPC, StepsRecorded
  <2>2. ASSUME NEW pc \in {"n_verified", "n_request"}, Goto(r, pc)
        PROVE  /\ Along(req[r], req'[r]) /\ req'[r].pc = pc
    BY <2>2, GotoAlong
  <2>3. CASE /\ req' = [req EXCEPT ![r].pc = "n_transition", ![r].from = record]
             /\ UNCHANGED codes
    <3>1. Along(req[r], req'[r]) /\ req'[r].pc = "n_transition"
      BY <2>3, NamedAlong
    <3> QED BY <2>3, <3>1 DEF NotifyPC, StepsRecorded
  <2> QED BY <1>2, <2>1, <2>2, <2>3 DEF NotifyGet, NotifyPC, StepsRecorded
<1>3. CASE NotifyRequest(r)
  <2>1. CASE HcAuthFails(r)
    BY <2>1, HcAuthFailsShape DEF NotifyPC, StepsRecorded
  <2>2. CASE req' = [req EXCEPT ![r].pc = "n_transition", ![r].from = "pending"] /\ UNCHANGED codes
    <3>1. Along(req[r], req'[r]) /\ req'[r].pc = "n_transition"
      BY <2>2, NamedAlong
    <3> QED BY <2>2, <3>1 DEF NotifyPC, StepsRecorded
  <2> QED BY <1>3, <2>1, <2>2 DEF NotifyRequest
<1>4. CASE NotifyTransition(r)
  <2>1. CASE HcAuthFails(r)
    BY <2>1, HcAuthFailsShape DEF NotifyPC, StepsRecorded
  <2>2. CASE Goto(r, "n_verified") /\ UNCHANGED codes
    BY <2>2, GotoAlong DEF NotifyPC, StepsRecorded
  <2> QED BY <1>4, <2>1, <2>2 DEF NotifyTransition
<1>5. CASE NotifyVerified(r)
  <2>1. CASE HcAuthFails(r)
    BY <2>1, HcAuthFailsShape DEF NotifyPC, StepsRecorded
  <2>2. CASE req' = [req EXCEPT ![r].pc = "n_link", ![r].steps = @ \cup {"hc-auth"}] /\ UNCHANGED codes
    <3>1. /\ Along(req[r], req'[r]) /\ req'[r].pc = "n_link"
          /\ req'[r].steps = req[r].steps \cup {"hc-auth"}
      BY <2>2, RecordedAlong
    <3> QED BY <2>2, <3>1 DEF NotifyPC, StepsRecorded
  <2> QED BY <1>5, <2>1, <2>2 DEF NotifyVerified
<1>6. CASE NotifyLinkers(r)
  <2>1. NotifyDone(r) = IF req[r].op \in JoinOp THEN "j_create" ELSE "c_ready"
    BY DEF NotifyDone, JoinOp
  <2>2. CASE Throw(r)
    BY <2>2, FinishShape DEF Throw
  <2>3. CASE /\ UNCHANGED codes
             /\ req' = [req EXCEPT ![r].pc = NotifyDone(r), ![r].steps = @ \cup {"linkers"}]
    <3>2. /\ Along(req[r], req'[r]) /\ req'[r].pc = NotifyDone(r)
          /\ req'[r].steps = req[r].steps \cup {"linkers"}
      BY <2>3, RecordedAlong
    <3> QED BY <1>6, <2>1, <2>3, <3>2 DEF NotifyLinkers, StepsRecorded, StepsRan
  <2>4. CASE Linkers # "required" /\ Goto(r, NotifyDone(r)) /\ UNCHANGED codes
    <3>1. /\ Along(req[r], req'[r]) /\ req'[r].pc = NotifyDone(r)
          /\ req'[r].steps = req[r].steps
      BY <2>4, GotoAlong
    <3> QED BY <1>6, <2>1, <2>4, <3>1 DEF NotifyLinkers, StepsRecorded, StepsRan
  <2> QED BY <1>6, <2>2, <2>3, <2>4 DEF NotifyLinkers
<1>7. CASE MakeReady(r)
  BY <1>7, FinishShape DEF MakeReady
<1> QED BY <1>1, <1>2, <1>3, <1>4, <1>5, <1>6, <1>7 DEF ReadyPathStep

\* The steps of a join before its session is created: it ends before it has a
\* code, moves on without one, or spends one and carries it.
LEMMA JoinShape ==
  ASSUME TypeOK, ControlOK, NEW r \in Request, JoinStep(r)
  PROVE  \/ JoinCreate(r) /\ req'[r] = Idle
         \/ JoinCreateFails(r) /\ req'[r] = Idle
         \/ /\ req'[r] = Idle /\ UNCHANGED codes
            /\ req[r].pc \in {"j_record", "j_request", "j_assemble"}
         \/ /\ UNCHANGED codes /\ req'[r].op = req[r].op /\ req'[r].code = req[r].code
            /\ req[r].pc \in {"j_delete", "j_record", "j_request"}
            /\ req'[r].pc \in JoinPC \cup NotifyPC /\ StepsRecorded(req'[r])
            /\ req'[r].net = req[r].net /\ req'[r].pc # "j_delete"
         \/ /\ JoinAssemble(r) /\ req[r].op \in JoinOp /\ req'[r].op = req[r].op
            /\ req'[r].net = req[r].net
            /\ req'[r].code \in codes \cup {NoCode} /\ codes' = codes \ {req'[r].code}
            /\ req'[r].pc \in NotifyPC \cup {"j_create"}
            /\ StepsRecorded(req'[r])
<1>0. /\ req[r] \in RequestRecord /\ req \in [Request -> RequestRecord]
      /\ Control(req[r])
  BY DEF TypeOK, ControlOK
<1>1. CASE JoinDelete(r)
  <2>1. PICK q : q = [req[r] EXCEPT !.pc = JoinStart(req[r].op), !.sid = NoSid]
    OBVIOUS
  <2>2. /\ q.pc = JoinStart(req[r].op) /\ q.op = req[r].op /\ q.code = req[r].code
        /\ q.net = req[r].net /\ req'[r] = q
    BY <1>0, <1>1, <2>1 DEF JoinDelete, RequestRecord
  <2>3. /\ q.pc \notin {"c_ready", "j_create", "j_delete"} /\ (q.pc = "n_link" => HcAuth = "off")
        /\ q.pc \in JoinPC \cup NotifyPC
    BY <2>2 DEF JoinStart, NotifyStart, JoinPC, NotifyPC
  <2> QED BY <1>1, <2>2, <2>3 DEF JoinDelete, StepsRecorded
<1>2. CASE JoinRecord(r)
  <2>1. PICK q : q = req'[r]
    OBVIOUS
  <2>2. /\ q.pc \in {"j_request", "j_assemble"} /\ q.op = req[r].op
        /\ q.code = req[r].code /\ q.net = req[r].net
    BY <1>0, <1>2, <2>1 DEF JoinRecord, Goto, RequestRecord
  <2> QED BY <1>2, <2>1, <2>2 DEF JoinRecord, StepsRecorded, JoinPC
<1>3. CASE JoinRequestAuth(r)
  <2>1. PICK q : q = req'[r]
    OBVIOUS
  <2>2. /\ q.pc = "j_assemble" /\ q.op = req[r].op
        /\ q.code = req[r].code /\ q.net = req[r].net
    BY <1>0, <1>3, <2>1 DEF JoinRequestAuth, Goto, RequestRecord
  <2> QED BY <1>3, <2>1, <2>2 DEF JoinRequestAuth, StepsRecorded, JoinPC
<1>4. CASE JoinRefused(r)
  BY <1>4, FinishShape DEF JoinRefused
<1>5. CASE JoinAssemble(r)
  <2>1. req[r].op \in JoinOp
    BY <1>0, <1>5 DEF JoinAssemble, Control, JoinPC
  <2>2. CASE Finish(r) /\ UNCHANGED codes
    BY <1>5, <2>2, FinishShape DEF JoinAssemble
  <2>3. ASSUME NEW h, NEW auto, NEW code \in Code \cup {NoCode}, NEW pc, NEW q,
               code = NoCode <=> Invite \notin h, Invite \in h => code \in codes,
               Spend(code),
               pc = IF Satisfied(h, h \cap {Invite}) THEN NotifyStart(h) ELSE "j_create",
               q = [req[r] EXCEPT !.held = h, !.done = h \cap {Invite}, !.auto = auto,
                                  !.code = code, !.pc = pc],
               req' = [req EXCEPT ![r] = q]
        PROVE  /\ req'[r].op = req[r].op /\ req'[r].net = req[r].net
               /\ req'[r].code \in codes \cup {NoCode} /\ codes' = codes \ {req'[r].code}
               /\ req'[r].pc \in NotifyPC \cup {"j_create"}
               /\ StepsRecorded(req'[r])
    <3>1. /\ q.op = req[r].op /\ q.net = req[r].net /\ q.code = code /\ q.pc = pc
          /\ q.held = h /\ q.done = h \cap {Invite} /\ req'[r] = q
      BY <1>0, <2>3 DEF RequestRecord
    <3>2. pc \in NotifyPC \cup {"j_create"} /\ (pc = "n_link" => HcAuth = "off")
      BY <2>3, NotifyStartOK DEF NotifyPC, NotifyStart
    <3>3. pc = "j_create" => ~Satisfied(h, h \cap {Invite})
      BY <2>3, NotifyStartOK
    <3>4. codes' = codes \ {code}
      BY <2>3 DEF Spend
    <3>5. StepsRecorded(q)
      BY <3>1, <3>2, <3>3 DEF StepsRecorded, NotifyPC
    <3> QED BY <2>3, <3>1, <3>2, <3>4, <3>5
  <2>4. PICK offered \in SUBSET (Method \cap (Answered \cup {Invite})),
             code \in Code \cup {NoCode} :
          LET h == req[r].held \cup offered
              auto == req[r].auto \cup (Method \cap {"open"})
          IN  /\ code = NoCode <=> Invite \notin h
              /\ IF Eligible(h, auto) /\ (Invite \in h => code \in codes)
                 THEN /\ Spend(code)
                      /\ req' = [req EXCEPT
                           ![r].held = h, ![r].done = h \cap {Invite},
                           ![r].auto = auto, ![r].code = code,
                           ![r].pc = IF Satisfied(h, h \cap {Invite})
                                     THEN NotifyStart(h) ELSE "j_create"]
                 ELSE Finish(r) /\ UNCHANGED codes
    BY <1>5 DEF JoinAssemble
  <2> QED
    <3> DEFINE h == req[r].held \cup offered
               auto == req[r].auto \cup (Method \cap {"open"})
               pc == IF Satisfied(h, h \cap {Invite}) THEN NotifyStart(h) ELSE "j_create"
               q == [req[r] EXCEPT !.held = h, !.done = h \cap {Invite}, !.auto = auto,
                                   !.code = code, !.pc = pc]
    <3>1. CASE Eligible(h, auto) /\ (Invite \in h => code \in codes)
      <4>1. Spend(code) /\ req' = [req EXCEPT ![r] = q] /\ (code = NoCode <=> Invite \notin h)
        BY <2>4, <3>1
      <4> HIDE DEF h, auto
      <4> QED BY <1>5, <2>1, <2>3, <3>1, <4>1
    <3>2. CASE ~(Eligible(h, auto) /\ (Invite \in h => code \in codes))
      BY <2>2, <2>4, <3>2
    <3> QED BY <3>1, <3>2
<1>6. CASE JoinCreate(r)
  BY <1>6, FinishShape DEF JoinCreate
<1>7. CASE JoinCreateFails(r)
  BY <1>7, FinishShape DEF JoinCreateFails, Throw
<1> QED BY <1>1, <1>2, <1>3, <1>4, <1>5, <1>6, <1>7 DEF JoinStep

\* The points of a request that is none of a join's or of the ready path.
AsidePC == {"v_check", "v_plugin", "v_answer", "s_poll", "s_pass", "s_reject", "c_check",
            "p_record", "p_reject", "p_serve", "r_record", "r_scope", "r_answer"}

\* The steps of verify, status, provision and reconnect end the request or
\* keep it among them, with the code it does not have.
LEMMA AsideShape ==
  ASSUME TypeOK, NEW r \in Request, VerifyStep(r) \/ StatusStep(r) \/ ServeStep(r)
  PROVE  /\ req[r].pc \in AsidePC /\ UNCHANGED <<codes, steps, codeOf, held>>
         /\ \/ req'[r] = Idle
            \/ /\ req'[r].pc \in AsidePC /\ req'[r].op = req[r].op
               /\ req'[r].code = req[r].code
               /\ ServeStep(r) \/ req'[r].pc \in SessionPC
<1>0. req[r] \in RequestRecord /\ req \in [Request -> RequestRecord]
  BY DEF TypeOK
<1>1. CASE VerifyStep(r)
  <2>1. req'[r] = Idle \/ /\ req'[r].pc \in {"c_check", "v_plugin", "v_answer"}
                          /\ req'[r].op = req[r].op /\ req'[r].code = req[r].code
    <3>1. CASE VerifyCheck(r)
      BY <1>0, <3>1 DEF VerifyCheck, Finish, Goto, RequestRecord
    <3>2. CASE VerifyPlugin(r)
      BY <1>0, <3>2 DEF VerifyPlugin, Finish, Goto, RequestRecord
    <3>3. CASE VerifyAnswer(r)
      BY <1>0, <3>3 DEF VerifyAnswer, Finish, RequestRecord
    <3> QED BY <1>1, <3>1, <3>2, <3>3 DEF VerifyStep
  <2> QED BY <1>1, <2>1 DEF VerifyStep, VerifyCheck, VerifyPlugin, VerifyAnswer, AsidePC,
             SessionPC, VerifyPC, store, history
<1>2. CASE StatusStep(r)
  <2>1. req'[r] = Idle \/ /\ req'[r].pc \in {"c_check", "s_pass", "s_reject"}
                          /\ req'[r].op = req[r].op /\ req'[r].code = req[r].code
    <3>1. CASE StatusRecord(r)
      BY <1>0, <3>1 DEF StatusRecord, Goto, RequestRecord
    <3>2. CASE StatusPass(r)
      BY <1>0, <3>2 DEF StatusPass, RequestRecord
    <3>3. CASE StatusReject(r)
      BY <1>0, <3>3 DEF StatusReject, Finish
    <3> QED BY <1>2, <3>1, <3>2, <3>3 DEF StatusStep
  <2> QED BY <1>2, <2>1 DEF StatusStep, StatusRecord, StatusPass, StatusReject, AsidePC,
             SessionPC, store, history
<1>3. CASE ServeStep(r)
  <2>1. req'[r] = Idle \/ /\ req'[r].pc \in {"p_reject", "p_serve", "r_scope", "r_answer"}
                          /\ req'[r].op = req[r].op /\ req'[r].code = req[r].code
    <3>1. CASE ProvisionRecord(r) \/ ProvisionReject(r) \/ ProvisionServe(r)
      BY <1>0, <3>1
         DEF ProvisionRecord, ProvisionReject, ProvisionServe, Finish, Goto, RequestRecord
    <3>2. CASE ReconnectRecord(r)
      BY <1>0, <3>2 DEF ReconnectRecord, Finish, Goto, RequestRecord
    <3>3. CASE ReconnectScope(r)
      BY <1>0, <3>3 DEF ReconnectScope, Finish, RequestRecord
    <3>4. CASE ReconnectAnswer(r)
      BY <1>0, <3>4 DEF ReconnectAnswer, Finish
    <3> QED BY <1>3, <3>1, <3>2, <3>3, <3>4 DEF ServeStep
  <2> QED BY <1>3, <2>1 DEF ServeStep, ProvisionRecord, ProvisionReject, ProvisionServe,
             ReconnectRecord, ReconnectScope, ReconnectAnswer, AsidePC, store, history
<1> QED BY <1>1, <1>2, <1>3

\* A request that has read its session starts on it, without a code.
LEMMA ReadingShape ==
  ASSUME TypeOK, NEW r \in Request, NEW s, NEW m, NEW x,
         Resume(r, s) \/ Verify(r, s, m, x) \/ StatusPoll(r, s)
  PROVE  req'[r].pc \in {"s_poll", "c_check", "v_check"} /\ req'[r].code = NoCode
<1>1. ASSUME NEW u, NEW op, NEW pc \in {"s_poll", "c_check", "v_check"},
             \/ req' = [req EXCEPT ![r] = Reading(u, op, pc)]
             \/ req' = [req EXCEPT ![r] = [Reading(u, op, pc) EXCEPT !.method = m, !.right = x]]
      PROVE  req'[r].pc = pc /\ req'[r].code = NoCode
  <2>1. PICK q : q = Reading(u, op, pc)
    OBVIOUS
  <2>2. /\ q.code = NoCode /\ q.pc = pc
        /\ [q EXCEPT !.method = m, !.right = x].pc = pc
        /\ [q EXCEPT !.method = m, !.right = x].code = NoCode
    BY <2>1 DEF Reading, Idle
  <2> QED BY <1>1, <2>1, <2>2 DEF TypeOK
<1>2. CASE Resume(r, s)
  BY <1>1, <1>2 DEF Resume
<1>3. CASE Verify(r, s, m, x)
  BY <1>1, <1>3 DEF Verify
<1>4. CASE StatusPoll(r, s)
  <2>1. PICK pc \in {"s_poll", "c_check"} : req' = [req EXCEPT ![r] = Reading(s, "status", pc)]
    BY <1>4 DEF StatusPoll
  <2> QED BY <1>1, <2>1
<1> QED BY <1>2, <1>3, <1>4

\* A request that has just arrived carries no code, has asked no plugin and
\* relies on no ready step.
LEMMA ArriveShape ==
  ASSUME TypeOK, NEW r \in Request, Arrive(r)
  PROVE  /\ req[r].pc = "idle" /\ req'[r].code = NoCode
         /\ req'[r].pc \notin {"v_plugin", "r_answer", "p_reject"}
         /\ StepsRecorded(req'[r])
         /\ \A t \in Request \ {r} : req'[t] = req[t]
         /\ UNCHANGED <<held, done, tries, codes, record, passed, steps, evals, codeOf>>
         /\ NoteBlocked(r) \/ UNCHANGED barred
<1>0. req \in [Request -> RequestRecord]
  BY DEF TypeOK
<1>1. ASSUME NEW n \in Network, NEW op \in {"join", "delegated"}, Join(r, n, op)
      PROVE  req'[r].code = NoCode /\ StepsRecorded(req'[r])
             /\ req'[r].pc \notin {"v_plugin", "r_answer", "p_reject"}
  <2>1. PICK c, auto, pc : /\ pc \in {"j_delete", JoinStart(op)}
                           /\ req' = [req EXCEPT ![r] =
                                [Idle EXCEPT !.op = op, !.net = n, !.sid = c,
                                   !.auto = auto, !.pc = pc]]
    BY <1>1 DEF Join
  <2>2. req'[r].code = NoCode /\ req'[r].pc = pc
    BY <1>0, <2>1 DEF Idle
  <2>3. /\ JoinStart(op) \in {"j_record", "j_assemble", "n_get", "n_link", "n_verified"}
        /\ JoinStart(op) = "n_link" => HcAuth = "off"
    BY DEF JoinStart, NotifyStart
  <2> QED BY <2>1, <2>2, <2>3 DEF StepsRecorded
<1>3. ASSUME NEW s, Provision(r, s)
      PROVE  req'[r].code = NoCode /\ StepsRecorded(req'[r])
             /\ req'[r].pc \notin {"v_plugin", "r_answer", "p_reject"}
  <2>1. req'[r].code = NoCode /\ req'[r].pc \in {"p_record", "p_serve"}
    BY <1>0, <1>3 DEF Provision, Idle
  <2> QED BY <2>1 DEF StepsRecorded
<1>4. ASSUME NEW n, Reconnect(r, n)
      PROVE  req'[r].code = NoCode /\ StepsRecorded(req'[r])
             /\ req'[r].pc \notin {"v_plugin", "r_answer", "p_reject"}
  <2>1. req'[r].code = NoCode /\ req'[r].pc \in {"r_record", "r_scope"}
    BY <1>0, <1>4 DEF Reconnect, Idle
  <2> QED BY <2>1 DEF StepsRecorded
<1>5. /\ req[r].pc = "idle" /\ \A t \in Request \ {r} : req'[t] = req[t]
      /\ UNCHANGED <<held, done, tries, codes, record, passed, steps, evals, codeOf>>
      /\ NoteBlocked(r) \/ UNCHANGED barred
  BY <1>0 DEF Arrive, Join, Resume, Reconnect, Verify, StatusPoll, Provision, store, history
<1>2. ASSUME NEW s, NEW m, NEW x, Resume(r, s) \/ Verify(r, s, m, x) \/ StatusPoll(r, s)
      PROVE  req'[r].code = NoCode /\ StepsRecorded(req'[r])
             /\ req'[r].pc \notin {"v_plugin", "r_answer", "p_reject"}
  BY <1>2, ReadingShape DEF StepsRecorded
<1> QED BY <1>1, <1>2, <1>3, <1>4, <1>5 DEF Arrive

\* What a step other than a creation or a completion may do to the sessions:
\* it drops one, or rejects it.
Lost ==
    \A u \in Sid : \/ status'[u] = status[u]
                   \/ status[u] \in Status /\ status'[u] \in {"gone", "rejected"}

\* Removing a session, or keeping its status, only loses one.
LEMMA RemoveLost ==
  ASSUME TypeOK, NEW s, Remove(s) \/ KeepStatus(s) \/ SetStatus(s, "rejected")
  PROVE  Lost
BY DEF Remove, KeepStatus, SetStatus, Updatable, Lost, TypeOK, Stored

\* A lookup prunes at most the session it looked at.
LEMMA ArriveLost ==
  ASSUME TypeOK, NEW r \in Request, Arrive(r)
  PROVE  Lost
<1>1. ASSUME NEW n, PruneCandidate(n)
      PROVE  Lost
  BY <1>1, RemoveLost DEF PruneCandidate
<1>2. UNCHANGED status => Lost
  BY DEF Lost
<1> QED BY <1>1, <1>2 DEF Arrive, Join, Resume, Reconnect, Verify, StatusPoll, Provision, store

\* A session is made, or made ready, by two actions only.
LEMMA StepLost ==
  ASSUME TypeOK, NEW r \in Request, Step(r), ~JoinCreate(r), ~MakeReady(r)
  PROVE  Lost /\ UNCHANGED <<steps, codeOf, held>>
<1>0. UNCHANGED status => Lost
  BY DEF Lost
<1>1. JoinStep(r) => Lost /\ UNCHANGED <<steps, codeOf, held>>
  BY <1>0, RemoveLost DEF JoinStep, JoinDelete, JoinRecord, JoinRequestAuth, JoinRefused,
     JoinAssemble, JoinCreateFails, store, history
<1>2. ReadyPathStep(r) => Lost /\ UNCHANGED <<steps, codeOf, held>>
  BY <1>0 DEF ReadyPathStep, Complete, NotifyGet, NotifyRequest, NotifyTransition,
     NotifyVerified, NotifyLinkers, store, history
<1>3. ASSUME NEW n, PruneCandidate(n)
      PROVE  Lost
  BY <1>3, RemoveLost DEF PruneCandidate
<1>4. VerifyStep(r) \/ StatusStep(r) => Lost
  BY <1>0, RemoveLost DEF VerifyStep, VerifyCheck, VerifyPlugin, VerifyAnswer, StatusStep,
     StatusRecord, StatusPass, StatusReject, store
<1>5. ServeStep(r) => Lost
  BY <1>0, <1>3, RemoveLost DEF ServeStep, ProvisionRecord, ProvisionReject, ProvisionServe,
     ReconnectRecord, ReconnectScope, ReconnectAnswer, store
<1> QED BY <1>1, <1>2, <1>4, <1>5, AsideShape DEF Step

\* What happens around the handlers loses sessions only, and ends requests.
LEMMA OutsideLost ==
  ASSUME TypeOK, \/ Wait \/ UNCHANGED vars \/ Approve \/ Block \/ Unblock
                 \/ (\E s \in Sid : Age(s) \/ PruneExpired(s)) \/ Restart
  PROVE  /\ Lost /\ UNCHANGED <<held, tries, steps, evals, codeOf>>
         /\ \/ UNCHANGED <<req, codes>>
            \/ req' = [r \in Request |-> Idle] /\ codes' = Code /\ Restart
<1>0. UNCHANGED status => Lost
  BY DEF Lost
<1>1. CASE Wait \/ UNCHANGED vars
  BY <1>0, <1>1 DEF Wait, vars, store, history
<1>2. CASE Approve \/ Block \/ Unblock
  BY <1>0, <1>2 DEF Approve, Block, Unblock, Operator, store
<1>3. ASSUME NEW s \in Sid, Age(s) \/ PruneExpired(s)
      PROVE  /\ Lost /\ UNCHANGED <<held, tries, steps, evals, codeOf>>
             /\ UNCHANGED <<req, codes>>
  BY <1>0, <1>3, RemoveLost DEF Age, PruneExpired, history
<1>4. CASE Restart
  BY <1>4 DEF Restart, Lost, Stored, TypeOK
<1> QED BY <1>1, <1>2, <1>3, <1>4

-----------------------------------------------------------------------------
(* A ready session has the required ready steps.                           *)

\* It is kept by a step that makes no session ready but on recorded steps.
LEMMA StepsKept ==
  ASSUME StepsInv, NEW r \in Request, StepsRecorded(req'[r]),
         \A t \in Request \ {r} : req'[t] = req[t],
         \A s \in Sid : status'[s] = "ready" =>
             (status[s] = "ready" /\ steps'[s] = steps[s]) \/ StepsRan(steps'[s])
  PROVE  StepsInv'
<1>1. ReadyStepsRan'
  BY DEF StepsInv, ReadyStepsRan, StepsRan
<1>2. ASSUME NEW t \in Request
      PROVE  StepsRecorded(req'[t])
  BY DEF StepsInv
<1>3. (\A t \in Request : StepsRecorded(req[t]))'
  BY <1>2 DEF StepsRecorded, StepsRan, Satisfied
<1> QED BY <1>1, <1>3 DEF StepsInv

\* A free slot relies on no step.
LEMMA IdleSteps == StepsRecorded(Idle)
BY DEF StepsRecorded, Idle

\* Every step keeps what requests have recorded of the ready steps.
LEMMA StepsInvKept ==
  ASSUME TypeOK, ControlOK, StepsInv, [Next]_vars
  PROVE  StepsInv'
<1>1. ASSUME NEW r \in Request, Arrive(r)
      PROVE  StepsInv'
  <2>1. \A s \in Sid : status'[s] = "ready" => status[s] = "ready" /\ steps'[s] = steps[s]
    BY <1>1, ArriveLost, ArriveShape DEF Lost
  <2> QED BY <1>1, <2>1, ArriveShape, StepsKept
<1>2. ASSUME NEW r \in Request, Step(r)
      PROVE  StepsInv'
  <2>1. \A t \in Request \ {r} : req'[t] = req[t]
    BY <1>2, OthersKept
  <2>2. StepsRecorded(req'[r])
    <3>1. req'[r].pc \in AsidePC => StepsRecorded(req'[r])
      BY DEF AsidePC, StepsRecorded
    <3>2. StepsRecorded(req[r])
      BY DEF StepsInv
    <3> QED BY <1>2, <3>1, <3>2, IdleSteps, JoinShape, ReadyPathShape, AsideShape DEF Step
  <2>3. CASE JoinCreate(r)
    <3>1. PICK u \in Sid : Create(u, req[r])
      BY <2>3 DEF JoinCreate
    <3>2. ASSUME NEW s \in Sid, s # u, status'[s] = "ready"
          PROVE  status[s] = "ready" /\ steps'[s] = steps[s]
      BY <3>1, <3>2 DEF Create, TypeOK
    <3>3. status'[u] = "ready" => StepsRan(steps'[u])
      BY <2>3, <3>1 DEF Create, TypeOK, JoinCreate, StepsInv, StepsRecorded
    <3> QED BY <2>1, <2>2, <3>2, <3>3, StepsKept
  <2>4. CASE MakeReady(r)
    <3>1. StepsRan(req[r].steps)
      BY <2>4 DEF MakeReady, StepsInv, StepsRecorded
    <3>2. ASSUME NEW s \in Sid, status'[s] = "ready"
          PROVE  (status[s] = "ready" /\ steps'[s] = steps[s]) \/ StepsRan(steps'[s])
      BY <2>4, <3>1, <3>2 DEF MakeReady, SetStatus, Remove, TypeOK
    <3> QED BY <2>1, <2>2, <3>2, StepsKept
  <2>5. CASE ~JoinCreate(r) /\ ~MakeReady(r)
    <3>1. \A s \in Sid : status'[s] = "ready" => status[s] = "ready" /\ steps'[s] = steps[s]
      BY <1>2, <2>5, StepLost DEF Lost
    <3> QED BY <2>1, <2>2, <3>1, StepsKept
  <2> QED BY <2>3, <2>4, <2>5
<1>3. CASE \/ Wait \/ UNCHANGED vars \/ Approve \/ Block \/ Unblock
           \/ (\E s \in Sid : Age(s) \/ PruneExpired(s)) \/ Restart
  <2>1. ReadyStepsRan'
    BY <1>3, OutsideLost DEF Lost, StepsInv, ReadyStepsRan
  <2>2. (\A r \in Request : StepsRecorded(req[r]))'
    BY <1>3, OutsideLost, IdleSteps DEF StepsInv, StepsRecorded, StepsRan, Satisfied
  <2> QED BY <2>1, <2>2 DEF StepsInv
<1> QED BY <1>1, <1>2, <1>3 DEF Next

\* Where hc-auth or the linkers are required, no session is ready for which
\* their step did not succeed first (notifyReady in app.ts), in every
\* configuration, under every interleaving, over restarts and lost sessions.
THEOREM StepsBeforeReady == Spec => []ReadyStepsRan
<1>1. Init => StepsInv
  BY IdleSteps DEF Init, StepsInv, ReadyStepsRan
<1>2. TypeOK /\ ControlOK /\ StepsInv /\ [Next]_vars => StepsInv'
  BY StepsInvKept
<1>3. StepsInv => ReadyStepsRan
  BY DEF StepsInv
<1> QED BY <1>1, <1>2, <1>3, TypeCorrect, PTL DEF Spec

-----------------------------------------------------------------------------
(* What a request blocked from its start has looked at.                    *)

ServePC == {"p_record", "p_reject", "p_serve", "r_scope", "r_answer"}

\* A request that claims nothing about the record.
LEMMA NotServing ==
  ASSUME NEW r \in Request, req'[r].pc \notin ServePC
  PROVE  LookedAt(r)'
BY DEF LookedAt, ServePC

\* A request left alone keeps what it has looked at: no session becomes
\* unborn again, the challenges of one that is born stay, and nobody else
\* notes it as blocked.
LEMMA LookedAtKept ==
  ASSUME NEW r \in Request, LookedAt(r), req'[r] = req[r], r \in barred' => r \in barred,
         \A s \in Sid : status[s] # "unborn" => status'[s] # "unborn" /\ held'[s] = held[s]
  PROVE  LookedAt(r)'
BY DEF LookedAt

\* Losing sessions unmakes none.
LEMMA LostBorn ==
  ASSUME Lost, UNCHANGED held
  PROVE  \A s \in Sid : status[s] # "unborn" => status'[s] # "unborn" /\ held'[s] = held[s]
BY DEF Lost

\* The steps that take a request past its look at the record.
LEMMA ServeLooked ==
  ASSUME TypeOK, BarredInv, NEW r \in Request, ServeStep(r)
  PROVE  LookedAt(r)'
<1>0. req \in [Request -> RequestRecord] /\ req[r] \in RequestRecord
  BY DEF TypeOK
<1>1. \A s \in Sid : status[s] # "unborn" => status'[s] # "unborn" /\ held'[s] = held[s]
  <2>1. Lost /\ UNCHANGED held
    <3>1. ~JoinCreate(r) /\ ~MakeReady(r)
      BY DEF ServeStep, ProvisionRecord, ProvisionReject, ProvisionServe, ReconnectRecord,
             ReconnectScope, ReconnectAnswer, JoinCreate, MakeReady
    <3> QED BY <3>1, StepLost DEF Step
  <2> QED BY <2>1, LostBorn
<1>2. LookedAt(r) /\ (r \in barred => record = "blocked") /\ UNCHANGED barred
  BY DEF BarredInv, ServeStep, ProvisionRecord, ProvisionReject, ProvisionServe,
         ReconnectRecord, ReconnectScope, ReconnectAnswer, history
<1>3. CASE ProvisionRecord(r)
  <2>1. \/ req'[r] = Idle
        \/ /\ req'[r].pc \in {"p_reject", "p_serve"} /\ req'[r].sid = req[r].sid
           /\ req'[r].pc = "p_serve" => record # "blocked" \/ HcAuth # "required"
    BY <1>0, <1>3 DEF ProvisionRecord, Finish, Goto, RequestRecord
  <2>2. req[r].sid \in Sid /\ status[req[r].sid] # "unborn"
    BY <1>2, <1>3 DEF ProvisionRecord, LookedAt
  <2> QED BY <1>1, <1>2, <2>1, <2>2 DEF LookedAt, Idle
<1>4. CASE ReconnectRecord(r)
  <2>1. \/ req'[r] = Idle
        \/ /\ req'[r].pc = "r_scope"
           /\ record # "blocked" \/ HcAuth # "required"
    BY <1>0, <1>4 DEF ReconnectRecord, Finish, Goto, RequestRecord
  <2> QED BY <1>2, <2>1 DEF LookedAt, Idle
<1>5. CASE ReconnectScope(r)
  <2>1. req'[r] = Idle \/ req'[r].pc = "r_answer"
    BY <1>0, <1>5 DEF ReconnectScope, Finish, RequestRecord
  <2>2. ~(HcAuth = "required" /\ r \in barred)
    BY <1>2, <1>5 DEF ReconnectScope, LookedAt
  <2> QED BY <1>2, <2>1, <2>2 DEF LookedAt, Idle
<1>6. CASE ProvisionReject(r) \/ ProvisionServe(r) \/ ReconnectAnswer(r)
  BY <1>6, FinishShape, NotServing
     DEF ProvisionReject, ProvisionServe, ReconnectAnswer, Idle, ServePC
<1> QED BY <1>3, <1>4, <1>5, <1>6 DEF ServeStep

\* Requests that arrive have looked at nothing, or at a session that never had
\* an approval challenge.
LEMMA ArriveLooked ==
  ASSUME TypeOK, BarredInv, NEW r \in Request, Arrive(r)
  PROVE  LookedAt(r)'
<1>0. req \in [Request -> RequestRecord]
  BY DEF TypeOK
<1>1. ASSUME NEW n \in Network, NEW op \in {"join", "delegated"}, Join(r, n, op)
      PROVE  req'[r].pc \notin ServePC
  <2>1. req'[r].pc \in {"j_delete", JoinStart(op)}
    BY <1>0, <1>1 DEF Join, Idle
  <2> QED BY <2>1, JoinStartOK DEF ServePC, JoinOp
<1>2. ASSUME NEW s, NEW m, NEW x, Resume(r, s) \/ Verify(r, s, m, x) \/ StatusPoll(r, s)
      PROVE  req'[r].pc \notin ServePC
  BY <1>2, ReadingShape DEF ServePC
<1>3. ASSUME NEW s \in Sid, Provision(r, s)
      PROVE  LookedAt(r)'
  <2>1. /\ req'[r].sid = s /\ req'[r].pc \in {"p_record", "p_serve"}
        /\ req'[r].pc = "p_serve" => HcAuth = "off" \/ Approval \notin held[s]
    BY <1>0, <1>3 DEF Provision, Idle
  <2>2. status'[s] # "unborn" /\ held' = held
    BY <1>3 DEF Provision, Live, Stored, store, Status
  <2> QED BY <2>1, <2>2 DEF LookedAt
<1>4. ASSUME NEW n, Reconnect(r, n)
      PROVE  LookedAt(r)'
  <2>1. req'[r].pc \in {"r_record", "r_scope"} /\ (req'[r].pc = "r_scope" => HcAuth = "off")
    BY <1>0, <1>4 DEF Reconnect, Idle
  <2> QED BY <2>1 DEF LookedAt
<1> QED BY <1>1, <1>2, <1>3, <1>4, NotServing DEF Arrive

\* Every step keeps that a barred request has not passed the look at the record.
LEMMA BarredInvKept ==
  ASSUME TypeOK, ControlOK, BarredInv, [Next]_vars
  PROVE  BarredInv'
<1> DEFINE Born == \A s \in Sid : status[s] # "unborn" =>
                                     status'[s] # "unborn" /\ held'[s] = held[s]
<1>1. ASSUME NEW r \in Request, Arrive(r)
      PROVE  BarredInv'
  <2>1. Born
    BY <1>1, ArriveLost, ArriveShape, LostBorn
  <2>2. /\ record' = record /\ (barred' # {} => record = "blocked")
        /\ \A t \in Request \ {r} : t \in barred' => t \in barred
    BY <1>1, ArriveShape DEF NoteBlocked, BarredInv
  <2>3. \A t \in Request \ {r} : LookedAt(t)'
    BY <1>1, <2>1, <2>2, ArriveShape, LookedAtKept DEF BarredInv
  <2>4. LookedAt(r)'
    BY <1>1, ArriveLooked
  <2> QED BY <2>2, <2>3, <2>4 DEF BarredInv
<1>2. ASSUME NEW r \in Request, Step(r)
      PROVE  BarredInv'
  <2>1. Born
    <3>1. CASE JoinCreate(r)
      BY <3>1 DEF JoinCreate, Create, TypeOK
    <3>2. CASE MakeReady(r)
      BY <3>2 DEF MakeReady, SetStatus, Remove, TypeOK
    <3> QED BY <1>2, <3>1, <3>2, StepLost, LostBorn
  <2>2. barred' \subseteq barred /\ (barred' # {} => record' = "blocked")
    <3>1. JoinStep(r) => barred' = barred /\ (record' = record \/ record = "none")
      BY DEF JoinStep, JoinDelete, JoinRecord, JoinRequestAuth, JoinRefused, JoinAssemble,
             JoinCreate, JoinCreateFails, RequestAuth, history
    <3>2. ReadyPathStep(r) => \/ barred' = {}
                              \/ barred' = barred /\ (record' = record \/ record = "none")
      BY DEF ReadyPathStep, Complete, NotifyGet, NotifyRequest, NotifyTransition,
             NotifyVerified, NotifyLinkers, MakeReady, RequestAuth, history
    <3>3. VerifyStep(r) \/ StatusStep(r) \/ ServeStep(r) => barred' = barred /\ record' = record
      BY DEF VerifyStep, VerifyCheck, VerifyPlugin, VerifyAnswer, StatusStep, StatusRecord,
             StatusPass, StatusReject, ServeStep, ProvisionRecord, ProvisionReject,
             ProvisionServe, ReconnectRecord, ReconnectScope, ReconnectAnswer, history
    <3> QED BY <1>2, <3>1, <3>2, <3>3 DEF Step, BarredInv
  <2>3. \A t \in Request \ {r} : LookedAt(t)'
    BY <1>2, <2>1, <2>2, OthersKept, LookedAtKept DEF BarredInv
  <2>4. LookedAt(r)'
    <3>1. CASE ServeStep(r)
      BY <3>1, ServeLooked
    <3>2. CASE JoinStep(r) \/ ReadyPathStep(r) \/ VerifyStep(r) \/ StatusStep(r)
      <4>1. req'[r].pc \in {"idle"} \cup JoinPC \cup NotifyPC \cup SessionPC \/ ServeStep(r)
        BY <3>2, JoinShape, ReadyPathShape, AsideShape
           DEF Idle, JoinPC, NotifyPC, SessionPC, VerifyPC
      <4> QED BY <3>1, <4>1, NotServing
              DEF ServePC, JoinPC, NotifyPC, SessionPC, VerifyPC
    <3> QED BY <1>2, <3>1, <3>2 DEF Step
  <2> QED BY <2>2, <2>3, <2>4 DEF BarredInv
<1>3. CASE \/ Wait \/ UNCHANGED vars \/ Approve \/ Block \/ Unblock
           \/ (\E s \in Sid : Age(s) \/ PruneExpired(s)) \/ Restart
  <2>1. Born
    BY <1>3, OutsideLost, LostBorn
  <2>2. barred' \subseteq barred /\ (barred' # {} => record' = "blocked")
    BY <1>3 DEF BarredInv, Wait, vars, history, Approve, Block, Unblock, Operator, Age,
                PruneExpired, Restart
  <2>3. CASE UNCHANGED req
    BY <2>1, <2>2, <2>3, LookedAtKept DEF BarredInv
  <2>4. CASE req' = [r \in Request |-> Idle]
    BY <2>2, <2>4, NotServing DEF BarredInv, Idle, ServePC
  <2> QED BY <1>3, <2>3, <2>4, OutsideLost
<1> QED BY <1>1, <1>2, <1>3 DEF Next

\* With hc_auth required, no request all through which the agent was blocked
\* gets a provision of a session that went through an approval challenge
\* (the re-check of GET .../provision in app.ts).
THEOREM RevokedNotProvisioned == Spec => BlockedNotProvisioned
<1>1. Init => BarredInv
  BY DEF Init, BarredInv, LookedAt, Idle
<1>2. TypeOK /\ ControlOK /\ BarredInv /\ [Next]_vars => BarredInv'
  BY BarredInvKept
<1>3. BarredInv => \A r \in Request : ProvisionServe(r) /\ HcAuth = "required"
        /\ Approval \in held[req[r].sid] => r \notin barred
  BY DEF BarredInv, LookedAt, ProvisionServe
<1> QED BY <1>1, <1>2, <1>3, TypeCorrect, PTL DEF Spec, BlockedNotProvisioned

\* Nor does such a request get linker URLs from POST /v1/reconnect.
THEOREM RevokedNotReconnected == Spec => BlockedNotReconnected
<1>1. Init => BarredInv
  BY DEF Init, BarredInv, LookedAt, Idle
<1>2. TypeOK /\ ControlOK /\ BarredInv /\ [Next]_vars => BarredInv'
  BY BarredInvKept
<1>3. BarredInv => \A r \in Request :
        ReconnectAnswer(r) /\ HcAuth = "required" => r \notin barred
  BY DEF BarredInv, LookedAt, ReconnectAnswer
<1> QED BY <1>1, <1>2, <1>3, TypeCorrect, PTL DEF Spec, BlockedNotReconnected

-----------------------------------------------------------------------------
(* Where an invite code is.                                                *)

\* The four things a step of a request does with the codes: nothing, ending
\* with its own given back, spending one, or leaving it to a session.
CodeStays(r) ==
    /\ req'[r].code = req[r].code /\ UNCHANGED <<codes, codeOf>>
CodeBack(r) ==
    /\ req'[r].code = NoCode /\ codes' = codes \cup (Code \cap {req[r].code})
    /\ UNCHANGED codeOf
CodeSpent(r) ==
    /\ req[r].code = NoCode /\ req'[r].code \in codes \cup {NoCode}
    /\ codes' = codes \ {req'[r].code} /\ UNCHANGED codeOf
CodeLeft(r, u) ==
    /\ req'[r].code = NoCode /\ UNCHANGED codes
    /\ codeOf' = [codeOf EXCEPT ![u] = req[r].code] /\ status[u] = "unborn"

\* It is one of them for every step, and the request carries a code only where
\* a join does.
LEMMA CodeMoves ==
  ASSUME TypeOK, ControlOK, NEW r \in Request, CarriesCode(req[r]), Arrive(r) \/ Step(r)
  PROVE  /\ CarriesCode(req'[r]) /\ \A t \in Request \ {r} : req'[t] = req[t]
         /\ \A u \in Sid : status'[u] = "unborn" => status[u] = "unborn" /\ codeOf'[u] = codeOf[u]
         /\ CodeStays(r) \/ CodeBack(r) \/ CodeSpent(r) \/ \E u \in Sid : CodeLeft(r, u)
<1>0. Control(req[r]) /\ NoCode \notin Code
  BY ConfigAssumption DEF ControlOK
<1>1. CASE Arrive(r)
  <2>1. req[r].code = NoCode
    BY <1>1, ArriveShape DEF CarriesCode, NotifyPC
  <2>2. CodeBack(r)
    BY <1>0, <1>1, <2>1, ArriveShape DEF CodeBack
  <2> QED BY <1>1, <2>2, ArriveShape, ArriveLost DEF CarriesCode, Lost, Status
<1>2. CASE Step(r) /\ ~JoinCreate(r) /\ ~MakeReady(r)
  <2>1. /\ \A t \in Request \ {r} : req'[t] = req[t]
        /\ \A u \in Sid : status'[u] = "unborn" => status[u] = "unborn"
        /\ UNCHANGED codeOf
    BY <1>2, OthersKept, StepLost DEF Lost, Status
  <2>2. CarriesCode(Idle) /\ Idle.code = NoCode
    BY DEF CarriesCode, Idle
  <2>3. CASE JoinStep(r)
    <3>1. req[r].pc \in {"j_delete", "j_record", "j_request", "j_assemble"} => req[r].code = NoCode
      BY DEF CarriesCode, NotifyPC
    <3>2. CASE JoinCreateFails(r) /\ req'[r] = Idle
      BY <2>1, <2>2, <3>2 DEF JoinCreateFails, Throw, CodeBack
    <3>3. CASE /\ req'[r] = Idle /\ UNCHANGED codes
               /\ req[r].pc \in {"j_record", "j_request", "j_assemble"}
      BY <1>0, <2>1, <2>2, <3>1, <3>3 DEF CodeBack
    <3>4. CASE /\ UNCHANGED codes /\ req'[r].code = req[r].code
               /\ req[r].pc \in {"j_delete", "j_record", "j_request"}
      BY <2>1, <3>1, <3>4 DEF CodeStays, CarriesCode
    <3>5. CASE /\ JoinAssemble(r) /\ req[r].op \in JoinOp /\ req'[r].op = req[r].op
               /\ req'[r].code \in codes \cup {NoCode} /\ codes' = codes \ {req'[r].code}
               /\ req'[r].pc \in NotifyPC \cup {"j_create"}
      <4>1. req[r].code = NoCode
        BY <3>1, <3>5 DEF JoinAssemble
      <4> QED BY <2>1, <3>5, <4>1 DEF CodeSpent, CarriesCode
    <3> QED BY <1>2, <2>3, <3>2, <3>3, <3>4, <3>5, JoinShape
  <2>4. CASE ReadyPathStep(r)
    <3>1. CASE req'[r] = Idle /\ Throw(r)
      BY <2>1, <2>2, <3>1 DEF Throw, CodeBack
    <3>2. CASE /\ req'[r] = Idle /\ UNCHANGED codes /\ req[r].pc \in {"c_check", "c_ready"}
      <4>1. req[r].code = NoCode
        BY <3>2 DEF CarriesCode, NotifyPC
      <4> QED BY <1>0, <2>1, <2>2, <3>2, <4>1 DEF CodeBack
    <3>3. CASE /\ UNCHANGED codes /\ Along(req[r], req'[r])
               /\ req'[r].pc \in NotifyPC \cup {"j_create", "c_ready"}
               /\ req'[r].pc = "c_ready" => req[r].op \notin JoinOp
      BY <2>1, <3>3 DEF CodeStays, CarriesCode, Along
    <3> QED BY <2>4, <3>1, <3>2, <3>3, ReadyPathShape
  <2>5. CASE VerifyStep(r) \/ StatusStep(r) \/ ServeStep(r)
    <3>1. req[r].code = NoCode
      BY <2>5, AsideShape DEF CarriesCode, AsidePC, NotifyPC
    <3>2. req'[r].code = NoCode /\ UNCHANGED codes
      BY <2>2, <2>5, <3>1, AsideShape
    <3> QED BY <2>1, <3>1, <3>2 DEF CodeStays, CarriesCode
  <2> QED BY <1>2, <2>3, <2>4, <2>5 DEF Step
<1>3. CASE JoinCreate(r)
  <2>1. PICK u \in Sid : Create(u, req[r]) /\ status[u] = "unborn"
    BY <1>3 DEF JoinCreate
  <2>2. req'[r] = Idle /\ \A t \in Request \ {r} : req'[t] = req[t]
    BY <1>3, FinishShape DEF JoinCreate
  <2>3. CodeLeft(r, u)
    <3>1. req'[r].code = NoCode
      BY <2>2 DEF Idle
    <3>2. UNCHANGED codes /\ codeOf' = [codeOf EXCEPT ![u] = req[r].code]
      BY <1>3, <2>1 DEF JoinCreate, Create
    <3> QED BY <2>1, <3>1, <3>2 DEF CodeLeft
  <2>4. \A v \in Sid : status'[v] = "unborn" => status[v] = "unborn" /\ codeOf'[v] = codeOf[v]
    BY <2>1 DEF Create, TypeOK
  <2> QED BY <2>2, <2>3, <2>4 DEF CarriesCode, Idle
<1>4. CASE MakeReady(r)
  <2>1. req'[r] = Idle /\ UNCHANGED <<codes, codeOf>> /\ req[r].code = NoCode
    BY <1>4, FinishShape DEF MakeReady, CarriesCode, NotifyPC
  <2>2. \A v \in Sid : status'[v] = "unborn" => status[v] = "unborn"
    BY <1>4 DEF MakeReady, SetStatus, Remove, TypeOK
  <2>3. \A t \in Request \ {r} : req'[t] = req[t]
    BY <1>4, FinishShape DEF MakeReady
  <2> QED BY <2>1, <2>2, <2>3 DEF CodeStays, CarriesCode, Idle
<1> QED BY <1>1, <1>2, <1>3, <1>4

\* Every step keeps each spent code with a request or a session.
LEMMA CodesKeptKept ==
  ASSUME TypeOK, ControlOK, CodesKept, [Next]_vars
  PROVE  CodesKept'
<1>0. NoCode \notin Code
  BY ConfigAssumption
<1>1. ASSUME NEW r \in Request, Arrive(r) \/ Step(r)
      PROVE  CodesKept'
  <2>1. /\ CarriesCode(req'[r]) /\ \A t \in Request \ {r} : req'[t] = req[t]
        /\ \A u \in Sid : status'[u] = "unborn" => status[u] = "unborn" /\ codeOf'[u] = codeOf[u]
        /\ CodeStays(r) \/ CodeBack(r) \/ CodeSpent(r) \/ \E u \in Sid : CodeLeft(r, u)
    BY <1>1, CodeMoves DEF CodesKept
  <2>2. \A t \in Request : CarriesCode(req'[t])
    BY <2>1 DEF CodesKept
  <2>3. \A u \in Sid : status'[u] = "unborn" => codeOf'[u] = NoCode
    BY <2>1 DEF CodesKept
  <2>4. ASSUME NEW c \in Code \ codes'
        PROVE  (\E s \in Sid : codeOf'[s] = c) \/ (\E t \in Request : req'[t].code = c)
    <3>1. c \notin codes => (\E s \in Sid : codeOf[s] = c) \/ (\E t \in Request : req[t].code = c)
      BY <2>4 DEF CodesKept, InviteNotLost
    <3>2. CASE CodeStays(r) \/ CodeBack(r) \/ CodeSpent(r)
      BY <1>0, <2>1, <2>4, <3>1, <3>2 DEF CodeStays, CodeBack, CodeSpent
    <3>3. ASSUME NEW u \in Sid, CodeLeft(r, u)
          PROVE  (\E s \in Sid : codeOf'[s] = c) \/ (\E t \in Request : req'[t].code = c)
      <4>1. codeOf[u] = NoCode /\ codeOf \in [Sid -> Code \cup {NoCode}]
        BY <3>3 DEF CodesKept, CodeLeft, TypeOK
      <4> QED BY <1>0, <2>1, <2>4, <3>1, <3>3, <4>1 DEF CodeLeft
    <3> QED BY <2>1, <3>2, <3>3
  <2>5. (\A t \in Request : CarriesCode(req[t]))'
    BY <2>2 DEF CarriesCode
  <2> QED BY <2>3, <2>4, <2>5 DEF CodesKept, InviteNotLost
<1>2. CASE \/ Wait \/ UNCHANGED vars \/ Approve \/ Block \/ Unblock
           \/ (\E s \in Sid : Age(s) \/ PruneExpired(s)) \/ Restart
  <2>1. \A u \in Sid : status'[u] = "unborn" => codeOf'[u] = NoCode
    BY <1>2, OutsideLost DEF Lost, CodesKept, Status
  <2>2. CASE UNCHANGED <<req, codes>>
    BY <1>2, <2>1, <2>2, OutsideLost DEF CodesKept, CarriesCode, InviteNotLost
  <2>3. CASE req' = [r \in Request |-> Idle] /\ codes' = Code
    BY <2>1, <2>3 DEF CodesKept, CarriesCode, InviteNotLost, Idle
  <2> QED BY <1>2, <2>2, <2>3, OutsideLost
<1> QED BY <1>1, <1>2 DEF Next

\* No invite code is lost: a code that is no longer valid is with a session or
\* with a join still running, whose every failure gives it back (the release in
\* the error path of POST /v1/join).
THEOREM CodesNotLost == Spec => []InviteNotLost
<1>1. Init => CodesKept
  BY DEF Init, CodesKept, CarriesCode, InviteNotLost, Idle
<1>2. TypeOK /\ ControlOK /\ CodesKept /\ [Next]_vars => CodesKept'
  BY CodesKeptKept
<1>3. CodesKept => InviteNotLost
  BY DEF CodesKept
<1> QED BY <1>1, <1>2, <1>3, TypeCorrect, PTL DEF Spec

\* Every step keeps the codes of two holders apart, while the process lives.
LEMMA CodesApartKept ==
  ASSUME ~MayRestart, TypeOK, ControlOK, CodesKept, CodesApart, [Next]_vars
  PROVE  CodesApart'
<1>0. NoCode \notin Code /\ codes \subseteq Code
  BY ConfigAssumption DEF TypeOK
<1>1. ASSUME NEW r \in Request, Arrive(r) \/ Step(r)
      PROVE  CodesApart'
  <2>1. /\ \A t \in Request \ {r} : req'[t] = req[t]
        /\ CodeStays(r) \/ CodeBack(r) \/ CodeSpent(r) \/ \E u \in Sid : CodeLeft(r, u)
    BY <1>1, CodeMoves DEF CodesKept
  <2>2. CASE CodeStays(r)
    BY <2>1, <2>2 DEF CodeStays, CodesApart, InviteBacksOneSession
  <2>3. CASE CodeBack(r)
    BY <1>0, <2>1, <2>3 DEF CodeBack, CodesApart, InviteBacksOneSession
  <2>4. CASE CodeSpent(r)
    BY <1>0, <2>1, <2>4 DEF CodeSpent, CodesApart, InviteBacksOneSession
  <2>5. ASSUME NEW u \in Sid, CodeLeft(r, u)
        PROVE  CodesApart'
    <3>1. \A s \in Sid : codeOf'[s] = IF s = u THEN req[r].code ELSE codeOf[s]
      BY <2>5 DEF CodeLeft, TypeOK
    <3> QED BY <1>0, <2>1, <2>5, <3>1 DEF CodeLeft, CodesApart, InviteBacksOneSession
  <2> QED BY <2>1, <2>2, <2>3, <2>4, <2>5
<1>2. CASE \/ Wait \/ UNCHANGED vars \/ Approve \/ Block \/ Unblock
           \/ (\E s \in Sid : Age(s) \/ PruneExpired(s)) \/ Restart
  BY <1>2, OutsideLost DEF Restart, CodesApart, InviteBacksOneSession
<1> QED BY <1>1, <1>2 DEF Next

\* In a process that does not restart one invite code backs one session at
\* most, whatever joins contend for it (validCodes in invite-code.ts is in
\* memory only: a restart makes every configured code valid again).
THEOREM OneSessionPerCode ==
  ASSUME ~MayRestart
  PROVE  Spec => []InviteBacksOneSession
<1>1. Init => CodesKept /\ CodesApart
  BY ConfigAssumption
     DEF Init, CodesKept, CodesApart, CarriesCode, InviteNotLost, InviteBacksOneSession, Idle
<1>2. TypeOK /\ ControlOK /\ CodesKept /\ CodesApart /\ [Next]_vars
        => CodesKept' /\ CodesApart'
  BY CodesKeptKept, CodesApartKept
<1>3. CodesApart => InviteBacksOneSession
  BY DEF CodesApart
<1> QED BY <1>1, <1>2, <1>3, TypeCorrect, PTL DEF Spec

-----------------------------------------------------------------------------
(* The attempts of a challenge whose objects all handlers share.           *)

\* Nobody asks a plugin anew, no answer is handed over and no count is lost.
LEMMA AttemptsKept ==
  ASSUME TypeOK, AttemptsCounted, UNCHANGED <<evals, tries>>,
         \A s \in Sid, m \in Method : Asking(s, m)' \subseteq Asking(s, m)
  PROVE  AttemptsCounted'
<1>1. ASSUME NEW s \in Sid, NEW m \in Method
      PROVE  /\ IsFiniteSet(Asking(s, m)')
             /\ evals[s][m] + Cardinality(Asking(s, m)') <= tries[s][m]
             /\ evals[s][m] + Cardinality(Asking(s, m)') <= AttemptLimit
  <2>1. PICK A, B : A = Asking(s, m) /\ B = Asking(s, m)'
    OBVIOUS
  <2>2. /\ IsFiniteSet(A) /\ B \subseteq A
        /\ evals[s][m] + Cardinality(A) <= tries[s][m]
        /\ evals[s][m] + Cardinality(A) <= AttemptLimit
    BY <2>1 DEF AttemptsCounted
  <2>3. /\ IsFiniteSet(B) /\ Cardinality(B) <= Cardinality(A)
        /\ Cardinality(A) \in Nat /\ Cardinality(B) \in Nat
    BY <2>2, FS_Subset, FS_CardinalityType
  <2>4. evals[s][m] \in Nat /\ tries[s][m] \in Nat /\ AttemptLimit \in Nat
    BY ConfigAssumption DEF TypeOK
  <2> QED BY <2>1, <2>2, <2>3, <2>4
<1> QED BY <1>1 DEF AttemptsCounted

\* A request that comes to no plugin adds nobody to those who ask one.
LEMMA AskingLess ==
  ASSUME NEW r \in Request, req'[r].pc # "v_plugin", \A t \in Request \ {r} : req'[t] = req[t]
  PROVE  \A s, m : Asking(s, m)' \subseteq Asking(s, m)
BY DEF Asking

\* In memory a challenge list is written back as it is stored.
LEMMA TriesShared ==
  ASSUME Store = "memory", TypeOK, NEW r \in Request, NEW d,
         req[r].sid \in Sid, WriteChallenges(req[r].sid, d, ViewTries(r))
  PROVE  UNCHANGED tries
BY DEF Shared, ViewTries, WriteChallenges, TypeOK

\* Only an attempt that is counted leads to a plugin.
LEMMA AttemptCounted ==
  ASSUME Store = "memory", TypeOK, ControlOK, AttemptsCounted, NEW r \in Request, VerifyCheck(r)
  PROVE  AttemptsCounted'
<1> DEFINE u == req[r].sid
           k == req[r].method
<1>0. /\ req \in [Request -> RequestRecord] /\ req[r] \in RequestRecord
      /\ \A t \in Request \ {r} : req'[t] = req[t]
  BY OthersKept DEF TypeOK, Step, VerifyStep
<1>1. u \in Sid /\ k \in Method /\ req[r].pc = "v_check" /\ UNCHANGED evals
  BY DEF VerifyCheck, ControlOK, Control, OnSession, SessionPC, VerifyPC, history
<1>2. CASE (Goto(r, "c_check") \/ Finish(r)) /\ UNCHANGED tries
  <2>1. req'[r].pc # "v_plugin"
    BY <1>2, GotoAlong, FinishShape DEF Idle
  <2> QED BY <1>0, <1>1, <1>2, <2>1, AskingLess, AttemptsKept
<1>3. CASE /\ req'[r].pc # "v_plugin"
           /\ \A s \in Sid, m \in Method :
                 tries[s][m] <= tries'[s][m] \/ AttemptLimit <= tries'[s][m]
           /\ tries' \in [Sid -> [Method -> Nat]]
  <2>1. ASSUME NEW s \in Sid, NEW m \in Method
        PROVE  /\ IsFiniteSet(Asking(s, m)')
               /\ evals'[s][m] + Cardinality(Asking(s, m)') <= tries'[s][m]
               /\ evals'[s][m] + Cardinality(Asking(s, m)') <= AttemptLimit
    <3>1. PICK A, B : A = Asking(s, m) /\ B = Asking(s, m)'
      OBVIOUS
    <3>2. /\ IsFiniteSet(A) /\ B \subseteq A
          /\ evals[s][m] + Cardinality(A) <= tries[s][m]
          /\ evals[s][m] + Cardinality(A) <= AttemptLimit
      BY <1>0, <1>3, <3>1, AskingLess DEF AttemptsCounted
    <3>3. /\ IsFiniteSet(B) /\ Cardinality(B) <= Cardinality(A)
          /\ Cardinality(A) \in Nat /\ Cardinality(B) \in Nat
      BY <3>2, FS_Subset, FS_CardinalityType
    <3>4. evals[s][m] \in Nat /\ tries[s][m] \in Nat /\ AttemptLimit \in Nat
      BY ConfigAssumption DEF TypeOK
    <3>5. /\ tries[s][m] <= tries'[s][m] \/ AttemptLimit <= tries'[s][m]
          /\ tries'[s][m] \in Nat
      BY <1>3
    <3> QED BY <1>1, <3>1, <3>2, <3>3, <3>4, <3>5
  <2> QED BY <2>1 DEF AttemptsCounted
<1>4. CASE /\ tries[u][k] + 1 <= AttemptLimit
           /\ req'[r].pc = "v_plugin" /\ req'[r].sid = u /\ req'[r].method = k
           /\ tries' = [tries EXCEPT ![u] = [tries[u] EXCEPT ![k] = @ + 1]]
  <2>1. ASSUME NEW s \in Sid, NEW m \in Method
        PROVE  /\ IsFiniteSet(Asking(s, m)')
               /\ evals'[s][m] + Cardinality(Asking(s, m)') <= tries'[s][m]
               /\ evals'[s][m] + Cardinality(Asking(s, m)') <= AttemptLimit
    <3>1. PICK A, B : A = Asking(s, m) /\ B = Asking(s, m)'
      OBVIOUS
    <3>2. /\ IsFiniteSet(A) /\ Cardinality(A) \in Nat
          /\ evals[s][m] + Cardinality(A) <= tries[s][m]
          /\ evals[s][m] + Cardinality(A) <= AttemptLimit
      BY <3>1, FS_CardinalityType DEF AttemptsCounted
    <3>3. evals[s][m] \in Nat /\ tries[s][m] \in Nat /\ AttemptLimit \in Nat
      BY ConfigAssumption DEF TypeOK
    <3>4. tries'[s][m] = IF s = u /\ m = k THEN tries[s][m] + 1 ELSE tries[s][m]
      BY <1>1, <1>4 DEF TypeOK
    <3>5. CASE s = u /\ m = k
      <4>1. r \notin A /\ B = A \cup {r}
        BY <1>0, <1>1, <1>4, <3>1, <3>5 DEF Asking
      <4>2. IsFiniteSet(B) /\ Cardinality(B) = Cardinality(A) + 1
        BY <3>2, <4>1, FS_AddElement
      <4> QED BY <1>1, <1>4, <3>1, <3>2, <3>3, <3>4, <3>5, <4>2
    <3>6. CASE ~(s = u /\ m = k)
      <4>1. B = A
        BY <1>0, <1>1, <1>4, <3>1, <3>6 DEF Asking
      <4> QED BY <1>1, <3>1, <3>2, <3>3, <3>4, <3>6, <4>1
    <3> QED BY <3>5, <3>6
  <2> QED BY <2>1 DEF AttemptsCounted
<1>5. ViewTries(r) = tries[u] /\ Shared /\ tries[u][k] \in Nat /\ AttemptLimit \in Nat
  BY <1>1, ConfigAssumption DEF ViewTries, Shared, TypeOK
<1>6. PICK n, counted :
        /\ n = tries[u][k] + 1
        /\ counted = [tries[u] EXCEPT ![k] = IF n > AttemptLimit THEN AttemptLimit + 1 ELSE n]
  OBVIOUS
<1>7. \/ (Goto(r, "c_check") \/ Finish(r)) /\ UNCHANGED tries
      \/ /\ IF TooMany(n) THEN Finish(r) ELSE req' = [req EXCEPT ![r].pc = "v_plugin",
                                                     ![r].tries = req[r].tries]
         /\ tries' = [tries EXCEPT ![u] = counted]
  BY <1>1, <1>5, <1>6 DEF VerifyCheck
<1>8. CASE TooMany(n) /\ Finish(r) /\ tries' = [tries EXCEPT ![u] = counted]
  <2>1. req'[r].pc # "v_plugin"
    BY <1>8, FinishShape DEF Idle
  <2>2. counted \in [Method -> Nat] /\ tries' \in [Sid -> [Method -> Nat]]
    BY <1>1, <1>5, <1>6, <1>8 DEF TypeOK
  <2>3. n > AttemptLimit /\ counted[k] = AttemptLimit + 1
    BY <1>1, <1>5, <1>6, <1>8 DEF TooMany, TypeOK
  <2>4. ASSUME NEW s \in Sid, NEW m \in Method
        PROVE  tries[s][m] <= tries'[s][m] \/ AttemptLimit <= tries'[s][m]
    <3>1. CASE s = u /\ m = k
      BY <1>1, <1>5, <1>8, <2>3, <3>1 DEF TypeOK
    <3>2. CASE ~(s = u /\ m = k)
      <4>1. tries'[s][m] = tries[s][m] /\ tries[s][m] \in Nat
        BY <1>1, <1>6, <1>8, <3>2 DEF TypeOK
      <4> QED BY <4>1
    <3> QED BY <3>1, <3>2
  <2> QED BY <1>3, <2>1, <2>2, <2>4
<1>9. CASE /\ ~TooMany(n) /\ tries' = [tries EXCEPT ![u] = counted]
           /\ req' = [req EXCEPT ![r].pc = "v_plugin", ![r].tries = req[r].tries]
  <2>1. req'[r].pc = "v_plugin" /\ req'[r].sid = u /\ req'[r].method = k
    BY <1>0, <1>9 DEF RequestRecord
  <2>2. n <= AttemptLimit /\ counted = [tries[u] EXCEPT ![k] = @ + 1]
    BY <1>1, <1>5, <1>6, <1>9 DEF TooMany, TypeOK
  <2> QED BY <1>4, <1>6, <1>9, <2>1, <2>2
<1> QED BY <1>2, <1>7, <1>8, <1>9

\* A plugin that is asked takes one counted attempt.
LEMMA AttemptTaken ==
  ASSUME TypeOK, ControlOK, AttemptsCounted, NEW r \in Request, VerifyPlugin(r)
  PROVE  AttemptsCounted'
<1> DEFINE u == req[r].sid
           k == req[r].method
<1>0. /\ req \in [Request -> RequestRecord] /\ req[r] \in RequestRecord
      /\ \A t \in Request \ {r} : req'[t] = req[t]
  BY OthersKept DEF TypeOK, Step, VerifyStep
<1>1. u \in Sid /\ k \in Method /\ req[r].pc = "v_plugin" /\ UNCHANGED tries
  BY DEF VerifyPlugin, ControlOK, Control, OnSession, SessionPC, VerifyPC, store
<1>2. req'[r].pc # "v_plugin"
  BY <1>0 DEF VerifyPlugin, Finish, Idle, RequestRecord
<1>3. CASE UNCHANGED evals
  BY <1>0, <1>1, <1>2, <1>3, AskingLess, AttemptsKept
<1>4. CASE evals' = [evals EXCEPT ![u][k] = IF @ > AttemptLimit THEN @ ELSE @ + 1]
  <2>1. ASSUME NEW s \in Sid, NEW m \in Method
        PROVE  /\ IsFiniteSet(Asking(s, m)')
               /\ evals'[s][m] + Cardinality(Asking(s, m)') <= tries[s][m]
               /\ evals'[s][m] + Cardinality(Asking(s, m)') <= AttemptLimit
    <3>1. PICK A, B : A = Asking(s, m) /\ B = Asking(s, m)'
      OBVIOUS
    <3>2. /\ IsFiniteSet(A) /\ B \subseteq A
          /\ evals[s][m] + Cardinality(A) <= tries[s][m]
          /\ evals[s][m] + Cardinality(A) <= AttemptLimit
      BY <1>0, <1>2, <3>1, AskingLess DEF AttemptsCounted
    <3>3. /\ IsFiniteSet(B) /\ Cardinality(B) <= Cardinality(A)
          /\ Cardinality(A) \in Nat /\ Cardinality(B) \in Nat
      BY <3>2, FS_Subset, FS_CardinalityType
    <3>4. evals[s][m] \in Nat /\ tries[s][m] \in Nat /\ AttemptLimit \in Nat
      BY ConfigAssumption DEF TypeOK
    <3>5. CASE s = u /\ m = k
      <4>1. r \in A /\ B = A \ {r}
        BY <1>0, <1>1, <1>2, <3>1, <3>5 DEF Asking
      <4>2. Cardinality(B) = Cardinality(A) - 1
        BY <3>2, <4>1, FS_RemoveElement
      <4>3. evals'[s][m] = IF evals[s][m] > AttemptLimit THEN evals[s][m] ELSE evals[s][m] + 1
        BY <1>1, <1>4, <3>5 DEF TypeOK
      <4>4. evals'[s][m] \in Nat /\ evals'[s][m] <= evals[s][m] + 1
        BY <3>4, <4>3
      <4> QED BY <3>1, <3>2, <3>3, <3>4, <4>2, <4>4
    <3>6. CASE ~(s = u /\ m = k)
      <4>1. evals'[s][m] = evals[s][m]
        BY <1>1, <1>4, <3>6 DEF TypeOK
      <4> QED BY <3>1, <3>2, <3>3, <3>4, <4>1
    <3> QED BY <3>5, <3>6
  <2> QED BY <1>1, <2>1 DEF AttemptsCounted
<1> QED BY <1>3, <1>4 DEF VerifyPlugin

\* Every step keeps the attempts counted, where all handlers share the challenges.
LEMMA AttemptsCountedKept ==
  ASSUME Store = "memory", TypeOK, ControlOK, AttemptsCounted, [Next]_vars
  PROVE  AttemptsCounted'
<1>1. ASSUME NEW r \in Request, Arrive(r)
      PROVE  AttemptsCounted'
  BY <1>1, ArriveShape, AskingLess, AttemptsKept
<1>2. ASSUME NEW r \in Request, Step(r), ~VerifyCheck(r), ~VerifyPlugin(r)
      PROVE  AttemptsCounted'
  <2>1. \A t \in Request \ {r} : req'[t] = req[t]
    BY <1>2, OthersKept
  <2>2. req'[r].pc # "v_plugin"
    <3>1. VerifyAnswer(r) => req'[r].pc # "v_plugin"
      BY DEF VerifyAnswer, Finish, Idle, TypeOK, RequestRecord
    <3>2. StatusStep(r) => req'[r].pc # "v_plugin"
      BY DEF StatusStep, StatusRecord, StatusPass, StatusReject, Goto, Finish, Idle, TypeOK,
             RequestRecord
    <3>3. ServeStep(r) => req'[r].pc # "v_plugin"
      <4>1. ProvisionRecord(r) \/ ProvisionReject(r) \/ ProvisionServe(r)
              \/ ReconnectRecord(r) \/ ReconnectAnswer(r) => req'[r].pc # "v_plugin"
        BY DEF ProvisionRecord, ProvisionReject, ProvisionServe, ReconnectRecord,
               ReconnectAnswer, Goto, Finish, Idle, TypeOK, RequestRecord
      <4>2. ReconnectScope(r) => req'[r].pc # "v_plugin"
        BY DEF ReconnectScope, Finish, Idle, TypeOK, RequestRecord
      <4> QED BY <4>1, <4>2 DEF ServeStep
    <3>4. JoinStep(r) \/ ReadyPathStep(r) => req'[r].pc # "v_plugin"
      BY JoinShape, ReadyPathShape DEF Idle, JoinPC, NotifyPC
    <3> QED BY <1>2, <3>1, <3>2, <3>3, <3>4 DEF Step, VerifyStep
  <2>3. UNCHANGED <<evals, tries>>
    <3>0. Control(req[r])
      BY DEF ControlOK
    <3>1. JoinStep(r) => UNCHANGED <<evals, tries>>
      BY DEF JoinStep, JoinDelete, JoinRecord, JoinRequestAuth, JoinRefused, JoinAssemble,
             JoinCreate, JoinCreateFails, store, history
    <3>2. ReadyPathStep(r) => UNCHANGED <<evals, tries>>
      <4>1. MakeReady(r) => UNCHANGED <<evals, tries>>
        BY <3>0, TriesShared DEF MakeReady, Control, OnSession, SessionPC
      <4> QED BY <4>1 DEF ReadyPathStep, Complete, NotifyGet, NotifyRequest, NotifyTransition,
                 NotifyVerified, NotifyLinkers, store, history
    <3>3. VerifyAnswer(r) => UNCHANGED <<evals, tries>>
      BY <3>0, TriesShared DEF VerifyAnswer, Control, OnSession, SessionPC, VerifyPC, history
    <3>4. StatusStep(r) => UNCHANGED <<evals, tries>>
      BY <3>0, TriesShared DEF StatusStep, StatusRecord, StatusPass, StatusReject, Control,
         OnSession, SessionPC, store, history
    <3>5. ServeStep(r) => UNCHANGED <<evals, tries>>
      BY DEF ServeStep, ProvisionRecord, ProvisionReject, ProvisionServe, ReconnectRecord,
             ReconnectScope, ReconnectAnswer, store, history
    <3> QED BY <1>2, <3>1, <3>2, <3>3, <3>4, <3>5 DEF Step, VerifyStep
  <2> QED BY <2>1, <2>2, <2>3, AskingLess, AttemptsKept
<1>3. CASE \/ Wait \/ UNCHANGED vars \/ Approve \/ Block \/ Unblock
           \/ (\E s \in Sid : Age(s) \/ PruneExpired(s)) \/ Restart
  <2>1. \A s, m : Asking(s, m)' \subseteq Asking(s, m)
    BY <1>3, OutsideLost DEF Asking, Idle
  <2> QED BY <1>3, <2>1, OutsideLost, AttemptsKept
<1> QED BY <1>1, <1>2, <1>3, AttemptCounted, AttemptTaken DEF Next

\* With the memory store no more answers of a challenge reach its plugin than
\* the attempt limit: its handlers share the challenge object, and count the
\* attempt in it before they ask (handleVerify in app.ts).
THEOREM AttemptsInMemory ==
  ASSUME Store = "memory"
  PROVE  Spec => []AttemptsBounded
<1>1. Init => AttemptsCounted
  <2> SUFFICES ASSUME Init, NEW s \in Sid, NEW m \in Method
      PROVE  /\ IsFiniteSet(Asking(s, m))
             /\ evals[s][m] + Cardinality(Asking(s, m)) <= tries[s][m]
             /\ evals[s][m] + Cardinality(Asking(s, m)) <= AttemptLimit
    BY DEF AttemptsCounted
  <2>1. Asking(s, m) = {}
    BY DEF Init, Asking, Idle
  <2>2. IsFiniteSet(Asking(s, m)) /\ Cardinality(Asking(s, m)) = 0
    BY <2>1, FS_EmptySet
  <2> QED BY <2>2, ConfigAssumption DEF Init, NoTries
<1>2. TypeOK /\ ControlOK /\ AttemptsCounted /\ [Next]_vars => AttemptsCounted'
  BY AttemptsCountedKept
<1>3. TypeOK /\ AttemptsCounted => AttemptsBounded
  <2> SUFFICES ASSUME TypeOK, AttemptsCounted, NEW s \in Sid, NEW m \in Method
      PROVE  evals[s][m] <= AttemptLimit
    BY DEF AttemptsBounded
  <2>1. /\ Cardinality(Asking(s, m)) \in Nat
        /\ evals[s][m] + Cardinality(Asking(s, m)) <= AttemptLimit
    BY FS_CardinalityType DEF AttemptsCounted
  <2> QED BY <2>1, ConfigAssumption DEF TypeOK
<1> QED BY <1>1, <1>2, <1>3, TypeCorrect, PTL DEF Spec

-----------------------------------------------------------------------------
(* One request after another.                                              *)

\* Any sessions have a newest one.
LEMMA NewestExists ==
  ASSUME NEW T \in SUBSET Sid, T # {}
  PROVE  \E m \in T : \A s \in T : s <= m
<1> DEFINE U == {MaxSessions - s : s \in T}
           Less == {p \in Nat \X Nat : p[1] < p[2]}
<1>1. MaxSessions \in Nat
  BY ConfigAssumption
<1>2. U \subseteq Nat /\ U # {}
  <2>1. \A s \in T : s \in Nat /\ MaxSessions - s \in Nat
    BY <1>1 DEF Sid
  <2>2. PICK s : s \in T
    OBVIOUS
  <2> QED BY <2>1, <2>2
<1>3. PICK u \in U : \A v \in U : u <= v
  <2>1. Less = OpToRel(<, Nat)
    BY DEF OpToRel
  <2>2. IsWellFoundedOn(Less, Nat)
    BY <2>1, NatLessThanWellFounded
  <2> HIDE DEF Less, U
  <2>3. PICK u \in U : \A v \in U : ~(<<v, u>> \in Less)
    BY <1>2, <2>2, WFMin
  <2>4. ASSUME NEW v \in U
        PROVE  u <= v
    <3>1. u \in Nat /\ v \in Nat
      BY <1>2
    <3>2. <<v, u>> \notin Less
      BY <2>3
    <3>3. ~(v < u)
      BY <3>1, <3>2 DEF Less
    <3> QED BY <3>1, <3>3
  <2> QED BY <2>3, <2>4
<1>4. PICK m \in T : u = MaxSessions - m
  BY <1>3
<1>5. ASSUME NEW s \in T
      PROVE  s <= m
  <2>1. u <= MaxSessions - s
    BY <1>3
  <2>2. s \in Nat /\ m \in Nat
    BY DEF Sid
  <2> QED BY <1>1, <1>4, <2>1, <2>2
<1> QED BY <1>5

\* What a step may do that creates no session: none comes to life, none that
\* is over comes back, and the index keeps what is stored.
Quiet ==
    /\ UNCHANGED net
    /\ \A s \in Sid : /\ status'[s] # "unborn" <=> status[s] # "unborn"
                      /\ Over(s) => Over(s)'
                      /\ Stored(s)' => Stored(s)
                      /\ Store = "memory" /\ Stored(s)' => index'[net[s]] = s

\* A step that leaves the sessions and the index alone keeps them in order.
LEMMA QuietKeeps ==
  ASSUME TypeOK, InOrder, Quiet
  PROVE  InOrder' /\ \A q : Cleared(q) => Cleared(q)'
<1>1. InOrder'
  BY DEF InOrder, Quiet
<1>2. \A q : Cleared(q) => Cleared(q)'
  BY DEF Cleared, Quiet
<1> QED BY <1>1, <1>2

\* Removing a session, or writing the status of one that can be updated.
LEMMA WriteQuiet ==
  ASSUME TypeOK, InOrder, UNCHANGED <<net, aged>>, NEW w, NEW new \in Status,
         Remove(w) \/ KeepStatus(w) \/ SetStatus(w, new)
  PROVE  Quiet /\ (Remove(w) => \A s \in Sid : s = w => ~Stored(s)')
<1>1. CASE Remove(w)
  <2>1. CASE w # NoSid /\ w \in Sid /\ Stored(w)
    <3>1. \A s \in Sid : status'[s] = IF s = w THEN "gone" ELSE status[s]
      BY <1>1, <2>1 DEF Remove, TypeOK
    <3>2. \A s \in Sid : Store = "memory" /\ Stored(s) /\ s # w => index'[net[s]] = s
      <4> SUFFICES ASSUME NEW s \in Sid, Store = "memory", Stored(s), s # w
                   PROVE  index'[net[s]] = s
        OBVIOUS
      <4>1. index[net[s]] = s /\ index[net[w]] = w
        BY <2>1 DEF InOrder
      <4>2. index' = [index EXCEPT ![net[w]] = NoSid] /\ net[s] # net[w]
        BY <1>1, <2>1, <4>1 DEF Remove
      <4> QED BY <4>1, <4>2 DEF TypeOK
    <3> QED BY <2>1, <3>1, <3>2 DEF Quiet, Over, Live, Expired, Stored, Status
  <2>2. CASE ~(w # NoSid /\ w \in Sid /\ Stored(w))
    <3>1. UNCHANGED <<status, index>> /\ \A s \in Sid : s = w => ~Stored(s)
      BY <1>1, <2>2 DEF Remove, Sid, NoSid
    <3> QED BY <3>1 DEF Quiet, InOrder, Over, Live, Expired, Stored
  <2> QED BY <2>1, <2>2
<1>2. CASE UNCHANGED <<status, index>> /\ ~Remove(w)
  BY <1>2 DEF Quiet, InOrder, Over, Live, Expired, Stored
<1>3. CASE /\ Updatable(w) /\ UNCHANGED index /\ status' = [status EXCEPT ![w] = new]
           /\ ~Remove(w)
  <2>1. \A s \in Sid : status'[s] = IF s = w THEN new ELSE status[s]
    BY <1>3 DEF TypeOK
  <2>2. \A s \in Sid : s = w => Stored(s) /\ Stored(s)' /\ ~Over(s)
    BY <1>3, <2>1, ConfigAssumption DEF Updatable, Over, Live, Stored
  <2> QED BY <1>3, <2>1, <2>2 DEF Quiet, InOrder, Over, Live, Expired, Stored, Status
<1> QED BY <1>1, <1>2, <1>3 DEF KeepStatus, SetStatus

\* Nor does a lookup bring a session back; what it does not find is over.
LEMMA LookupClears ==
  ASSUME TypeOK, InOrder, UNCHANGED <<net, aged>>, NEW n \in Network, PruneCandidate(n)
  PROVE  /\ Quiet
         /\ \A s \in Sid : net[s] = n /\ Stored(s)' => Over(s)' \/ s = FindByAgentKey(n)
<1> DEFINE c == Candidate(n)
           w == IF c \in Sid /\ ~Live(c) THEN c ELSE NoSid
<1>1. Remove(w) /\ "pending" \in Status
  BY DEF PruneCandidate, Status
<1>2. Quiet /\ \A s \in Sid : s = w => ~Stored(s)'
  BY <1>1, WriteQuiet
<1>3. ASSUME NEW s \in Sid, net[s] = n, Stored(s)', ~Over(s)'
      PROVE  s = FindByAgentKey(n)
  <2>1. Stored(s) /\ ~Over(s)
    BY <1>2, <1>3 DEF Quiet
  <2>2. s = c
    <3>1. CASE Store = "memory"
      BY <1>3, <2>1, <3>1 DEF InOrder, Candidate
    <3>2. CASE Store # "memory"
      <4> DEFINE rows == {t \in Sid : Stored(t) /\ net[t] = n}
      <4>1. s \in rows /\ rows \in SUBSET Sid
        BY <1>3, <2>1
      <4>2. PICK m \in rows : \A t \in rows : t <= m
        BY <4>1, NewestExists
      <4>3. c = CHOOSE x \in rows : \A t \in rows : t <= x
        BY <3>2, <4>1 DEF Candidate
      <4>4. c \in rows /\ \A t \in rows : t <= c
        BY <4>2, <4>3
      <4>5. ~(s < c)
        BY <1>3, <2>1, <4>4 DEF InOrder
      <4> QED BY <4>1, <4>4, <4>5 DEF Sid
    <3> QED BY <3>1, <3>2
  <2>3. Live(c)
    <3>1. s # w
      BY <1>2, <1>3
    <3> QED BY <2>2, <3>1
  <2> QED BY <2>2, <2>3 DEF FindByAgentKey
<1> QED BY <1>2, <1>3

\* A request that creates no session leaves the store quiet.
LEMMA StepQuiet ==
  ASSUME TypeOK, ControlOK, InOrder, NEW r \in Request, Step(r), ~JoinCreate(r)
  PROVE  Quiet
<1>0. "pending" \in Status /\ "ready" \in Status /\ "rejected" \in Status
  BY DEF Status
<1>1. UNCHANGED <<status, net, aged, index>> => Quiet
  BY DEF Quiet, InOrder, Over, Live, Expired, Stored
<1>2. JoinStep(r) => Quiet
  BY <1>0, <1>1, WriteQuiet DEF JoinStep, JoinDelete, JoinRecord, JoinRequestAuth,
     JoinRefused, JoinAssemble, JoinCreateFails, store
<1>3. ReadyPathStep(r) => Quiet
  BY <1>0, <1>1, WriteQuiet DEF ReadyPathStep, Complete, NotifyGet, NotifyRequest,
     NotifyTransition, NotifyVerified, NotifyLinkers, MakeReady, store
<1>4. VerifyStep(r) => Quiet
  BY <1>0, <1>1, WriteQuiet DEF VerifyStep, VerifyCheck, VerifyPlugin, VerifyAnswer, store
<1>5. StatusStep(r) => Quiet
  BY <1>0, <1>1, WriteQuiet DEF StatusStep, StatusRecord, StatusPass, StatusReject, store
<1>6. ServeStep(r) => Quiet
  <2>1. ASSUME NEW n, PruneCandidate(n), UNCHANGED <<net, aged>>
        PROVE  Quiet
    BY <1>0, <2>1, WriteQuiet DEF PruneCandidate
  <2> QED BY <1>0, <1>1, <2>1, WriteQuiet DEF ServeStep, ProvisionRecord, ProvisionReject,
             ProvisionServe, ReconnectRecord, ReconnectScope, ReconnectAnswer, store
<1> QED BY <1>2, <1>3, <1>4, <1>5, <1>6 DEF Step

\* A request that arrives alone: a join has looked, the others claim nothing.
LEMMA ArriveClears ==
  ASSUME TypeOK, InOrder, NEW r \in Request, Arrive(r)
  PROVE  Quiet /\ \A q : q = req'[r] => Cleared(q)'
<1>0. req \in [Request -> RequestRecord] /\ "pending" \in Status
  BY DEF TypeOK, Status
<1>1. ASSUME NEW n \in Network, NEW op \in {"join", "delegated"}, Join(r, n, op)
      PROVE  Quiet /\ \A q : q = req'[r] => Cleared(q)'
  <2>1. PICK c : c = FindByAgentKey(n)
    OBVIOUS
  <2>2. PICK q : /\ req'[r] = q /\ q.net = n /\ q.sid = c
                 /\ q.pc = IF c = NoSid THEN JoinStart(op) ELSE "j_delete"
    <3>1. PICK q : q = [Idle EXCEPT !.op = op, !.net = n, !.sid = c,
                          !.auto = IF op = "delegated" THEN {Delegated} ELSE {},
                          !.pc = IF c = NoSid THEN JoinStart(op) ELSE "j_delete"]
      OBVIOUS
    <3>2. q.net = n /\ q.sid = c /\ q.pc = IF c = NoSid THEN JoinStart(op) ELSE "j_delete"
      BY <3>1 DEF Idle
    <3>3. req'[r] = q
      BY <1>0, <1>1, <2>1, <3>1 DEF Join
    <3> QED BY <3>2, <3>3
  <2>3. PruneCandidate(n) /\ UNCHANGED <<net, aged>>
    BY <1>1 DEF Join
  <2>4. /\ Quiet
        /\ \A s \in Sid : net[s] = n /\ Stored(s)' => Over(s)' \/ s = c
    BY <2>1, <2>3, LookupClears
  <2>5. ASSUME NEW s \in Sid, net'[s] = q.net, Stored(s)'
        PROVE  Over(s)' \/ (q.pc = "j_delete" /\ s = q.sid)
    <3>1. s # NoSid
      BY DEF Sid, NoSid
    <3> QED BY <2>2, <2>3, <2>4, <2>5, <3>1
  <2>6. Cleared(q)'
    BY <2>5 DEF Cleared
  <2> QED BY <2>2, <2>4, <2>6
<1>2. ASSUME NEW q, q = req'[r], q.pc \notin JoinPC \cup NotifyPC
      PROVE  Cleared(q)'
  BY <1>2 DEF Cleared
<1>3. ASSUME NEW s, NEW m, NEW x, Resume(r, s) \/ Verify(r, s, m, x) \/ StatusPoll(r, s)
      PROVE  req'[r].pc \notin JoinPC \cup NotifyPC
  BY <1>3, ReadingShape DEF JoinPC, NotifyPC
<1>4. ASSUME NEW s, Provision(r, s) \/ Reconnect(r, s)
      PROVE  req'[r].pc \notin JoinPC \cup NotifyPC
  <2>1. Provision(r, s) => req'[r].pc \in {"p_record", "p_serve"}
    BY <1>0 DEF Provision, Idle
  <2>2. Reconnect(r, s) => req'[r].pc \in {"r_record", "r_scope"}
    BY <1>0 DEF Reconnect, Idle
  <2> QED BY <1>4, <2>1, <2>2 DEF JoinPC, NotifyPC
<1>5. UNCHANGED <<status, net, aged, index>> => Quiet
  BY DEF Quiet, InOrder, Over, Live, Expired, Stored
<1>6. CASE \E s \in Sid \cup Network, m \in Method, x \in BOOLEAN :
             \/ Resume(r, s) \/ Verify(r, s, m, x) \/ StatusPoll(r, s)
             \/ Provision(r, s) \/ Reconnect(r, s)
  <2>1. Quiet
    BY <1>5, <1>6 DEF Resume, Verify, StatusPoll, Provision, Reconnect, store
  <2>2. req'[r].pc \notin JoinPC \cup NotifyPC
    BY <1>3, <1>4, <1>6
  <2> QED BY <1>2, <2>1, <2>2
<1>7. CASE \E s \in Sid \cup Network :
             \/ Resume(r, s) \/ StatusPoll(r, s) \/ Provision(r, s) \/ Reconnect(r, s)
  <2>1. Quiet
    BY <1>5, <1>7 DEF Resume, StatusPoll, Provision, Reconnect, store
  <2>2. req'[r].pc \notin JoinPC \cup NotifyPC
    BY <1>3, <1>4, <1>7
  <2> QED BY <1>2, <2>1, <2>2
<1> QED BY <1>1, <1>6, <1>7 DEF Arrive

\* The session a join creates is the newest, and the only one of its network.
LEMMA CreateInOrder ==
  ASSUME TypeOK, ControlOK, OneAfterAnother, NEW r \in Request, JoinCreate(r)
  PROVE  InOrder'
<1>1. PICK u \in Sid : /\ status[u] = "unborn"
                       /\ \A t \in Sid : status[t] = "unborn" => u <= t
                       /\ Create(u, req[r])
  BY DEF JoinCreate
<1>2. req[r].net \in Network /\ req[r].pc = "j_create" /\ UNCHANGED aged
  BY DEF JoinCreate, ControlOK, Control, JoinPC
<1>3. PICK n, x : n = req[r].net /\ x \in {"ready", "pending"} /\ x = status'[u]
  BY <1>1 DEF Create, TypeOK
<1>4. \A s \in Sid : /\ status'[s] = IF s = u THEN x ELSE status[s]
                     /\ net'[s] = IF s = u THEN n ELSE net[s]
  BY <1>1, <1>3 DEF Create, TypeOK
<1>5. \A s \in Sid : net[s] = n /\ Stored(s) => Over(s)
  BY <1>2, <1>3 DEF OneAfterAnother, Cleared, JoinPC
<1>6. /\ \A s \in Sid : ~Stored(s) /\ s # u => Over(s)'
      /\ \A s \in Sid : Over(s) /\ s # u => Over(s)'
      /\ \A s \in Sid : s # u => (Stored(s)' <=> Stored(s))
  BY <1>2, <1>4 DEF Over, Live, Expired, Stored
<1>7. \A s, t \in Sid : s < t /\ status'[t] # "unborn" => status'[s] # "unborn"
  <2> SUFFICES ASSUME NEW s \in Sid, NEW t \in Sid, s < t, status'[t] # "unborn"
               PROVE  status'[s] # "unborn"
    OBVIOUS
  <2>1. CASE t = u
    <3>1. ~(u <= s)
      BY <2>1 DEF Sid
    <3> QED BY <1>1, <1>3, <1>4, <3>1
  <2>2. CASE t # u
    BY <1>3, <1>4, <2>2 DEF OneAfterAnother, InOrder
  <2> QED BY <2>1, <2>2
<1>8. \A s, t \in Sid : s < t /\ Stored(t)' /\ net'[s] = net'[t] => Over(s)'
  <2> SUFFICES ASSUME NEW s \in Sid, NEW t \in Sid, s < t, Stored(t)', net'[s] = net'[t]
               PROVE  Over(s)'
    OBVIOUS
  <2>1. s # u
    <3>1. CASE s = u
      <4>1. t # u /\ status[t] # "unborn"
        BY <1>6, <3>1 DEF Stored, Status, Sid
      <4> QED BY <1>1, <3>1, <4>1 DEF OneAfterAnother, InOrder
    <3> QED BY <3>1
  <2>2. CASE t = u
    <3>1. net[s] = n
      BY <1>4, <2>1, <2>2
    <3> QED BY <1>5, <1>6, <2>1, <3>1
  <2>3. CASE t # u
    <3>1. Stored(t) /\ net[s] = net[t]
      BY <1>4, <1>6, <2>1, <2>3
    <3>2. Over(s)
      BY <3>1 DEF OneAfterAnother, InOrder
    <3> QED BY <1>6, <2>1, <3>2
  <2> QED BY <2>2, <2>3
<1>9. ASSUME Store = "memory", NEW s \in Sid, Stored(s)'
      PROVE  index'[net'[s]] = s
  <2>1. index' = [index EXCEPT ![n] = u] /\ n \in Network
    BY <1>1, <1>2, <1>3, <1>9 DEF Create
  <2>2. CASE s = u
    BY <1>4, <2>1, <2>2 DEF TypeOK
  <2>3. CASE s # u
    <3>1. Stored(s) /\ net'[s] = net[s] /\ net[s] # n
      BY <1>4, <1>5, <1>6, <1>9, <2>3 DEF Over
    <3> QED BY <1>9, <2>1, <3>1 DEF OneAfterAnother, InOrder, TypeOK
  <2> QED BY <2>2, <2>3
<1> QED BY <1>7, <1>8, <1>9 DEF InOrder

\* A join that goes on without its session deleted, created or ended keeps its
\* network cleared; one that deletes it clears it.
LEMMA StepClears ==
  ASSUME TypeOK, ControlOK, OneAfterAnother, NEW r \in Request, Step(r)
  PROVE  \A q : q = req'[r] => Cleared(q)'
<1> SUFFICES ASSUME NEW q, q = req'[r]
             PROVE  Cleared(q)'
  OBVIOUS
<1>1. PICK p : p = req[r] /\ Cleared(p)
  BY DEF OneAfterAnother
<1>2. CASE q.pc \notin JoinPC /\ (q.pc \notin NotifyPC \/ q.op \notin JoinOp)
  BY <1>2 DEF Cleared
<1>3. CASE JoinDelete(r)
  <2>1. Remove(p.sid) /\ UNCHANGED <<net, aged>> /\ p.pc = "j_delete"
    BY <1>1, <1>3 DEF JoinDelete
  <2>2. Quiet /\ \A s \in Sid : s = p.sid => ~Stored(s)'
    BY <2>1, WriteQuiet DEF OneAfterAnother, Status
  <2>3. q.net = p.net /\ q.pc # "j_delete"
    BY <1>1, <1>3, JoinShape
       DEF JoinStep, JoinDelete, JoinCreate, JoinCreateFails, JoinAssemble
  <2>4. ASSUME NEW s \in Sid, net'[s] = q.net, Stored(s)'
        PROVE  Over(s)'
    <3>1. net[s] = p.net /\ Stored(s) /\ s # p.sid
      BY <2>2, <2>3, <2>4 DEF Quiet
    <3> QED BY <1>1, <2>1, <2>2, <3>1 DEF Cleared, JoinPC, Quiet
  <2> QED BY <2>4 DEF Cleared
<1>4. CASE /\ q.net = p.net /\ q.pc # "j_delete" /\ p.pc # "j_delete" /\ ~JoinCreate(r)
           /\ p.pc \in JoinPC \/ (p.pc \in NotifyPC /\ p.op \in JoinOp)
  <2>1. Quiet
    BY <1>4, StepQuiet DEF OneAfterAnother
  <2> QED BY <1>1, <1>4, <2>1 DEF Cleared, Quiet
<1>5. CASE JoinStep(r) /\ ~JoinDelete(r)
  <2>1. CASE q = Idle
    BY <1>2, <2>1 DEF Idle, JoinPC, NotifyPC
  <2>2. CASE q # Idle
    <3>1. q.net = p.net /\ q.pc # "j_delete" /\ ~JoinCreate(r)
      <4>1. JoinCreate(r) => req'[r] = Idle
        BY FinishShape DEF JoinCreate
      <4> QED BY <1>1, <1>5, <2>2, <4>1, JoinShape DEF NotifyPC
    <3>2. p.pc \in JoinPC /\ p.pc # "j_delete"
      BY <1>1, <1>5 DEF JoinStep, JoinRecord, JoinRequestAuth, JoinRefused, JoinAssemble,
                        JoinCreate, JoinCreateFails, JoinPC
    <3> QED BY <1>4, <3>1, <3>2
  <2> QED BY <2>1, <2>2
<1>6. CASE ReadyPathStep(r)
  <2>1. CASE q = Idle
    BY <1>2, <2>1 DEF Idle, JoinPC, NotifyPC
  <2>2. CASE q # Idle
    <3>1. /\ q.net = p.net /\ q.op = p.op /\ q.pc \in NotifyPC \cup {"j_create", "c_ready"}
          /\ q.pc = "j_create" => p.op \in JoinOp
      BY <1>1, <1>6, <2>2, ReadyPathShape DEF Along
    <3>2. CASE p.op \notin JoinOp
      BY <1>2, <3>1, <3>2 DEF JoinPC, NotifyPC
    <3>3. CASE p.op \in JoinOp
      <4>1. p.pc \notin SessionPC
        BY <1>1, <3>3 DEF ControlOK, Control
      <4>2. p.pc \in NotifyPC \cup SessionPC
        BY <1>1, <1>6 DEF ReadyPathStep, Complete, NotifyGet, NotifyRequest, NotifyTransition,
                          NotifyVerified, NotifyLinkers, MakeReady, NotifyPC, SessionPC
      <4>3. ~JoinCreate(r)
        BY <1>1, <4>1, <4>2 DEF JoinCreate, NotifyPC
      <4> QED BY <1>4, <3>1, <3>3, <4>1, <4>2, <4>3 DEF NotifyPC
    <3> QED BY <3>2, <3>3
  <2> QED BY <2>1, <2>2
<1>7. CASE VerifyStep(r) \/ StatusStep(r) \/ ServeStep(r)
  <2>1. q.pc \in AsidePC \cup {"idle"}
    BY <1>7, AsideShape DEF Idle
  <2> QED BY <1>2, <2>1 DEF AsidePC, JoinPC, NotifyPC
<1> QED BY <1>3, <1>5, <1>6, <1>7 DEF Step

\* Every step of the one request keeps the sessions in order.
LEMMA OneAfterAnotherKept ==
  ASSUME \A r, t \in Request : r = t, TypeOK, ControlOK, OneAfterAnother, [Next]_vars
  PROVE  OneAfterAnother'
<1>1. ASSUME NEW r \in Request, NEW q, q = req'[r], Cleared(q)', InOrder'
      PROVE  OneAfterAnother'
  <2>1. ASSUME NEW t \in Request
        PROVE  Cleared(req[t])'
    <3>1. q = req'[t]
      BY <1>1
    <3> QED BY <1>1, <3>1
  <2> QED BY <1>1, <2>1 DEF OneAfterAnother
<1>2. ASSUME NEW r \in Request, Arrive(r)
      PROVE  OneAfterAnother'
  <2>1. InOrder'
    BY <1>2, ArriveClears, QuietKeeps DEF OneAfterAnother
  <2>2. PICK q : q = req'[r] /\ Cleared(q)'
    BY <1>2, ArriveClears DEF OneAfterAnother
  <2> QED BY <1>1, <2>1, <2>2
<1>3. ASSUME NEW r \in Request, Step(r)
      PROVE  OneAfterAnother'
  <2>1. InOrder'
    BY <1>3, CreateInOrder, StepQuiet, QuietKeeps DEF OneAfterAnother
  <2>2. PICK q : q = req'[r] /\ Cleared(q)'
    BY <1>3, StepClears
  <2> QED BY <1>1, <2>1, <2>2
<1>4. ASSUME Quiet, UNCHANGED req
      PROVE  OneAfterAnother'
  <2>1. ASSUME NEW t \in Request
        PROVE  Cleared(req[t])'
    <3>1. PICK q : q = req[t] /\ q = req'[t]
      BY <1>4
    <3>2. Cleared(q)'
      BY <1>4, <3>1, QuietKeeps DEF OneAfterAnother
    <3> QED BY <3>1, <3>2
  <2> QED BY <1>4, <2>1, QuietKeeps DEF OneAfterAnother
<1>5. CASE Wait \/ UNCHANGED vars \/ Approve \/ Block \/ Unblock
  <2>1. UNCHANGED <<status, net, aged, index, req>>
    BY <1>5 DEF Wait, vars, store, Approve, Block, Unblock, Operator
  <2> QED BY <1>4, <2>1 DEF OneAfterAnother, Quiet, InOrder, Over, Live, Expired, Stored
<1>6. ASSUME NEW s \in Sid, Age(s)
      PROVE  OneAfterAnother'
  <2>1. \A u \in Sid : aged[u] => aged'[u]
    BY <1>6 DEF Age, TypeOK
  <2>2. Quiet
    BY <1>6, <2>1 DEF Age, OneAfterAnother, Quiet, InOrder, Over, Live, Expired, Stored
  <2> QED BY <1>4, <1>6, <2>2 DEF Age
<1>7. ASSUME NEW s \in Sid, PruneExpired(s)
      PROVE  OneAfterAnother'
  <2>1. Quiet
    BY <1>7, WriteQuiet DEF PruneExpired, OneAfterAnother, Status
  <2> QED BY <1>4, <1>7, <2>1 DEF PruneExpired
<1>8. CASE Restart
  <2>1. Quiet
    <3>1. CASE Store = "memory"
      <4>1. \A u \in Sid : status'[u] = IF Stored(u) THEN "gone" ELSE status[u]
        BY <1>8, <3>1 DEF Restart
      <4>2. \A u \in Sid : ~Stored(u)'
        BY <4>1 DEF Stored, Status
      <4> QED BY <1>8, <3>1, <4>1, <4>2 DEF Restart, Quiet, Over, Stored, Status
    <3>2. CASE Store # "memory"
      BY <1>8, <3>2 DEF Restart, Quiet, Over, Live, Expired, Stored
    <3> QED BY <3>1, <3>2
  <2>2. \A t \in Request : req'[t].pc = "idle"
    BY <1>8 DEF Restart, Idle
  <2>3. (\A t \in Request : Cleared(req[t]))'
    BY <2>2 DEF Cleared, JoinPC, NotifyPC
  <2> QED BY <2>1, <2>3, QuietKeeps DEF OneAfterAnother
<1> QED BY <1>2, <1>3, <1>5, <1>6, <1>7, <1>8 DEF Next

\* When requests come one after another the agent holds one live session per
\* network at most, in either store (the lookup and the delete before every
\* create in app.ts); two joins at once break it.
THEOREM OneLiveOneByOne ==
  ASSUME \A r, t \in Request : r = t
  PROVE  Spec => []OneLiveSession
<1>1. Init => OneAfterAnother
  BY DEF Init, OneAfterAnother, InOrder, Cleared, Stored, Status, Idle, JoinPC, NotifyPC
<1>2. TypeOK /\ ControlOK /\ OneAfterAnother /\ [Next]_vars => OneAfterAnother'
  BY OneAfterAnotherKept
<1>3. OneAfterAnother => OneLiveSession
  <2> SUFFICES ASSUME OneAfterAnother, NEW s \in Sid, NEW t \in Sid,
                      Live(s), Live(t), net[s] = net[t]
               PROVE  s = t
    BY DEF OneLiveSession
  <2>1. ~(s < t) /\ ~(t < s)
    BY DEF OneAfterAnother, InOrder, Over, Live
  <2> QED BY <2>1 DEF Sid
<1> QED BY <1>1, <1>2, <1>3, TypeCorrect, PTL DEF Spec

-----------------------------------------------------------------------------
(* Admission: what every copy of a session's challenges is worth.  It is   *)
(* bounded by the history, and a handler on its way to "ready" has seen    *)
(* enough.                                                                 *)

\* Challenges of h, together with the methods p already passed, stand for
\* every entry of auth_methods.
Covers(h, p) ==
    \/ Delegated \in p
    \/ Ungrouped \subseteq h \cup p /\ \A g \in Groups : g \cap h # {}

\* What is recorded as completed for a session was passed for it.
SessionEvidence(s) ==
    status[s] # "unborn" => done[s] \subseteq passed[s] /\ Covers(held[s], passed[s])

\* What a request in flight has seen, and is about to write.
RequestEvidence(r) ==
    LET q == req[r]
    IN  /\ q.op = "delegated" /\ q.pc = "j_delete" => Delegated \in q.auto
        /\ q.pc = "j_create" \/ (q.pc \in NotifyPC /\ q.op \in JoinOp)
             => Covers(q.held, q.auto)
        /\ OnSession(q) => status[q.sid] # "unborn" /\ ViewDone(r) \subseteq passed[q.sid]
        /\ q.pc = "v_answer" /\ q.right => q.method \in passed[q.sid]
        /\ q.pc = "s_pass" => Approval \in passed[q.sid]
        /\ OnSession(q) /\ (q.pc \in NotifyPC \/ q.pc = "c_ready")
             => Satisfied(held[q.sid], ViewDone(r))

Evidence ==
    /\ \A s \in Sid : SessionEvidence(s)
    /\ \A r \in Request : RequestEvidence(r)
    /\ ReadyOnlyIfAdmitted

\* What a step may do to the sessions.
Frame ==
    \A s \in Sid :
        /\ status[s] # "unborn" =>
              /\ status'[s] # "unborn"
              /\ held'[s] = held[s]
              /\ passed[s] \subseteq passed'[s]
              /\ done'[s] \subseteq passed'[s]
              /\ Shared => done[s] \subseteq done'[s]
        /\ status[s] = "unborn" => SessionEvidence(s)'
        /\ status'[s] = "ready" => Admits(passed'[s])

-----------------------------------------------------------------------------
\* A list that satisfies auth_methods still does with more completed.
LEMMA SatisfiedMonotone ==
  ASSUME NEW h, NEW d, NEW e, d \subseteq e, Satisfied(h, d)
  PROVE  Satisfied(h, e)
BY DEF Satisfied

\* More passed checks admit what fewer admit.
LEMMA AdmitsMonotone ==
  ASSUME NEW p, NEW q, p \subseteq q, Admits(p)
  PROVE  Admits(q)
<1>1. CASE Delegated \in p
  BY <1>1 DEF Admits
<1>2. CASE Ungrouped \subseteq p /\ \A g \in Groups : g \cap p # {}
  <2>1. Ungrouped \subseteq q
    BY <1>2
  <2>2. ASSUME NEW g \in Groups
        PROVE  g \cap q # {}
    <3>1. g \cap p # {}
      BY <1>2
    <3> QED BY <3>1
  <2> QED BY <2>1, <2>2 DEF Admits
<1> QED BY <1>1, <1>2 DEF Admits

\* Challenges go on covering auth_methods as checks are passed.
LEMMA CoversMonotone ==
  ASSUME NEW h, NEW p, NEW q, p \subseteq q, Covers(h, p)
  PROVE  Covers(h, q)
<1>1. CASE Delegated \in p
  BY <1>1 DEF Covers
<1>2. CASE Ungrouped \subseteq h \cup p /\ \A g \in Groups : g \cap h # {}
  <2>1. Ungrouped \subseteq h \cup q
    BY <1>2
  <2> QED BY <1>2, <2>1 DEF Covers
<1> QED BY <1>1, <1>2 DEF Covers

\* Completed challenges that satisfy a list covering auth_methods admit.
LEMMA SatisfiedAdmits ==
  ASSUME NEW h, NEW d, NEW p, d \subseteq p, Satisfied(h, d), Covers(h, p)
  PROVE  Admits(p)
<1>1. CASE Delegated \in p
  BY <1>1 DEF Admits
<1>2. CASE Ungrouped \subseteq h \cup p /\ \A g \in Groups : g \cap h # {}
  <2>1. Ungrouped \subseteq p
    <3>1. ASSUME NEW m \in Ungrouped
          PROVE  m \in p
      <4>1. m \in h \/ m \in p
        BY <1>2
      <4>2. m \in h => m \in d
        BY DEF Satisfied
      <4> QED BY <4>1, <4>2
    <3> QED BY <3>1
  <2>2. ASSUME NEW g \in Groups
        PROVE  g \cap p # {}
    <3>1. h \cap g # {}
      BY <1>2
    <3>2. h \cap g \cap d # {}
      BY <3>1 DEF Satisfied
    <3> QED BY <3>2
  <2> QED BY <2>1, <2>2 DEF Admits
<1> QED BY <1>1, <1>2 DEF Covers

\* A request the step leaves alone keeps its evidence.
LEMMA OthersKeep ==
  ASSUME TypeOK, ControlOK, Evidence, Frame, NEW t \in Request, req'[t] = req[t]
  PROVE  RequestEvidence(t)'
<1> DEFINE q == req[t]
           s == q.sid
<1>1. RequestEvidence(t) /\ Control(q)
  BY DEF Evidence, ControlOK
<1>2. CASE ~OnSession(q)
  <2>1. q.pc \notin SessionPC
    BY <1>2 DEF OnSession
  <2>2. q.pc # "v_answer" /\ q.pc # "s_pass"
    BY <2>1 DEF SessionPC, VerifyPC
  <2> QED BY <1>1, <1>2, <2>2 DEF RequestEvidence
<1>3. CASE OnSession(q)
  <2>1. s \in Sid
    BY <1>1, <1>3 DEF Control
  <2>2. status[s] # "unborn" /\ ViewDone(t) \subseteq passed[s]
    BY <1>1, <1>3 DEF RequestEvidence
  <2>3. /\ status'[s] # "unborn"
        /\ held'[s] = held[s]
        /\ passed[s] \subseteq passed'[s]
        /\ done'[s] \subseteq passed'[s]
        /\ Shared => done[s] \subseteq done'[s]
    BY <2>1, <2>2 DEF Frame
  <2>4. ViewDone(t) \subseteq ViewDone(t)' /\ ViewDone(t)' \subseteq passed'[s]
    BY <2>2, <2>3 DEF ViewDone, Shared
  <2>5. OnSession(q) /\ (q.pc \in NotifyPC \/ q.pc = "c_ready")
          => Satisfied(held'[s], ViewDone(t)')
    BY <1>1, <2>3, <2>4, SatisfiedMonotone DEF RequestEvidence
  <2>6. /\ q.pc = "v_answer" /\ q.right => q.method \in passed'[s]
        /\ q.pc = "s_pass" => Approval \in passed'[s]
    BY <1>1, <2>3 DEF RequestEvidence
  <2>7. /\ q.op = "delegated" /\ q.pc = "j_delete" => Delegated \in q.auto
        /\ q.pc = "j_create" \/ (q.pc \in NotifyPC /\ q.op \in JoinOp)
             => Covers(q.held, q.auto)
    BY <1>1 DEF RequestEvidence
  <2> QED BY <2>3, <2>4, <2>5, <2>6, <2>7 DEF RequestEvidence
<1> QED BY <1>2, <1>3

\* Under Frame, the other requests and the sessions keep their evidence.
LEMMA FrameKeeps ==
  ASSUME TypeOK, ControlOK, Evidence, Frame, NEW r \in Request,
         \A t \in Request \ {r} : req'[t] = req[t], RequestEvidence(r)'
  PROVE  Evidence' /\ Frame
<1>1. ASSUME NEW s \in Sid
      PROVE  SessionEvidence(s)'
  <2>1. CASE status[s] = "unborn"
    BY <2>1 DEF Frame
  <2>2. CASE status[s] # "unborn"
    <3>1. held'[s] = held[s] /\ passed[s] \subseteq passed'[s] /\ done'[s] \subseteq passed'[s]
      BY <2>2 DEF Frame
    <3>2. Covers(held[s], passed[s])
      BY <2>2 DEF Evidence, SessionEvidence
    <3>3. Covers(held'[s], passed'[s])
      BY <3>1, <3>2, CoversMonotone
    <3> QED BY <3>1, <3>3 DEF SessionEvidence
  <2> QED BY <2>1, <2>2
<1>2. ASSUME NEW t \in Request
      PROVE  RequestEvidence(t)'
  BY OthersKeep
<1>3. ReadyOnlyIfAdmitted'
  BY DEF Frame, ReadyOnlyIfAdmitted
<1> QED BY <1>1, <1>2, <1>3 DEF Evidence

\* Steps that leave what the evidence is about alone, or only remove sessions.
LEMMA DropFrame ==
  ASSUME TypeOK, Evidence, UNCHANGED <<held, done, passed>>,
         \A s \in Sid : status'[s] = status[s] \/ (status[s] # "unborn" /\ status'[s] = "gone")
  PROVE  Frame
<1> SUFFICES ASSUME NEW s \in Sid
             PROVE  /\ status[s] # "unborn" =>
                          /\ status'[s] # "unborn"
                          /\ held'[s] = held[s]
                          /\ passed[s] \subseteq passed'[s]
                          /\ done'[s] \subseteq passed'[s]
                          /\ Shared => done[s] \subseteq done'[s]
                    /\ status[s] = "unborn" => SessionEvidence(s)'
                    /\ status'[s] = "ready" => Admits(passed'[s])
  BY DEF Frame
<1>1. SessionEvidence(s) /\ (status[s] = "ready" => Admits(passed[s]))
  BY DEF Evidence, ReadyOnlyIfAdmitted
<1>2. held'[s] = held[s] /\ done'[s] = done[s] /\ passed'[s] = passed[s]
  OBVIOUS
<1>3. status[s] # "unborn" => done'[s] \subseteq passed'[s]
  BY <1>1, <1>2 DEF SessionEvidence
<1>4. status[s] = "unborn" => SessionEvidence(s)'
  BY DEF SessionEvidence
<1>5. status'[s] = "ready" => Admits(passed'[s])
  BY <1>1, <1>2
<1>6. status[s] # "unborn" => status'[s] # "unborn"
  OBVIOUS
<1> QED BY <1>2, <1>3, <1>4, <1>5, <1>6

\* Removing a session only drops it.
LEMMA RemoveDrops ==
  ASSUME TypeOK, NEW s, Remove(s)
  PROVE  \A u \in Sid : status'[u] = status[u] \/ (status[u] # "unborn" /\ status'[u] = "gone")
BY DEF Remove, TypeOK, Stored, Status

\* A step of one request changes no other.
LEMMA ReqUpdated ==
  ASSUME TypeOK, NEW r \in Request, NEW q, req' = [req EXCEPT ![r] = q]
  PROVE  req'[r] = q /\ \A t \in Request \ {r} : req'[t] = req[t]
BY DEF TypeOK

\* Where a request claims nothing.
QuietPC == {"idle", "j_record", "j_request", "j_assemble", "p_record", "p_reject",
            "p_serve", "r_record", "r_scope", "r_answer"}

\* A request at a quiet point claims nothing.
LEMMA QuietEvidence ==
  ASSUME NEW r \in Request, NEW q, req'[r] = q, q.pc \in QuietPC
  PROVE  RequestEvidence(r)'
BY DEF RequestEvidence, QuietPC, OnSession, SessionPC, NotifyPC, VerifyPC

\* A step that leaves or only drops sessions and sends one request where it
\* claims nothing.
LEMMA QuietStep ==
  ASSUME TypeOK, ControlOK, Evidence, NEW r \in Request, UNCHANGED <<held, done, passed>>,
         \A s \in Sid : status'[s] = status[s] \/ (status[s] # "unborn" /\ status'[s] = "gone"),
         NEW q, req' = [req EXCEPT ![r] = q], q.pc \in QuietPC
  PROVE  Evidence' /\ Frame
BY DropFrame, ReqUpdated, QuietEvidence, FrameKeeps

\* A request that ends claims nothing any more.
LEMMA FinishStep ==
  ASSUME TypeOK, ControlOK, Evidence, NEW r \in Request, UNCHANGED <<held, done, passed>>,
         \A s \in Sid : status'[s] = status[s] \/ (status[s] # "unborn" /\ status'[s] = "gone"),
         Finish(r)
  PROVE  Evidence' /\ Frame
<1>1. Idle.pc \in QuietPC
  BY DEF Idle, QuietPC
<1> QED BY <1>1, QuietStep DEF Finish

\* Nor does one that moves on to a quiet point.
LEMMA GotoStep ==
  ASSUME TypeOK, ControlOK, Evidence, NEW r \in Request, UNCHANGED <<held, done, passed>>,
         \A s \in Sid : status'[s] = status[s] \/ (status[s] # "unborn" /\ status'[s] = "gone"),
         NEW pc \in QuietPC, Goto(r, pc)
  PROVE  Evidence' /\ Frame
<1> DEFINE q == [req[r] EXCEPT !.pc = pc]
<1>1. q.pc = pc
  BY DEF TypeOK, RequestRecord
<1>2. req' = [req EXCEPT ![r] = q]
  BY DEF Goto
<1> HIDE DEF q
<1> QED BY <1>1, <1>2, QuietStep

\* Only a delegated join starts on the ready path.
LEMMA JoinStartTargets ==
  /\ JoinStart("join") \in {"j_record", "j_assemble"}
  /\ JoinStart("delegated") \in {"n_get", "n_link", "n_verified"}
BY DEF JoinStart, NotifyStart

\* A join before its ready path: its challenges cover auth_methods, or it
\* claims nothing yet.
LEMMA JoiningEvidence ==
  ASSUME NEW r \in Request, NEW q, req'[r] = q, q.op \in JoinOp, q.pc \notin SessionPC,
         q.op = "delegated" /\ q.pc = "j_delete" => Delegated \in q.auto,
         q.pc = "j_create" \/ q.pc \in NotifyPC => Covers(q.held, q.auto)
  PROVE  RequestEvidence(r)'
<1>1. q.pc # "v_answer" /\ q.pc # "s_pass"
  BY DEF SessionPC, VerifyPC
<1>2. ~OnSession(q)
  BY DEF OnSession
<1> QED BY <1>1, <1>2 DEF RequestEvidence

\* The steps of POST /v1/join.
LEMMA JoinStepEvidence ==
  ASSUME TypeOK, ControlOK, Evidence, NEW r \in Request, JoinStep(r)
  PROVE  Evidence' /\ Frame
<1>0. req[r] \in RequestRecord /\ Control(req[r]) /\ RequestEvidence(r)
  BY DEF TypeOK, ControlOK, Evidence
<1>1. CASE JoinDelete(r)
  <2> DEFINE pc == JoinStart(req[r].op)
             q == [req[r] EXCEPT !.pc = pc, !.sid = NoSid]
  <2>1. Frame
    BY <1>1, DropFrame, RemoveDrops DEF JoinDelete, history
  <2>2. req' = [req EXCEPT ![r] = q] /\ req[r].pc = "j_delete"
    BY <1>1 DEF JoinDelete
  <2>3. req[r].op = "join" \/ req[r].op = "delegated"
    BY <1>0, <2>2 DEF Control, JoinPC, JoinOp
  <2>4. q.pc = pc /\ q.op = req[r].op /\ q.held = req[r].held /\ q.auto = req[r].auto
    BY <1>0 DEF RequestRecord
  <2> HIDE DEF q
  <2>5. req'[r] = q /\ \A t \in Request \ {r} : req'[t] = req[t]
    BY <2>2, ReqUpdated
  <2>6. RequestEvidence(r)'
    <3>1. CASE req[r].op = "join"
      BY <2>4, <2>5, <3>1, JoinStartTargets, QuietEvidence DEF QuietPC
    <3>2. CASE req[r].op = "delegated"
      <4>1. Delegated \in q.auto
        BY <1>0, <2>2, <2>4, <3>2 DEF RequestEvidence
      <4>2. q.pc \in {"n_get", "n_link", "n_verified"}
        BY <2>4, <3>2, JoinStartTargets
      <4> QED BY <2>4, <2>5, <3>2, <4>1, <4>2, JoiningEvidence
              DEF Covers, SessionPC, VerifyPC, JoinOp
    <3> QED BY <2>3, <3>1, <3>2
  <2> QED BY <2>1, <2>5, <2>6, FrameKeeps
<1>2. CASE JoinRecord(r)
  <2>0. /\ UNCHANGED <<held, done, passed>>
        /\ \A s \in Sid : status'[s] = status[s]
    BY <1>2 DEF JoinRecord, store, history
  <2>1. CASE Goto(r, "j_request") \/ Goto(r, "j_assemble")
    BY <2>0, <2>1, GotoStep DEF QuietPC
  <2>2. ASSUME NEW q, req' = [req EXCEPT ![r] = q], q.pc = "j_assemble"
        PROVE  Evidence' /\ Frame
    BY <2>0, <2>2, QuietStep DEF QuietPC
  <2>3. /\ [req[r] EXCEPT !.pc = "j_assemble", !.auto = {Approval}].pc = "j_assemble"
        /\ [req[r] EXCEPT !.pc = "j_assemble", !.held = {Approval}].pc = "j_assemble"
    BY <1>0 DEF RequestRecord
  <2> QED BY <1>2, <2>1, <2>2, <2>3 DEF JoinRecord
<1>3. CASE JoinRequestAuth(r)
  <2>0. /\ UNCHANGED <<held, done, passed>>
        /\ \A s \in Sid : status'[s] = status[s]
    BY <1>3 DEF JoinRequestAuth, store, history
  <2>1. CASE Goto(r, "j_assemble")
    BY <2>0, <2>1, GotoStep DEF QuietPC
  <2>2. ASSUME NEW q, req' = [req EXCEPT ![r] = q], q.pc = "j_assemble"
        PROVE  Evidence' /\ Frame
    BY <2>0, <2>2, QuietStep DEF QuietPC
  <2>3. [req[r] EXCEPT !.pc = "j_assemble", !.held = {Approval}].pc = "j_assemble"
    BY <1>0 DEF RequestRecord
  <2> QED BY <1>3, <2>1, <2>2, <2>3 DEF JoinRequestAuth
<1>4. CASE JoinRefused(r)
  BY <1>4, FinishStep DEF JoinRefused, store, history
<1>5. CASE JoinAssemble(r)
  <2> PICK offered \in SUBSET (Method \cap (Answered \cup {Invite})),
           code \in Code \cup {NoCode} : JoinAssemble(r)!2!(offered, code)
    BY <1>5 DEF JoinAssemble
  <2> DEFINE h == req[r].held \cup offered
             a == req[r].auto \cup (Method \cap {"open"})
             d == h \cap {Invite}
             p == IF Satisfied(h, d) THEN NotifyStart(h) ELSE "j_create"
             q == [req[r] EXCEPT !.held = h, !.done = d, !.auto = a,
                                 !.code = code, !.pc = p]
  <2>0. /\ UNCHANGED <<held, done, passed>> /\ req[r].pc = "j_assemble"
        /\ \A s \in Sid : status'[s] = status[s]
    BY <1>5 DEF JoinAssemble, store, history
  <2>1. CASE Finish(r)
    BY <2>0, <2>1, FinishStep
  <2>2. CASE Eligible(h, a) /\ req' = [req EXCEPT ![r] = q]
    <3>1. p \in {"n_get", "n_link", "n_verified", "j_create"}
      BY NotifyStartOK
    <3>2. Covers(h, a)
      <4>1. Ungrouped \subseteq h \cup a
        <5>1. Ungrouped \ {"open"} \subseteq h \cup a
          BY <2>2 DEF Eligible
        <5>2. "open" \in Ungrouped => "open" \in a
          BY DEF Method
        <5> HIDE DEF h, a
        <5> QED BY <5>1, <5>2
      <4>2. \A g \in Groups : g \cap h # {}
        BY <2>2 DEF Eligible
      <4> QED BY <4>1, <4>2 DEF Covers
    <3>3. req[r].op \in JoinOp
      BY <1>0, <2>0 DEF Control, JoinPC
    <3> HIDE DEF h, a, d, p
    <3>4. q.pc = p /\ q.op = req[r].op /\ q.held = h /\ q.auto = a
      BY <1>0 DEF RequestRecord
    <3> HIDE DEF q
    <3>5. req'[r] = q /\ \A t \in Request \ {r} : req'[t] = req[t]
      BY <2>2, ReqUpdated
    <3>6. q.pc \notin SessionPC /\ q.pc # "j_delete"
      BY <3>1, <3>4 DEF SessionPC, VerifyPC
    <3>7. RequestEvidence(r)'
      BY <3>2, <3>3, <3>4, <3>5, <3>6, JoiningEvidence
    <3> QED BY <2>0, <3>5, <3>7, DropFrame, FrameKeeps
  <2> QED BY <2>1, <2>2
<1>6. CASE JoinCreate(r)
  <2> PICK s \in Sid : status[s] = "unborn" /\ Create(s, req[r])
    BY <1>6 DEF JoinCreate
  <2> DEFINE q == req[r]
  <2>1. Covers(q.held, q.auto)
    BY <1>0, <1>6 DEF RequestEvidence, JoinCreate
  <2>2. Covers(q.held, q.auto \cup q.done)
    BY <2>1, CoversMonotone
  <2>3. /\ held'[s] = q.held /\ done'[s] = q.done /\ passed'[s] = q.auto \cup q.done
        /\ status'[s] = IF Satisfied(q.held, q.done) THEN "ready" ELSE "pending"
    BY DEF Create, TypeOK
  <2>4. \A u \in Sid \ {s} : /\ status'[u] = status[u] /\ held'[u] = held[u]
                             /\ done'[u] = done[u] /\ passed'[u] = passed[u]
    BY DEF Create, TypeOK
  <2>5. SessionEvidence(s)'
    BY <2>2, <2>3 DEF SessionEvidence
  <2>6. status'[s] = "ready" => Admits(passed'[s])
    BY <2>2, <2>3, SatisfiedAdmits
  <2>7. Frame
    <3> SUFFICES ASSUME NEW u \in Sid
                 PROVE  /\ status[u] # "unborn" =>
                              /\ status'[u] # "unborn"
                              /\ held'[u] = held[u]
                              /\ passed[u] \subseteq passed'[u]
                              /\ done'[u] \subseteq passed'[u]
                              /\ Shared => done[u] \subseteq done'[u]
                        /\ status[u] = "unborn" => SessionEvidence(u)'
                        /\ status'[u] = "ready" => Admits(passed'[u])
      BY DEF Frame
    <3>1. CASE u = s
      BY <2>5, <2>6, <3>1
    <3>2. CASE u # s
      <4>1. SessionEvidence(u) /\ (status[u] = "ready" => Admits(passed[u]))
        BY DEF Evidence, ReadyOnlyIfAdmitted
      <4> QED BY <2>4, <3>2, <4>1 DEF SessionEvidence
    <3> QED BY <3>1, <3>2
  <2>8. req'[r] = Idle /\ \A t \in Request \ {r} : req'[t] = req[t]
    BY <1>6, ReqUpdated DEF JoinCreate, Finish
  <2>9. RequestEvidence(r)'
    BY <2>8, QuietEvidence DEF Idle, QuietPC
  <2> QED BY <2>7, <2>8, <2>9, FrameKeeps
<1>7. CASE JoinCreateFails(r)
  BY <1>7, FinishStep DEF JoinCreateFails, Throw, store, history
<1> QED BY <1>1, <1>2, <1>3, <1>4, <1>5, <1>6, <1>7 DEF JoinStep

\* On the ready path a request only moves on: what it carries stays.
LEMMA NotifyStepKeeps ==
  ASSUME TypeOK, ControlOK, Evidence, NEW r \in Request, req[r].pc \in NotifyPC,
         UNCHANGED <<status, held, done, passed>>,
         NEW q, q.pc \in NotifyPC \cup {NotifyDone(r)}, q.op = req[r].op,
         q.sid = req[r].sid, q.held = req[r].held, q.done = req[r].done,
         q.auto = req[r].auto, req' = [req EXCEPT ![r] = q]
  PROVE  Evidence' /\ Frame
<1>1. req'[r] = q /\ \A t \in Request \ {r} : req'[t] = req[t]
  BY ReqUpdated
<1>2. RequestEvidence(r) /\ Control(req[r])
  BY DEF Evidence, ControlOK
<1>3. q.pc \notin {"j_delete", "v_answer", "s_pass"}
  BY DEF NotifyDone, NotifyPC
<1>4. CASE req[r].op \in JoinOp
  <2>1. Covers(q.held, q.auto)
    BY <1>2, <1>4 DEF RequestEvidence
  <2>2. q.pc \notin SessionPC
    BY <1>4 DEF NotifyDone, NotifyPC, SessionPC, VerifyPC, JoinOp
  <2>3. RequestEvidence(r)'
    BY <1>1, <1>3, <1>4, <2>1, <2>2, JoiningEvidence
  <2> QED BY <1>1, <2>3, DropFrame, FrameKeeps
<1>5. CASE req[r].op \notin JoinOp
  <2>1. OnSession(req[r])
    BY <1>5 DEF OnSession
  <2>2. /\ status[q.sid] # "unborn" /\ ViewDone(r) \subseteq passed[q.sid]
        /\ Satisfied(held[q.sid], ViewDone(r))
    BY <1>2, <2>1 DEF RequestEvidence
  <2>3. ViewDone(r)' = ViewDone(r)
    BY <1>1 DEF ViewDone, Shared
  <2>4. q.pc # "j_create"
    BY <1>5 DEF NotifyDone, NotifyPC, JoinOp
  <2>5. RequestEvidence(r)'
    BY <1>1, <1>3, <1>5, <2>2, <2>3, <2>4 DEF RequestEvidence
  <2> QED BY <1>1, <2>5, DropFrame, FrameKeeps
<1> QED BY <1>4, <1>5

\* Moving on along the ready path takes the evidence along.
LEMMA NotifyGotoKeeps ==
  ASSUME TypeOK, ControlOK, Evidence, NEW r \in Request, req[r].pc \in NotifyPC,
         UNCHANGED <<status, held, done, passed>>,
         NEW pc \in NotifyPC \cup {NotifyDone(r)}, Goto(r, pc)
  PROVE  Evidence' /\ Frame
<1> DEFINE q == [req[r] EXCEPT !.pc = pc]
<1>1. req[r] \in RequestRecord
  BY DEF TypeOK
<1>2. /\ q.pc = pc /\ q.op = req[r].op /\ q.sid = req[r].sid /\ q.held = req[r].held
      /\ q.done = req[r].done /\ q.auto = req[r].auto
  BY <1>1 DEF RequestRecord
<1>3. req' = [req EXCEPT ![r] = q]
  BY DEF Goto
<1> HIDE DEF q
<1> QED BY <1>2, <1>3, NotifyStepKeeps

\* A failing hc-auth adds no claim.
LEMMA HcAuthFailsKeeps ==
  ASSUME TypeOK, ControlOK, Evidence, NEW r \in Request, req[r].pc \in NotifyPC,
         UNCHANGED <<status, held, done, passed>>, HcAuthFails(r)
  PROVE  Evidence' /\ Frame
<1>1. CASE HcAuth = "required"
  BY <1>1, FinishStep DEF HcAuthFails, Throw
<1>2. CASE HcAuth # "required"
  <2>1. "n_link" \in NotifyPC \cup {NotifyDone(r)}
    BY DEF NotifyPC
  <2> QED BY <1>2, <2>1, NotifyGotoKeeps DEF HcAuthFails
<1> QED BY <1>1, <1>2

\* Writing a challenge list that is backed by the history, and a status.
LEMMA WriteFrame ==
  ASSUME TypeOK, Evidence, NEW s \in Sid, status[s] # "unborn",
         NEW d, d \subseteq passed[s], Shared => done[s] \subseteq d,
         UNCHANGED <<held, passed>>, done' = done \/ done' = [done EXCEPT ![s] = d],
         \A u \in Sid : \/ status'[u] = status[u]
                        \/ status[u] # "unborn" /\ status'[u] = "gone"
                        \/ u = s /\ status'[u] = "rejected"
                        \/ u = s /\ status'[u] = "ready" /\ Admits(passed[s])
  PROVE  Frame
<1> SUFFICES ASSUME NEW u \in Sid
             PROVE  /\ status[u] # "unborn" =>
                          /\ status'[u] # "unborn"
                          /\ held'[u] = held[u]
                          /\ passed[u] \subseteq passed'[u]
                          /\ done'[u] \subseteq passed'[u]
                          /\ Shared => done[u] \subseteq done'[u]
                    /\ status[u] = "unborn" => SessionEvidence(u)'
                    /\ status'[u] = "ready" => Admits(passed'[u])
  BY DEF Frame
<1>1. SessionEvidence(u) /\ (status[u] = "ready" => Admits(passed[u]))
  BY DEF Evidence, ReadyOnlyIfAdmitted
<1>2. status[u] # "unborn" => status'[u] # "unborn"
  OBVIOUS
<1>3. done \in [Sid -> SUBSET Method]
  BY DEF TypeOK
<1>4. done'[u] = done[u] \/ (u = s /\ done'[u] = d)
  BY <1>3
<1>5. status[u] # "unborn" => done'[u] \subseteq passed'[u]
  BY <1>1, <1>4 DEF SessionEvidence
<1>6. Shared => done[u] \subseteq done'[u]
  BY <1>4
<1>7. status[u] = "unborn" => SessionEvidence(u)'
  BY DEF SessionEvidence
<1>8. status'[u] = "ready" => Admits(passed'[u])
  BY <1>1
<1> QED BY <1>2, <1>5, <1>6, <1>7, <1>8

\* Writing down in the history that a method was passed.
LEMMA PassFrame ==
  ASSUME TypeOK, Evidence, NEW s \in Sid, status[s] # "unborn", NEW m,
         UNCHANGED <<status, held, done>>,
         passed' = passed \/ passed' = [passed EXCEPT ![s] = @ \cup {m}]
  PROVE  Frame
<1> SUFFICES ASSUME NEW u \in Sid
             PROVE  /\ status[u] # "unborn" =>
                          /\ status'[u] # "unborn"
                          /\ held'[u] = held[u]
                          /\ passed[u] \subseteq passed'[u]
                          /\ done'[u] \subseteq passed'[u]
                          /\ Shared => done[u] \subseteq done'[u]
                    /\ status[u] = "unborn" => SessionEvidence(u)'
                    /\ status'[u] = "ready" => Admits(passed'[u])
  BY DEF Frame
<1>1. SessionEvidence(u) /\ (status[u] = "ready" => Admits(passed[u]))
  BY DEF Evidence, ReadyOnlyIfAdmitted
<1>2. passed[u] \subseteq passed'[u]
  BY DEF TypeOK
<1>3. status[u] # "unborn" => done'[u] \subseteq passed'[u]
  BY <1>1, <1>2 DEF SessionEvidence
<1>4. status'[u] = "ready" => Admits(passed'[u])
  BY <1>1, <1>2, AdmitsMonotone
<1>5. status[u] = "unborn" => SessionEvidence(u)'
  BY DEF SessionEvidence
<1> QED BY <1>2, <1>3, <1>4, <1>5

\* The steps of notifyReady and completeIfSatisfied.
LEMMA ReadyPathStepEvidence ==
  ASSUME TypeOK, ControlOK, Evidence, NEW r \in Request, ReadyPathStep(r)
  PROVE  Evidence' /\ Frame
<1>0. req[r] \in RequestRecord /\ Control(req[r]) /\ RequestEvidence(r)
  BY DEF TypeOK, ControlOK, Evidence
<1>a. ASSUME NEW q, q.pc \in NotifyPC \cup {NotifyDone(r)}, q.op = req[r].op,
             q.sid = req[r].sid, q.held = req[r].held, q.done = req[r].done,
             q.auto = req[r].auto, req' = [req EXCEPT ![r] = q],
             req[r].pc \in NotifyPC, UNCHANGED <<status, held, done, passed>>
      PROVE  Evidence' /\ Frame
  BY <1>a, NotifyStepKeeps
<1>1. CASE Complete(r)
  <2>0. UNCHANGED <<status, held, done, passed>> /\ req[r].pc = "c_check"
    BY <1>1 DEF Complete, store, history
  <2>1. CASE Finish(r)
    BY <2>0, <2>1, FinishStep
  <2>2. CASE /\ Satisfied(held[req[r].sid], ViewDone(r))
             /\ Goto(r, NotifyStart(held[req[r].sid]))
    <3> DEFINE pc == NotifyStart(held[req[r].sid])
               q == [req[r] EXCEPT !.pc = pc]
    <3>1. pc \in {"n_get", "n_link", "n_verified"}
      BY NotifyStartOK
    <3> HIDE DEF pc
    <3>2. q.pc = pc /\ q.op = req[r].op /\ q.sid = req[r].sid /\ q.done = req[r].done
      BY <1>0 DEF RequestRecord
    <3>3. req' = [req EXCEPT ![r] = q]
      BY <2>2 DEF Goto, pc
    <3> HIDE DEF q
    <3>4. req'[r] = q /\ \A t \in Request \ {r} : req'[t] = req[t]
      BY <3>3, ReqUpdated
    <3>5. OnSession(req[r]) /\ req[r].op \notin JoinOp
      BY <1>0, <2>0 DEF OnSession, SessionPC, Control
    <3>6. status[q.sid] # "unborn" /\ ViewDone(r) \subseteq passed[q.sid]
      BY <1>0, <3>2, <3>5 DEF RequestEvidence
    <3>7. ViewDone(r)' = ViewDone(r)
      BY <2>0, <3>2, <3>4 DEF ViewDone, Shared
    <3>8. RequestEvidence(r)'
      BY <2>0, <2>2, <3>1, <3>2, <3>4, <3>5, <3>6, <3>7 DEF RequestEvidence
    <3> QED BY <2>0, <3>4, <3>8, DropFrame, FrameKeeps
  <2> QED BY <1>1, <2>1, <2>2 DEF Complete
<1>2. CASE NotifyGet(r)
  <2>0. /\ UNCHANGED <<status, held, done, passed>> /\ req[r].pc \in NotifyPC
        /\ {"n_verified", "n_request", "n_transition"} \subseteq NotifyPC
    BY <1>2 DEF NotifyGet, NotifyPC, store, history
  <2>1. CASE Goto(r, "n_verified") \/ Goto(r, "n_request")
    BY <2>0, <2>1, NotifyGotoKeeps
  <2>2. ASSUME NEW q, q = [req[r] EXCEPT !.pc = "n_transition", !.from = record],
               req' = [req EXCEPT ![r] = q]
        PROVE  Evidence' /\ Frame
    <3>1. /\ q.pc = "n_transition" /\ q.op = req[r].op /\ q.sid = req[r].sid
          /\ q.held = req[r].held /\ q.done = req[r].done /\ q.auto = req[r].auto
      BY <1>0, <2>2 DEF RequestRecord
    <3> QED BY <1>a, <2>0, <2>2, <3>1
  <2>3. CASE HcAuthFails(r)
    BY <2>0, <2>3, HcAuthFailsKeeps
  <2> QED BY <1>2, <2>1, <2>2, <2>3 DEF NotifyGet
<1>3. CASE NotifyRequest(r)
  <2>0. /\ UNCHANGED <<status, held, done, passed>> /\ req[r].pc \in NotifyPC
        /\ "n_transition" \in NotifyPC
    BY <1>3 DEF NotifyRequest, NotifyPC, store, history
  <2>1. ASSUME NEW q, q = [req[r] EXCEPT !.pc = "n_transition", !.from = "pending"],
               req' = [req EXCEPT ![r] = q]
        PROVE  Evidence' /\ Frame
    <3>1. /\ q.pc = "n_transition" /\ q.op = req[r].op /\ q.sid = req[r].sid
          /\ q.held = req[r].held /\ q.done = req[r].done /\ q.auto = req[r].auto
      BY <1>0, <2>1 DEF RequestRecord
    <3> QED BY <1>a, <2>0, <2>1, <3>1
  <2>2. CASE HcAuthFails(r)
    BY <2>0, <2>2, HcAuthFailsKeeps
  <2> QED BY <1>3, <2>1, <2>2 DEF NotifyRequest
<1>4. CASE NotifyTransition(r)
  <2>0. /\ UNCHANGED <<status, held, done, passed>> /\ req[r].pc \in NotifyPC
        /\ "n_verified" \in NotifyPC
    BY <1>4 DEF NotifyTransition, NotifyPC, store
  <2>1. CASE Goto(r, "n_verified")
    BY <2>0, <2>1, NotifyGotoKeeps
  <2>2. CASE HcAuthFails(r)
    BY <2>0, <2>2, HcAuthFailsKeeps
  <2> QED BY <1>4, <2>1, <2>2 DEF NotifyTransition
<1>5. CASE NotifyVerified(r)
  <2>0. /\ UNCHANGED <<status, held, done, passed>> /\ req[r].pc \in NotifyPC
        /\ "n_link" \in NotifyPC
    BY <1>5 DEF NotifyVerified, NotifyPC, store, history
  <2>1. ASSUME NEW q, q = [req[r] EXCEPT !.pc = "n_link", !.steps = @ \cup {"hc-auth"}],
               req' = [req EXCEPT ![r] = q]
        PROVE  Evidence' /\ Frame
    <3>1. /\ q.pc = "n_link" /\ q.op = req[r].op /\ q.sid = req[r].sid
          /\ q.held = req[r].held /\ q.done = req[r].done /\ q.auto = req[r].auto
      BY <1>0, <2>1 DEF RequestRecord
    <3> QED BY <1>a, <2>0, <2>1, <3>1
  <2>2. CASE HcAuthFails(r)
    BY <2>0, <2>2, HcAuthFailsKeeps
  <2> QED BY <1>5, <2>1, <2>2 DEF NotifyVerified
<1>6. CASE NotifyLinkers(r)
  <2>0. UNCHANGED <<status, held, done, passed>> /\ req[r].pc \in NotifyPC
    BY <1>6 DEF NotifyLinkers, NotifyPC, store, history
  <2>1. ASSUME NEW q, q = [req[r] EXCEPT !.pc = NotifyDone(r), !.steps = @ \cup {"linkers"}],
               req' = [req EXCEPT ![r] = q]
        PROVE  Evidence' /\ Frame
    <3>1. /\ q.pc = NotifyDone(r) /\ q.op = req[r].op /\ q.sid = req[r].sid
          /\ q.held = req[r].held /\ q.done = req[r].done /\ q.auto = req[r].auto
      BY <1>0, <2>1 DEF RequestRecord
    <3> QED BY <1>a, <2>0, <2>1, <3>1
  <2>2. CASE Goto(r, NotifyDone(r))
    BY <2>0, <2>2, NotifyGotoKeeps
  <2>3. CASE Throw(r)
    BY <2>0, <2>3, FinishStep DEF Throw
  <2> QED BY <1>6, <2>1, <2>2, <2>3 DEF NotifyLinkers
<1>7. CASE MakeReady(r)
  <2> DEFINE s == req[r].sid
  <2>1. s \in Sid /\ OnSession(req[r])
    BY <1>0, <1>7 DEF MakeReady, Control, OnSession, SessionPC
  <2>2. /\ status[s] # "unborn" /\ ViewDone(r) \subseteq passed[s]
        /\ Satisfied(held[s], ViewDone(r))
    BY <1>0, <1>7, <2>1 DEF RequestEvidence, MakeReady
  <2>3. Admits(passed[s])
    <3>1. Covers(held[s], passed[s])
      BY <2>1, <2>2 DEF Evidence, SessionEvidence
    <3> QED BY <2>2, <3>1, SatisfiedAdmits
  <2>4. UNCHANGED <<held, passed>>
    BY <1>7 DEF MakeReady
  <2>5. \A u \in Sid : \/ status'[u] = status[u]
                       \/ status[u] # "unborn" /\ status'[u] = "gone"
                       \/ u = s /\ status'[u] = "ready"
    BY <1>7, RemoveDrops DEF MakeReady, SetStatus, TypeOK
  <2>6. done' = done \/ done' = [done EXCEPT ![s] = ViewDone(r)]
    BY <1>7 DEF MakeReady, WriteChallenges
  <2>7. Shared => ViewDone(r) = done[s]
    BY DEF ViewDone
  <2>8. Frame
    BY <2>1, <2>2, <2>3, <2>4, <2>5, <2>6, <2>7, WriteFrame
  <2>9. req'[r] = Idle /\ \A t \in Request \ {r} : req'[t] = req[t]
    BY <1>7, ReqUpdated DEF MakeReady, Finish
  <2>10. RequestEvidence(r)'
    BY <2>9, QuietEvidence DEF Idle, QuietPC
  <2> QED BY <2>8, <2>9, <2>10, FrameKeeps
<1> QED BY <1>1, <1>2, <1>3, <1>4, <1>5, <1>6, <1>7 DEF ReadyPathStep

\* A handler on a session, before its ready path, that moves on.
LEMMA OnSessionKeeps ==
  ASSUME TypeOK, ControlOK, Evidence, Frame, NEW r \in Request, OnSession(req[r]),
         NEW q, req' = [req EXCEPT ![r] = q], q.sid = req[r].sid, q.op \notin JoinOp,
         q.pc \in {"c_check", "v_plugin", "v_answer", "s_pass", "s_reject"},
         Shared \/ q.done \subseteq passed'[q.sid],
         q.pc = "v_answer" /\ q.right => q.method \in passed'[q.sid],
         q.pc = "s_pass" => Approval \in passed'[q.sid]
  PROVE  Evidence' /\ Frame
<1>1. req'[r] = q /\ \A t \in Request \ {r} : req'[t] = req[t]
  BY ReqUpdated
<1>2. q.sid \in Sid /\ status[q.sid] # "unborn"
  BY DEF Evidence, RequestEvidence, ControlOK, Control
<1>3. status'[q.sid] # "unborn" /\ done'[q.sid] \subseteq passed'[q.sid]
  BY <1>2 DEF Frame
<1>4. ViewDone(r)' \subseteq passed'[q.sid]
  BY <1>1, <1>3 DEF ViewDone, Shared
<1>5. q.pc # "j_delete" /\ q.pc # "j_create" /\ q.pc \notin NotifyPC /\ q.pc # "c_ready"
  BY DEF NotifyPC
<1>6. RequestEvidence(r)'
  BY <1>1, <1>3, <1>4, <1>5 DEF RequestEvidence
<1> QED BY <1>1, <1>6, FrameKeeps

\* The steps of POST .../verify.
LEMMA VerifyStepEvidence ==
  ASSUME TypeOK, ControlOK, Evidence, NEW r \in Request, VerifyStep(r)
  PROVE  Evidence' /\ Frame
<1> DEFINE s == req[r].sid
           m == req[r].method
<1>0. req[r] \in RequestRecord /\ Control(req[r]) /\ RequestEvidence(r)
  BY DEF TypeOK, ControlOK, Evidence
<1>1. req[r].pc \in SessionPC
  BY DEF VerifyStep, VerifyCheck, VerifyPlugin, VerifyAnswer, VerifyPC, SessionPC
<1>2. OnSession(req[r]) /\ req[r].op \notin JoinOp /\ s \in Sid
  BY <1>0, <1>1 DEF Control, OnSession
<1>3. status[s] # "unborn" /\ ViewDone(r) \subseteq passed[s]
  BY <1>0, <1>2 DEF RequestEvidence
<1>4. Shared \/ req[r].done \subseteq passed[s]
  BY <1>3 DEF ViewDone
<1>5. CASE VerifyCheck(r)
  <2>0. UNCHANGED <<status, held, done, passed>>
    BY <1>5 DEF VerifyCheck, history
  <2>1. Frame
    BY <2>0, DropFrame
  <2>2. CASE Finish(r)
    BY <2>0, <2>2, FinishStep
  <2>3. CASE Goto(r, "c_check")
    <3> DEFINE q == [req[r] EXCEPT !.pc = "c_check"]
    <3>1. q.pc = "c_check" /\ q.sid = s /\ q.op = req[r].op /\ q.done = req[r].done
      BY <1>0 DEF RequestRecord
    <3>2. req' = [req EXCEPT ![r] = q]
      BY <2>3 DEF Goto
    <3> HIDE DEF q
    <3> QED BY <1>2, <1>4, <2>0, <2>1, <3>1, <3>2, OnSessionKeeps
  <2>4. ASSUME NEW t, req' = [req EXCEPT ![r] = [req[r] EXCEPT !.pc = "v_plugin", !.tries = t]]
        PROVE  Evidence' /\ Frame
    <3> DEFINE q == [req[r] EXCEPT !.pc = "v_plugin", !.tries = t]
    <3>1. q.pc = "v_plugin" /\ q.sid = s /\ q.op = req[r].op /\ q.done = req[r].done
      BY <1>0 DEF RequestRecord
    <3>2. req' = [req EXCEPT ![r] = q]
      BY <2>4
    <3> HIDE DEF q
    <3> QED BY <1>2, <1>4, <2>0, <2>1, <3>1, <3>2, OnSessionKeeps
  <2> QED BY <1>5, <2>2, <2>3, <2>4 DEF VerifyCheck
<1>6. CASE VerifyPlugin(r)
  <2>0. UNCHANGED <<status, held, done>>
    BY <1>6 DEF VerifyPlugin, store
  <2>1. passed' = passed \/ passed' = [passed EXCEPT ![s] = @ \cup {m}]
    BY <1>6 DEF VerifyPlugin
  <2>2. Frame
    BY <1>2, <1>3, <2>0, <2>1, PassFrame
  <2>3. passed \in [Sid -> SUBSET Method]
    BY DEF TypeOK
  <2>4. passed[s] \subseteq passed'[s]
    BY <1>2, <1>3, <2>2 DEF Frame
  <2>5. Shared \/ req[r].done \subseteq passed'[s]
    BY <1>4, <2>4
  <2>6. ASSUME NEW right, right => m \in passed'[s],
               req' = [req EXCEPT ![r] = [req[r] EXCEPT !.pc = "v_answer", !.right = right]]
        PROVE  Evidence' /\ Frame
    <3> DEFINE q == [req[r] EXCEPT !.pc = "v_answer", !.right = right]
    <3>1. /\ q.pc = "v_answer" /\ q.sid = s /\ q.op = req[r].op /\ q.done = req[r].done
          /\ q.right = right /\ q.method = m
      BY <1>0 DEF RequestRecord
    <3>2. req' = [req EXCEPT ![r] = q]
      BY <2>6
    <3> HIDE DEF q
    <3> QED BY <1>2, <2>2, <2>5, <2>6, <3>1, <3>2, OnSessionKeeps
  <2>7. CASE Finish(r) /\ passed' = passed
    BY <2>0, <2>7, FinishStep
  <2>8. CASE m # Approval /\ req' = [req EXCEPT ![r].pc = "v_answer"]
    <3>1. req[r].right => m \in passed'[s]
      BY <1>2, <1>6, <2>3, <2>8 DEF VerifyPlugin
    <3> DEFINE q == [req[r] EXCEPT !.pc = "v_answer"]
    <3>2. /\ q.pc = "v_answer" /\ q.sid = s /\ q.op = req[r].op /\ q.done = req[r].done
          /\ q.right = req[r].right /\ q.method = m
      BY <1>0 DEF RequestRecord
    <3>3. req' = [req EXCEPT ![r] = q]
      BY <2>8
    <3> HIDE DEF q
    <3> QED BY <1>2, <2>2, <2>5, <3>1, <3>2, <3>3, OnSessionKeeps
  <2>9. CASE /\ m = Approval
             /\ req' = [req EXCEPT ![r].pc = "v_answer", ![r].right = (record = "authorized")]
             /\ passed' = IF record = "authorized"
                          THEN [passed EXCEPT ![s] = @ \cup {Approval}] ELSE passed
    <3>1. record = "authorized" => m \in passed'[s]
      BY <1>2, <2>3, <2>9
    <3> QED BY <2>6, <2>9, <3>1
  <2> QED BY <1>6, <2>7, <2>8, <2>9 DEF VerifyPlugin
<1>7. CASE VerifyAnswer(r)
  <2> DEFINE d == IF req[r].right THEN ViewDone(r) \cup {m} ELSE ViewDone(r)
             own == IF Shared THEN req[r].done ELSE d
             q == [req[r] EXCEPT !.pc = "c_check", !.done = own]
  <2>1. d \subseteq passed[s]
    BY <1>0, <1>3, <1>7 DEF VerifyAnswer, RequestEvidence
  <2>2. Shared => done[s] \subseteq d
    BY DEF ViewDone
  <2>3. UNCHANGED <<held, passed>>
    BY <1>7 DEF VerifyAnswer, history
  <2>4. done' = done \/ done' = [done EXCEPT ![s] = d]
    BY <1>7 DEF VerifyAnswer, WriteChallenges
  <2>5. \A u \in Sid : \/ status'[u] = status[u]
                       \/ status[u] # "unborn" /\ status'[u] = "gone"
    BY <1>7, RemoveDrops DEF VerifyAnswer, KeepStatus
  <2> HIDE DEF d
  <2>6. Frame
    BY <1>2, <1>3, <2>1, <2>2, <2>3, <2>4, <2>5, WriteFrame
  <2>7. CASE Finish(r)
    <3>1. req'[r] = Idle /\ \A t \in Request \ {r} : req'[t] = req[t]
      BY <2>7, ReqUpdated DEF Finish
    <3>2. RequestEvidence(r)'
      BY <3>1, QuietEvidence DEF Idle, QuietPC
    <3> QED BY <2>6, <3>1, <3>2, FrameKeeps
  <2>8. CASE req' = [req EXCEPT ![r] = q]
    <3>1. Shared \/ own \subseteq passed[s]
      BY <2>1
    <3> HIDE DEF own
    <3>2. q.pc = "c_check" /\ q.sid = s /\ q.op = req[r].op /\ q.done = own
      BY <1>0 DEF RequestRecord
    <3> HIDE DEF q
    <3> QED BY <1>2, <2>3, <2>6, <2>8, <3>1, <3>2, OnSessionKeeps
  <2> QED BY <1>7, <2>7, <2>8 DEF VerifyAnswer, d
<1> QED BY <1>5, <1>6, <1>7 DEF VerifyStep

\* The steps of GET .../status.
LEMMA StatusStepEvidence ==
  ASSUME TypeOK, ControlOK, Evidence, NEW r \in Request, StatusStep(r)
  PROVE  Evidence' /\ Frame
<1> DEFINE s == req[r].sid
<1>0. req[r] \in RequestRecord /\ Control(req[r]) /\ RequestEvidence(r)
  BY DEF TypeOK, ControlOK, Evidence
<1>1. req[r].pc \in SessionPC
  BY DEF StatusStep, StatusRecord, StatusPass, StatusReject, SessionPC
<1>2. OnSession(req[r]) /\ req[r].op \notin JoinOp /\ s \in Sid
  BY <1>0, <1>1 DEF Control, OnSession
<1>3. status[s] # "unborn" /\ ViewDone(r) \subseteq passed[s]
  BY <1>0, <1>2 DEF RequestEvidence
<1>4. Shared \/ req[r].done \subseteq passed[s]
  BY <1>3 DEF ViewDone
<1>5. CASE StatusRecord(r)
  <2>0. UNCHANGED <<status, held, done>>
    BY <1>5 DEF StatusRecord, store
  <2>1. passed' = passed \/ passed' = [passed EXCEPT ![s] = @ \cup {Approval}]
    BY <1>5 DEF StatusRecord
  <2>2. Frame
    BY <1>2, <1>3, <2>0, <2>1, PassFrame
  <2>3. passed[s] \subseteq passed'[s]
    BY <1>2, <1>3, <2>2 DEF Frame
  <2>4. Shared \/ req[r].done \subseteq passed'[s]
    BY <1>4, <2>3
  <2>5. ASSUME NEW pc \in {"s_pass", "s_reject", "c_check"}, Goto(r, pc),
               pc = "s_pass" => Approval \in passed'[s]
        PROVE  Evidence' /\ Frame
    <3> DEFINE q == [req[r] EXCEPT !.pc = pc]
    <3>1. q.pc = pc /\ q.sid = s /\ q.op = req[r].op /\ q.done = req[r].done
      BY <1>0 DEF RequestRecord
    <3>2. req' = [req EXCEPT ![r] = q]
      BY <2>5 DEF Goto
    <3> HIDE DEF q
    <3> QED BY <1>2, <2>2, <2>4, <2>5, <3>1, <3>2, OnSessionKeeps
  <2>6. passed \in [Sid -> SUBSET Method]
    BY DEF TypeOK
  <2>7. CASE Goto(r, "s_pass") /\ passed' = [passed EXCEPT ![s] = @ \cup {Approval}]
    <3>1. Approval \in passed'[s]
      BY <1>2, <2>6, <2>7
    <3> QED BY <2>5, <2>7, <3>1
  <2>8. CASE Goto(r, "s_reject") \/ Goto(r, "c_check")
    BY <2>5, <2>8
  <2> QED BY <1>5, <2>7, <2>8 DEF StatusRecord
<1>6. CASE StatusPass(r)
  <2> DEFINE d == ViewDone(r) \cup {Approval}
             own == IF Shared THEN req[r].done ELSE d
             q == [req[r] EXCEPT !.pc = "c_check", !.done = own]
  <2>1. d \subseteq passed[s]
    BY <1>0, <1>3, <1>6 DEF StatusPass, RequestEvidence
  <2>2. Shared => done[s] \subseteq d
    BY DEF ViewDone
  <2>3. UNCHANGED <<held, passed>>
    BY <1>6 DEF StatusPass, history
  <2>4. done' = done \/ done' = [done EXCEPT ![s] = d]
    BY <1>6 DEF StatusPass, WriteChallenges
  <2>5. \A u \in Sid : \/ status'[u] = status[u]
                       \/ status[u] # "unborn" /\ status'[u] = "gone"
    BY <1>6, RemoveDrops DEF StatusPass, KeepStatus
  <2>6. req' = [req EXCEPT ![r] = q]
    BY <1>6 DEF StatusPass
  <2> HIDE DEF d
  <2>7. Frame
    BY <1>2, <1>3, <2>1, <2>2, <2>3, <2>4, <2>5, WriteFrame
  <2>8. Shared \/ own \subseteq passed[s]
    BY <2>1
  <2> HIDE DEF own
  <2>9. q.pc = "c_check" /\ q.sid = s /\ q.op = req[r].op /\ q.done = own
    BY <1>0 DEF RequestRecord
  <2> HIDE DEF q
  <2> QED BY <1>2, <2>3, <2>6, <2>7, <2>8, <2>9, OnSessionKeeps
<1>7. CASE StatusReject(r)
  <2>1. UNCHANGED <<held, passed>>
    BY <1>7 DEF StatusReject, history
  <2>2. done' = done \/ done' = [done EXCEPT ![s] = ViewDone(r)]
    BY <1>7 DEF StatusReject, WriteChallenges
  <2>3. \A u \in Sid : \/ status'[u] = status[u]
                       \/ status[u] # "unborn" /\ status'[u] = "gone"
                       \/ u = s /\ status'[u] = "rejected"
    BY <1>7, RemoveDrops DEF StatusReject, SetStatus, TypeOK
  <2>4. Shared => done[s] \subseteq ViewDone(r)
    BY DEF ViewDone
  <2>5. Frame
    BY <1>2, <1>3, <2>1, <2>2, <2>3, <2>4, WriteFrame
  <2>6. req'[r] = Idle /\ \A t \in Request \ {r} : req'[t] = req[t]
    BY <1>7, ReqUpdated DEF StatusReject, Finish
  <2>7. RequestEvidence(r)'
    BY <2>6, QuietEvidence DEF Idle, QuietPC
  <2> QED BY <2>5, <2>6, <2>7, FrameKeeps
<1> QED BY <1>5, <1>6, <1>7 DEF StatusStep

\* The steps of provision and reconnect.
LEMMA ServeStepEvidence ==
  ASSUME TypeOK, ControlOK, Evidence, NEW r \in Request, ServeStep(r)
  PROVE  Evidence' /\ Frame
<1>0. req[r] \in RequestRecord
  BY DEF TypeOK
<1>1. CASE ProvisionRecord(r) \/ ReconnectRecord(r)
  <2>0. UNCHANGED <<status, held, done, passed>>
    BY <1>1 DEF ProvisionRecord, ReconnectRecord, store, history
  <2>1. Finish(r) \/ \E pc \in QuietPC : Goto(r, pc)
    BY <1>1 DEF ProvisionRecord, ReconnectRecord, QuietPC
  <2> QED BY <2>0, <2>1, FinishStep, GotoStep
<1>2. CASE ProvisionReject(r)
  <2> DEFINE s == req[r].sid
  <2>0. UNCHANGED <<held, done, passed>>
    BY <1>2 DEF ProvisionReject, history
  <2>1. req'[r] = Idle /\ \A t \in Request \ {r} : req'[t] = req[t]
    BY <1>2, ReqUpdated DEF ProvisionReject, Finish
  <2>2. RequestEvidence(r)'
    BY <2>1, QuietEvidence DEF Idle, QuietPC
  <2>3. CASE s \in Sid /\ status[s] \in Status
    <3>1. \A u \in Sid : \/ status'[u] = status[u]
                         \/ status[u] # "unborn" /\ status'[u] = "gone"
                         \/ u = s /\ status'[u] = "rejected"
      BY <1>2, RemoveDrops DEF ProvisionReject, SetStatus, TypeOK
    <3>2. status[s] # "unborn"
      BY <2>3 DEF Status
    <3>3. done[s] \subseteq passed[s]
      BY <2>3, <3>2 DEF Evidence, SessionEvidence
    <3>4. Frame
      BY <2>0, <2>3, <3>1, <3>2, <3>3, WriteFrame
    <3> QED BY <2>1, <2>2, <3>4, FrameKeeps
  <2>4. CASE ~(s \in Sid /\ status[s] \in Status)
    <3>1. \A u \in Sid : status'[u] = status[u]
      <4>1. CASE s \in Sid
        BY <1>2, <2>4, <4>1 DEF ProvisionReject, SetStatus, Updatable, Stored, Remove
      <4>2. CASE s \notin Sid
        <5>1. CASE Updatable(s)
          BY <1>2, <4>2, <5>1 DEF ProvisionReject, SetStatus, TypeOK
        <5>2. CASE ~Updatable(s)
          BY <1>2, <4>2, <5>2 DEF ProvisionReject, SetStatus, Remove
        <5> QED BY <5>1, <5>2
      <4> QED BY <4>1, <4>2
    <3> QED BY <2>0, <2>1, <2>2, <3>1, DropFrame, FrameKeeps
  <2> QED BY <2>3, <2>4
<1>3. CASE ProvisionServe(r) \/ ReconnectAnswer(r)
  BY <1>3, FinishStep DEF ProvisionServe, ReconnectAnswer, store, history
<1>4. CASE ReconnectScope(r)
  <2>0. UNCHANGED <<held, done, passed>>
    BY <1>4 DEF ReconnectScope, history
  <2>1. \A s \in Sid : status'[s] = status[s] \/ (status[s] # "unborn" /\ status'[s] = "gone")
    BY <1>4, RemoveDrops DEF ReconnectScope, PruneCandidate
  <2>2. CASE Finish(r)
    BY <2>0, <2>1, <2>2, FinishStep
  <2>3. ASSUME NEW token, req' = [req EXCEPT ![r] = [req[r] EXCEPT !.pc = "r_answer", !.sid = token]]
        PROVE  Evidence' /\ Frame
    <3>1. [req[r] EXCEPT !.pc = "r_answer", !.sid = token].pc \in QuietPC
      BY <1>0 DEF RequestRecord, QuietPC
    <3> QED BY <2>0, <2>1, <2>3, <3>1, QuietStep
  <2> QED BY <1>4, <2>2, <2>3 DEF ReconnectScope
<1> QED BY <1>1, <1>2, <1>3, <1>4 DEF ServeStep

\* A handler that reads a stored session starts from what is recorded there.
LEMMA ReadingEvidence ==
  ASSUME TypeOK, ControlOK, Evidence, NEW r \in Request, NEW s \in Sid, Stored(s),
         UNCHANGED <<status, held, done, passed>>,
         NEW q, req' = [req EXCEPT ![r] = q], q.sid = s, q.op \notin JoinOp,
         q.pc \in {"v_check", "s_poll", "c_check"}, Shared \/ q.done = done[s]
  PROVE  Evidence' /\ Frame
<1>1. req'[r] = q /\ \A t \in Request \ {r} : req'[t] = req[t]
  BY ReqUpdated
<1>2. status[s] # "unborn"
  BY DEF Stored, Status
<1>3. done[s] \subseteq passed[s]
  BY <1>2 DEF Evidence, SessionEvidence
<1>4. ViewDone(r)' \subseteq passed'[s]
  BY <1>1, <1>3 DEF ViewDone, Shared
<1>5. /\ q.pc # "j_delete" /\ q.pc # "j_create" /\ q.pc \notin NotifyPC
      /\ q.pc # "c_ready" /\ q.pc # "v_answer" /\ q.pc # "s_pass"
  BY DEF NotifyPC
<1>6. RequestEvidence(r)'
  BY <1>1, <1>2, <1>4, <1>5 DEF RequestEvidence
<1> QED BY <1>1, <1>6, DropFrame, FrameKeeps

\* The arrival of any request.
LEMMA ArriveEvidence ==
  ASSUME TypeOK, ControlOK, Evidence, NEW r \in Request, Arrive(r)
  PROVE  Evidence' /\ Frame
<1>1. ASSUME NEW n \in Network, NEW op \in JoinOp, Join(r, n, op)
      PROVE  Evidence' /\ Frame
  <2> DEFINE c == FindByAgentKey(n)
             auto == IF op = "delegated" THEN {Delegated} ELSE {}
             pc == IF c = NoSid THEN JoinStart(op) ELSE "j_delete"
             q == [Idle EXCEPT !.op = op, !.net = n, !.sid = c, !.auto = auto, !.pc = pc]
  <2>1. UNCHANGED <<held, done, passed>>
    BY <1>1 DEF Join
  <2>2. \A s \in Sid : status'[s] = status[s] \/ (status[s] # "unborn" /\ status'[s] = "gone")
    BY <1>1, RemoveDrops DEF Join, PruneCandidate
  <2>3. req' = [req EXCEPT ![r] = q]
    BY <1>1 DEF Join
  <2> HIDE DEF c, auto, pc
  <2>4. q.op = op /\ q.auto = auto /\ q.pc = pc
    BY IdleOK DEF RequestRecord
  <2> HIDE DEF q
  <2>5. req'[r] = q /\ \A t \in Request \ {r} : req'[t] = req[t]
    BY <2>3, ReqUpdated
  <2>6. RequestEvidence(r)'
    <3>1. CASE op = "join" /\ c = NoSid
      BY <2>4, <2>5, <3>1, JoinStartTargets, QuietEvidence DEF QuietPC, pc
    <3>2. CASE op = "join" /\ c # NoSid
      BY <2>4, <2>5, <3>2, JoiningEvidence DEF NotifyPC, SessionPC, VerifyPC, pc
    <3>3. CASE op = "delegated"
      <4>1. Delegated \in q.auto
        BY <2>4, <3>3 DEF auto
      <4>2. q.pc \in {"j_delete", "n_get", "n_link", "n_verified"}
        BY <2>4, <3>3, JoinStartTargets DEF pc
      <4> QED BY <2>4, <2>5, <4>1, <4>2, JoiningEvidence DEF Covers, SessionPC, VerifyPC
    <3> QED BY <3>1, <3>2, <3>3 DEF JoinOp
  <2> QED BY <2>1, <2>2, <2>5, <2>6, DropFrame, FrameKeeps
<1>2. \A op \in {"verify", "status", "resume"} : op \notin JoinOp
  BY DEF JoinOp
<1>3. ASSUME NEW n \in Network, Resume(r, n)
      PROVE  Evidence' /\ Frame
  <2> DEFINE c == FindByAgentKey(n)
             q == Reading(c, "resume", "c_check")
  <2>1. c \in Sid /\ Stored(c)
    BY <1>3 DEF Resume, FindByAgentKey, Live
  <2>2. req' = [req EXCEPT ![r] = q] /\ UNCHANGED <<status, held, done, passed>>
    BY <1>3 DEF Resume, store, history
  <2> HIDE DEF c
  <2>3. /\ q.pc = "c_check" /\ q.op = "resume" /\ q.sid = c
        /\ Shared \/ q.done = done[c]
    BY <2>1, ReadingType
  <2> HIDE DEF q
  <2> QED BY <1>2, <2>1, <2>2, <2>3, ReadingEvidence
<1>4. ASSUME NEW s \in Sid, NEW m \in Method, NEW right \in BOOLEAN, Verify(r, s, m, right)
      PROVE  Evidence' /\ Frame
  <2> DEFINE p == Reading(s, "verify", "v_check")
             q == [p EXCEPT !.method = m, !.right = right]
  <2>1. /\ p \in RequestRecord /\ p.pc = "v_check" /\ p.op = "verify" /\ p.sid = s
        /\ Shared \/ p.done = done[s]
    BY ReadingType
  <2>2. /\ req' = [req EXCEPT ![r] = q] /\ UNCHANGED <<status, held, done, passed>>
        /\ Stored(s)
    BY <1>4 DEF Verify, store, history, Live
  <2> HIDE DEF p
  <2>3. /\ q.pc = "v_check" /\ q.op = "verify" /\ q.sid = s
        /\ Shared \/ q.done = done[s]
    BY <2>1 DEF RequestRecord
  <2> HIDE DEF q
  <2> QED BY <1>2, <2>2, <2>3, ReadingEvidence
<1>5. ASSUME NEW s \in Sid, StatusPoll(r, s)
      PROVE  Evidence' /\ Frame
  <2> DEFINE pc == IF Approval \in held[s] \ done[s] THEN "s_poll" ELSE "c_check"
             q == Reading(s, "status", pc)
  <2>1. pc \in {"s_poll", "c_check"}
    OBVIOUS
  <2>2. /\ req' = [req EXCEPT ![r] = q] /\ UNCHANGED <<status, held, done, passed>>
        /\ Stored(s)
    BY <1>5 DEF StatusPoll, store, history, Live
  <2> HIDE DEF pc
  <2>3. /\ q.pc = pc /\ q.op = "status" /\ q.sid = s
        /\ Shared \/ q.done = done[s]
    BY <2>1, ReadingType
  <2> HIDE DEF q
  <2> QED BY <1>2, <2>1, <2>2, <2>3, ReadingEvidence
<1>6. ASSUME NEW s \in Sid, Provision(r, s)
      PROVE  Evidence' /\ Frame
  <2> DEFINE pc == IF HcAuth # "off" /\ Approval \in held[s] THEN "p_record" ELSE "p_serve"
             q == [Idle EXCEPT !.op = "provision", !.sid = s, !.pc = pc]
  <2>1. q.pc \in QuietPC
    BY IdleOK DEF RequestRecord, QuietPC
  <2>2. req' = [req EXCEPT ![r] = q] /\ UNCHANGED <<status, held, done, passed>>
    BY <1>6 DEF Provision, store
  <2> HIDE DEF q
  <2> QED BY <2>1, <2>2, QuietStep
<1>7. ASSUME NEW n \in Network, Reconnect(r, n)
      PROVE  Evidence' /\ Frame
  <2> DEFINE pc == IF HcAuth = "off" THEN "r_scope" ELSE "r_record"
             q == [Idle EXCEPT !.op = "reconnect", !.net = n, !.pc = pc]
  <2>1. q.pc \in QuietPC
    BY IdleOK DEF RequestRecord, QuietPC
  <2>2. req' = [req EXCEPT ![r] = q] /\ UNCHANGED <<status, held, done, passed>>
    BY <1>7 DEF Reconnect, store
  <2> HIDE DEF q
  <2> QED BY <2>1, <2>2, QuietStep
<1> QED BY <1>1, <1>3, <1>4, <1>5, <1>6, <1>7 DEF Arrive, JoinOp

\* No session is born at first.
LEMMA InitEvidence == Init => Evidence
<1> SUFFICES ASSUME Init PROVE Evidence
  OBVIOUS
<1>1. \A s \in Sid : SessionEvidence(s)
  BY DEF Init, SessionEvidence
<1>2. \A r \in Request : RequestEvidence(r)
  BY DEF Init, Idle, RequestEvidence, OnSession, SessionPC, NotifyPC, VerifyPC
<1>3. ReadyOnlyIfAdmitted
  BY DEF Init, ReadyOnlyIfAdmitted
<1> QED BY <1>1, <1>2, <1>3 DEF Evidence

\* A step of the servers, the operator or the clock: every request keeps what
\* it holds, or loses it all.
LEMMA OutsideEvidence ==
  ASSUME TypeOK, ControlOK, Evidence, UNCHANGED <<held, done, passed>>,
         \A s \in Sid : status'[s] = status[s] \/ (status[s] # "unborn" /\ status'[s] = "gone"),
         \A r \in Request : req'[r] = req[r] \/ req'[r] = Idle
  PROVE  Evidence' /\ Frame
<1>1. Frame
  BY DropFrame
<1>2. ASSUME NEW r \in Request
      PROVE  RequestEvidence(r)'
  <2>1. Idle.pc \in QuietPC
    BY DEF Idle, QuietPC
  <2> QED BY <1>1, <2>1, OthersKeep, QuietEvidence
<1>3. ASSUME NEW s \in Sid
      PROVE  SessionEvidence(s)'
  BY DEF Evidence, SessionEvidence
<1>4. ReadyOnlyIfAdmitted'
  BY <1>1 DEF Frame, ReadyOnlyIfAdmitted
<1> QED BY <1>1, <1>2, <1>3, <1>4 DEF Evidence

\* Every step keeps the evidence and does no more than Frame to a session.
LEMMA NextEvidence ==
  ASSUME TypeOK, ControlOK, Evidence, [Next]_vars
  PROVE  Evidence' /\ Frame
<1>1. ASSUME NEW r \in Request, Arrive(r)
      PROVE  Evidence' /\ Frame
  BY <1>1, ArriveEvidence
<1>2. ASSUME NEW r \in Request, Step(r)
      PROVE  Evidence' /\ Frame
  BY <1>2, JoinStepEvidence, ReadyPathStepEvidence, VerifyStepEvidence,
     StatusStepEvidence, ServeStepEvidence DEF Step
<1>3. CASE UNCHANGED vars
  BY <1>3, OutsideEvidence DEF vars, store, history
<1>4. CASE Approve \/ Block \/ Unblock
  BY <1>4, OutsideEvidence DEF Approve, Block, Unblock, Operator, store
<1>5. ASSUME NEW s \in Sid, Age(s)
      PROVE  Evidence' /\ Frame
  BY <1>5, OutsideEvidence DEF Age, history
<1>6. ASSUME NEW s \in Sid, PruneExpired(s)
      PROVE  Evidence' /\ Frame
  BY <1>6, RemoveDrops, OutsideEvidence DEF PruneExpired, history
<1>7. CASE Restart
  <2>1. \A s \in Sid : status'[s] = status[s] \/ (status[s] # "unborn" /\ status'[s] = "gone")
    BY <1>7 DEF Restart, Stored, Status
  <2>2. UNCHANGED <<held, done, passed>> /\ \A r \in Request : req'[r] = Idle
    BY <1>7 DEF Restart
  <2> QED BY <2>1, <2>2, OutsideEvidence
<1> QED BY <1>1, <1>2, <1>3, <1>4, <1>5, <1>6, <1>7 DEF Next, Wait

\* Whatever the configuration, the store, and the order in which handlers of
\* one session overtake each other: a session is ready only if every entry of
\* auth_methods was really passed for it.
THEOREM Admission == Spec => []ReadyOnlyIfAdmitted
<1>1. Init => Evidence
  BY InitEvidence
<1>2. TypeOK /\ ControlOK /\ Evidence /\ [Next]_vars => Evidence'
  BY NextEvidence
<1>3. Evidence => ReadyOnlyIfAdmitted
  BY DEF Evidence
<1> QED BY <1>1, <1>2, <1>3, TypeCorrect, PTL DEF Spec

\* Over the memory store, whose handlers share the challenge objects, a
\* completed challenge stays completed: no handler writes back an older list.
THEOREM CompletionInMemory ==
  ASSUME Store = "memory"
  PROVE  Spec => CompletionKept
<1>1. Init => Evidence
  BY InitEvidence
<1>2. TypeOK /\ ControlOK /\ Evidence /\ [Next]_vars => Evidence'
  BY NextEvidence
<1>3. TypeOK /\ ControlOK /\ Evidence /\ [Next]_vars
        => [\A s \in Sid : Stored(s) => done[s] \subseteq done'[s]]_vars
  <2> SUFFICES ASSUME TypeOK, ControlOK, Evidence, [Next]_vars, NEW s \in Sid, Stored(s)
               PROVE  done[s] \subseteq done'[s]
    OBVIOUS
  <2>1. Frame
    BY NextEvidence
  <2>2. status[s] # "unborn" /\ Shared
    BY DEF Stored, Status, Shared
  <2> QED BY <2>1, <2>2 DEF Frame
<1> QED BY <1>1, <1>2, <1>3, TypeCorrect, PTL DEF Spec, CompletionKept

-----------------------------------------------------------------------------
(* The sessions implement SessionLife.                                     *)

\* The entries SessionLife is told of admit whom auth_methods admits.
LEMMA AdmittedAsAsked ==
  ASSUME NEW p \in SUBSET Method
  PROVE  Admits(p) <=> Life!Admitted(p)
<1> DEFINE Entries == Groups \cup {{m} : m \in Ungrouped}
<1>1. Life!Admitted(p) <=> \A e \in Entries : (e \cup {Delegated}) \cap p # {}
  <2>1. Life!Admitted(p) <=>
            \A a \in {(e \cup {Delegated}) \cap Method : e \in Entries} : a \cap p # {}
    BY DEF Life!Admitted
  <2>2. \A e : ((e \cup {Delegated}) \cap Method) \cap p = (e \cup {Delegated}) \cap p
    OBVIOUS
  <2> HIDE DEF Entries
  <2> QED BY <2>1, <2>2
<1>2. CASE Delegated \in p
  BY <1>1, <1>2 DEF Admits
<1>3. CASE Delegated \notin p
  <2>1. Life!Admitted(p) <=> \A e \in Entries : e \cap p # {}
    BY <1>1, <1>3
  <2>2. (\A e \in Entries : e \cap p # {})
          <=> /\ \A g \in Groups : g \cap p # {}
              /\ \A m \in Ungrouped : {m} \cap p # {}
    OBVIOUS
  <2> QED BY <2>1, <2>2, <1>3 DEF Admits
<1> QED BY <1>2, <1>3

\* Removing a session is a Drop of SessionLife, or nothing.
LEMMA RemoveLife ==
  ASSUME TypeOK, NEW s, Remove(s), UNCHANGED passed
  PROVE  [Life!Next]_(Life!lifeVars)
<1>1. CASE s \in Sid /\ Stored(s)
  <2>1. status' = [status EXCEPT ![s] = "gone"]
    BY <1>1 DEF Remove, NoSid, Sid
  <2>2. status' = [u \in Sid |-> IF u \in {s} THEN "gone" ELSE status[u]]
    BY <1>1, <2>1 DEF TypeOK
  <2>3. Life!Drop({s})
    BY <1>1, <2>2 DEF Life!Drop, Life!Exists, Stored, Status
  <2> QED BY <1>1, <2>3 DEF Life!Next
<1>2. CASE ~(s \in Sid /\ Stored(s))
  BY <1>2 DEF Remove, Life!lifeVars
<1> QED BY <1>1, <1>2

\* An update that keeps the status drops an expired session at most.
LEMMA KeepStatusLife ==
  ASSUME TypeOK, NEW s, KeepStatus(s), UNCHANGED passed
  PROVE  [Life!Next]_(Life!lifeVars)
<1>1. CASE Updatable(s)
  BY <1>1 DEF KeepStatus, Life!lifeVars
<1>2. CASE ~Updatable(s)
  BY <1>2, RemoveLife DEF KeepStatus
<1> QED BY <1>1, <1>2

\* Writing "ready" is an Admit when the checks passed admit, "rejected" a Reject.
LEMMA SetStatusLife ==
  ASSUME TypeOK, NEW s \in Sid, NEW new \in {"ready", "rejected"}, SetStatus(s, new),
         new = "ready" => Admits(passed[s]), UNCHANGED passed
  PROVE  [Life!Next]_(Life!lifeVars)
<1>1. CASE ~Updatable(s)
  BY <1>1, RemoveLife DEF SetStatus
<1>2. CASE Updatable(s)
  <2>1. Life!Exists(s) /\ status' = [status EXCEPT ![s] = new]
    BY <1>2 DEF SetStatus, Updatable, Stored, Status, Life!Exists
  <2>2. passed[s] \in SUBSET Method
    BY DEF TypeOK
  <2>3. Life!Admit(s) \/ Life!Reject(s)
    BY <2>1, <2>2, AdmittedAsAsked DEF Life!Admit, Life!Reject
  <2> QED BY <2>3 DEF Life!Next
<1> QED BY <1>1, <1>2

\* Handlers that leave the status and the history of every session alone.
LEMMA SilentSteps ==
  ASSUME NEW r \in Request,
         \/ JoinRecord(r) \/ JoinRequestAuth(r) \/ JoinRefused(r) \/ JoinAssemble(r)
         \/ JoinCreateFails(r) \/ Complete(r) \/ NotifyGet(r) \/ NotifyRequest(r)
         \/ NotifyTransition(r) \/ NotifyVerified(r) \/ NotifyLinkers(r)
         \/ VerifyCheck(r) \/ ProvisionRecord(r) \/ ProvisionServe(r)
         \/ ReconnectRecord(r) \/ ReconnectAnswer(r)
  PROVE  UNCHANGED <<status, passed>>
BY DEF JoinRecord, JoinRequestAuth, JoinRefused, JoinAssemble, JoinCreateFails, Complete,
       NotifyGet, NotifyRequest, NotifyTransition, NotifyVerified, NotifyLinkers,
       VerifyCheck, ProvisionRecord, ProvisionServe, ReconnectRecord, ReconnectAnswer,
       store, history

\* The steps of a handler that write a status or add to what was passed.
LEMMA StepLife ==
  ASSUME TypeOK, ControlOK, Evidence, NEW r \in Request, Step(r)
  PROVE  [Life!Next]_(Life!lifeVars)
<1> DEFINE q == req[r]
           s == q.sid
<1>0. q \in RequestRecord /\ Control(q) /\ RequestEvidence(r)
  BY DEF TypeOK, ControlOK, Evidence
<1>1. CASE UNCHANGED <<status, passed>>
  BY <1>1 DEF Life!lifeVars
<1>2. CASE JoinDelete(r)
  BY <1>2, RemoveLife DEF JoinDelete, history
<1>3. CASE JoinCreate(r)
  <2> PICK u \in Sid : status[u] = "unborn" /\ Create(u, q)
    BY <1>3 DEF JoinCreate
  <2> DEFINE p == q.auto \cup q.done
             new == IF Satisfied(q.held, q.done) THEN "ready" ELSE "pending"
  <2>1. p \in SUBSET Method
    BY <1>0 DEF RequestRecord
  <2>2. new = "ready" => Admits(p)
    <3>1. Covers(q.held, q.auto)
      BY <1>0, <1>3 DEF RequestEvidence, JoinCreate
    <3>2. Covers(q.held, p)
      BY <3>1, CoversMonotone
    <3> QED BY <3>2, SatisfiedAdmits
  <2>3. /\ status' = [status EXCEPT ![u] = new]
        /\ passed' = [passed EXCEPT ![u] = p]
    BY DEF Create
  <2>4. new \in {"pending", "ready"}
    OBVIOUS
  <2> HIDE DEF p, new
  <2>5. Life!Create(u)
    BY <2>1, <2>2, <2>3, <2>4, AdmittedAsAsked DEF Life!Create
  <2> QED BY <2>5 DEF Life!Next
<1>4. CASE MakeReady(r)
  <2>1. s \in Sid /\ OnSession(q)
    BY <1>0, <1>4 DEF MakeReady, Control, OnSession, SessionPC
  <2>2. /\ status[s] # "unborn" /\ ViewDone(r) \subseteq passed[s]
        /\ Satisfied(held[s], ViewDone(r))
    BY <1>0, <1>4, <2>1 DEF RequestEvidence, MakeReady
  <2>3. Covers(held[s], passed[s])
    BY <2>1, <2>2 DEF Evidence, SessionEvidence
  <2>4. Admits(passed[s])
    BY <2>2, <2>3, SatisfiedAdmits
  <2> QED BY <1>4, <2>1, <2>4, SetStatusLife DEF MakeReady
<1>5. CASE StatusReject(r)
  <2>1. s \in Sid
    BY <1>0, <1>5 DEF StatusReject, Control, OnSession, SessionPC
  <2> QED BY <1>5, <2>1, SetStatusLife DEF StatusReject, history
<1>6. CASE ProvisionReject(r)
  <2>1. CASE s \in Sid
    BY <1>6, <2>1, SetStatusLife DEF ProvisionReject, history
  <2>2. CASE s \notin Sid
    <3>1. UNCHANGED status
      BY <1>6, <2>2 DEF ProvisionReject, SetStatus, Remove, TypeOK
    <3> QED BY <1>6, <3>1 DEF ProvisionReject, history, Life!lifeVars
  <2> QED BY <2>1, <2>2
<1>7. CASE VerifyAnswer(r) \/ StatusPass(r)
  BY <1>7, KeepStatusLife DEF VerifyAnswer, StatusPass, history
<1>8. CASE ReconnectScope(r)
  BY <1>8, RemoveLife DEF ReconnectScope, PruneCandidate, history
<1>9. CASE VerifyPlugin(r) \/ StatusRecord(r)
  <2>1. OnSession(q) /\ s \in Sid
    BY <1>0, <1>9 DEF VerifyPlugin, StatusRecord, Control, OnSession, SessionPC, VerifyPC
  <2>2. status[s] # "unborn"
    BY <1>0, <2>1 DEF RequestEvidence
  <2>3. UNCHANGED status
    BY <1>9 DEF VerifyPlugin, StatusRecord, store
  <2>4. passed' = passed \/ \E m \in Method : passed' = [passed EXCEPT ![s] = @ \cup {m}]
    <3>1. CASE VerifyPlugin(r)
      <4>1. q.method \in Method
        BY <1>0, <3>1 DEF VerifyPlugin, Control, VerifyPC
      <4> QED BY <3>1, <4>1 DEF VerifyPlugin
    <3>2. CASE StatusRecord(r)
      <4>1. Approval \in Method
        BY <1>0, <3>2 DEF StatusRecord, Control
      <4> QED BY <3>2, <4>1 DEF StatusRecord
    <3> QED BY <1>9, <3>1, <3>2
  <2>5. CASE passed' = passed
    BY <2>3, <2>5, <1>1
  <2>6. ASSUME NEW m \in Method, passed' = [passed EXCEPT ![s] = @ \cup {m}]
        PROVE  Life!Next
    <3>1. Life!Pass(s, m)
      BY <2>2, <2>3, <2>6 DEF Life!Pass
    <3> QED BY <2>1, <3>1 DEF Life!Next
  <2> QED BY <2>4, <2>5, <2>6
<1> QED BY <1>1, <1>2, <1>3, <1>4, <1>5, <1>6, <1>7, <1>8, <1>9, SilentSteps
        DEF Step, JoinStep, ReadyPathStep, VerifyStep, StatusStep, ServeStep

\* An arrival drops a session at most.
LEMMA ArriveLife ==
  ASSUME TypeOK, NEW r \in Request, Arrive(r)
  PROVE  [Life!Next]_(Life!lifeVars)
<1>1. ASSUME NEW n \in Network, NEW op, Join(r, n, op)
      PROVE  [Life!Next]_(Life!lifeVars)
  BY <1>1, RemoveLife DEF Join, PruneCandidate
<1>2. ASSUME NEW n, Resume(r, n) \/ Reconnect(r, n)
      PROVE  UNCHANGED <<status, passed>>
  BY <1>2 DEF Resume, Reconnect, store, history
<1>3. ASSUME NEW s, NEW m, NEW right,
             Verify(r, s, m, right) \/ StatusPoll(r, s) \/ Provision(r, s)
      PROVE  UNCHANGED <<status, passed>>
  BY <1>3 DEF Verify, StatusPoll, Provision, store, history
<1> QED BY <1>1, <1>2, <1>3 DEF Arrive, Life!lifeVars

\* Every step is a step of SessionLife or leaves its variables alone.
LEMMA NextLife ==
  ASSUME TypeOK, ControlOK, Evidence, [Next]_vars
  PROVE  [Life!Next]_(Life!lifeVars)
<1>1. ASSUME NEW r \in Request, Arrive(r) \/ Step(r)
      PROVE  [Life!Next]_(Life!lifeVars)
  BY <1>1, ArriveLife, StepLife
<1>2. CASE UNCHANGED vars \/ Approve \/ Block \/ Unblock
  BY <1>2 DEF vars, store, history, Approve, Block, Unblock, Operator, Life!lifeVars
<1>3. ASSUME NEW s \in Sid, Age(s)
      PROVE  [Life!Next]_(Life!lifeVars)
  BY <1>3 DEF Age, history, Life!lifeVars
<1>4. ASSUME NEW s \in Sid, PruneExpired(s)
      PROVE  [Life!Next]_(Life!lifeVars)
  BY <1>4, RemoveLife DEF PruneExpired, history
<1>5. CASE Restart
  <2>1. CASE Store = "memory"
    <3> DEFINE S == {s \in Sid : Stored(s)}
    <3>1. status' = [s \in Sid |-> IF s \in S THEN "gone" ELSE status[s]]
      BY <1>5, <2>1 DEF Restart
    <3>2. \A s \in S : Life!Exists(s)
      BY DEF Stored, Status, Life!Exists
    <3>3. S \in SUBSET Sid /\ UNCHANGED passed
      BY <1>5 DEF Restart
    <3> HIDE DEF S
    <3>4. Life!Drop(S)
      BY <3>1, <3>2, <3>3 DEF Life!Drop
    <3> QED BY <3>3, <3>4 DEF Life!Next
  <2>2. CASE Store # "memory"
    BY <1>5, <2>2 DEF Restart, Life!lifeVars
  <2> QED BY <2>1, <2>2
<1> QED BY <1>1, <1>2, <1>3, <1>4, <1>5 DEF Next, Wait

\* The handlers over either store, with their awaits, failures and restarts,
\* implement SessionLife: every step on the sessions is one of its steps, or
\* leaves what it speaks of alone.
THEOREM Implementation == Spec => LifeCycle
<1>1. Init => Evidence
  BY InitEvidence
<1>2. TypeOK /\ ControlOK /\ Evidence /\ [Next]_vars => Evidence'
  BY NextEvidence
<1>3. Init => Life!Init
  BY DEF Init, Life!Init
<1>4. TypeOK /\ ControlOK /\ Evidence /\ [Next]_vars => [Life!Next]_(Life!lifeVars)
  BY NextLife
<1> QED BY <1>1, <1>2, <1>3, <1>4, TypeCorrect, PTL DEF Spec, LifeCycle, Life!Spec

=============================================================================
