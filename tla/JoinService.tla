---------------------------- MODULE JoinService ----------------------------
(***************************************************************************)
(* The request handlers of the joining service (src/src/app.ts) over a     *)
(* session store whose operations are atomic (memory-store.ts and          *)
(* sqlite-store.ts), with hc-auth and the linkers behind them.             *)
(*                                                                         *)
(* The module follows ONE agent key: sessions of different agents share    *)
(* nothing but the invite codes, and two requests of one agent contend for *)
(* a code exactly as two agents do.                                        *)
(*                                                                         *)
(* A handler is a sequence of actions, cut where the code awaits: between  *)
(* two actions of one request any other request, the hc-auth operator and  *)
(* the clock may act.  What the handler read before the await it keeps in  *)
(* its request record.  Server and store failures are disjuncts.           *)
(*                                                                         *)
(* Abstracted: keys, signatures and timestamps (a request that fails them  *)
(* changes nothing), claims, emails, the response bodies.  The emailed     *)
(* Didit link of a session is not in this module.                          *)
(***************************************************************************)
EXTENDS Integers, FiniteSets

CONSTANTS
    MaxSessions,  \* bound: sessions created in one behaviour
    Network,      \* session scopes: the static network and the registered ones
    StaticNetwork,\* the scope of a join that names no network
    NoNetwork,    \* the network of a request record that has none
    Request,      \* slots for requests in flight
    Code,         \* the configured invite codes
    NoCode,
    Ungrouped,    \* auth_methods: the top-level method entries (AND)
    Groups,       \* auth_methods: the any_of entries (OR)
    Store,        \* "memory" or "sqlite"
    HcAuth,       \* hc_auth config: "off", "optional" or "required"
    Linkers,      \* linker_auth config: "off", "optional" or "required"
    AttemptLimit, \* answers evaluated per challenge (5 in the code)
    MayRestart    \* whether the process may restart

Sid == 1 .. MaxSessions       \* session ids, in the order of creation
NoSid == 0
Method == Ungrouped \cup UNION Groups
Approval == "hc_auth_approval"
Invite == "invite_code"
Delegated == "delegated_verification"
\* Methods whose challenge the client answers with POST .../verify.
Answered == {"email_code", "agent_allow_list"}

MethodName == Answered \cup {"open", Approval, Invite, Delegated}

ASSUME ConfigAssumption ==
    /\ MaxSessions \in Nat \ {0}
    /\ AttemptLimit \in Nat \ {0}
    /\ StaticNetwork \in Network /\ NoNetwork \notin Network
    /\ NoCode \notin Code
    /\ Store \in {"memory", "sqlite"}
    /\ HcAuth \in {"off", "optional", "required"}
    /\ Linkers \in {"off", "optional", "required"}
    /\ MayRestart \in BOOLEAN
    /\ Method \subseteq MethodName
    /\ Approval \in Method => HcAuth # "off"

\* One method gives one challenge, so it sits in one entry only.
ASSUME EntriesAreDisjoint ==
    /\ \A g \in Groups : g \cap Ungrouped = {}
    /\ \A g, h \in Groups : g = h \/ g \cap h = {}

Status == {"pending", "ready", "rejected"}
RecordState == {"none", "pending", "authorized", "blocked"}

VARIABLES
    \* ---- the session store, by session id
    status,   \* "unborn", a Status, or "gone" once deleted
    net,      \* the network the session is scoped to
    held,     \* the methods it holds a challenge of
    done,     \* the challenges recorded as completed
    tries,    \* the attempts recorded per challenge
    aged,     \* its expiry time has passed (a ready session never expires)
    index,    \* MemorySessionStore.agentIndex, by network
    \* ---- the rest of the process and the servers behind it
    codes,    \* InviteCodeAuthMethod.validCodes
    record,   \* hc-auth's record of the agent key
    req,      \* the requests in flight
    \* ---- history, read by the properties only
    passed,   \* methods whose check the agent really passed, by session
    steps,    \* ready steps that succeeded before a session became ready
    evals,    \* answers handed to a plugin, by session and method
    codeOf,   \* the invite code a session was created with
    barred    \* requests all through which the record was "blocked"

store == <<status, net, held, done, tries, aged, index>>
history == <<passed, steps, evals, codeOf, barred>>
vars == <<store, codes, record, req, history>>

NoTries == [m \in Method |-> 0]

\* A free request slot.
Idle == [pc |-> "idle", op |-> "none", sid |-> NoSid, net |-> NoNetwork,
         held |-> {}, done |-> {}, tries |-> NoTries, auto |-> {},
         method |-> "none", right |-> FALSE, code |-> NoCode,
         from |-> "none", steps |-> {}]

ReadySteps == {"hc-auth", "linkers"}

PC == {"idle", "j_delete", "j_record", "j_request", "j_assemble", "j_create",
       "v_check", "v_plugin", "v_answer", "s_poll", "s_pass", "s_reject",
       "c_check", "n_get", "n_request", "n_transition", "n_verified",
       "n_link", "c_ready", "p_record", "p_reject", "p_serve",
       "r_record", "r_scope", "r_answer"}

RequestRecord ==
    [pc : PC,
     op : {"none", "join", "delegated", "verify", "status", "resume",
           "provision", "reconnect"},
     sid : Sid \cup {NoSid}, net : Network \cup {NoNetwork},
     held : SUBSET Method, done : SUBSET Method, tries : [Method -> Nat],
     auto : SUBSET Method, method : Method \cup {"none"}, right : BOOLEAN,
     code : Code \cup {NoCode}, from : RecordState,
     steps : SUBSET ReadySteps]

TypeOK ==
    /\ status \in [Sid -> Status \cup {"unborn", "gone"}]
    /\ net \in [Sid -> Network]
    /\ held \in [Sid -> SUBSET Method]
    /\ done \in [Sid -> SUBSET Method]
    /\ tries \in [Sid -> [Method -> Nat]]
    /\ aged \in [Sid -> BOOLEAN]
    /\ index \in [Network -> Sid \cup {NoSid}]
    /\ codes \subseteq Code
    /\ record \in RecordState
    /\ req \in [Request -> RequestRecord]
    /\ passed \in [Sid -> SUBSET Method]
    /\ steps \in [Sid -> SUBSET ReadySteps]
    /\ evals \in [Sid -> [Method -> Nat]]
    /\ codeOf \in [Sid -> Code \cup {NoCode}]
    /\ barred \subseteq Request

Init ==
    /\ status = [s \in Sid |-> "unborn"]
    /\ net = [s \in Sid |-> StaticNetwork]
    /\ held = [s \in Sid |-> {}]
    /\ done = [s \in Sid |-> {}]
    /\ tries = [s \in Sid |-> NoTries]
    /\ aged = [s \in Sid |-> FALSE]
    /\ index = [n \in Network |-> NoSid]
    /\ codes = Code
    /\ record = "none"
    /\ req = [r \in Request |-> Idle]
    /\ passed = [s \in Sid |-> {}]
    /\ steps = [s \in Sid |-> {}]
    /\ evals = [s \in Sid |-> NoTries]
    /\ codeOf = [s \in Sid |-> NoCode]
    /\ barred = {}

-----------------------------------------------------------------------------
(* The session stores.                                                     *)

Stored(s) == status[s] \in Status
Expired(s) == status[s] # "ready" /\ aged[s]
Live(s) == Stored(s) /\ ~Expired(s)

\* Removes a stored session.  The memory store drops the agent's index entry
\* even when that entry already names a newer session.
Remove(s) ==
    IF s # NoSid /\ s \in Sid /\ Stored(s)
    THEN /\ status' = [status EXCEPT ![s] = "gone"]
         /\ index' = IF Store = "memory" THEN [index EXCEPT ![net[s]] = NoSid]
                                         ELSE index
    ELSE UNCHANGED <<status, index>>

\* The session that findByAgentKey looks at: the indexed one in memory, the
\* newest row in SQLite.
Candidate(n) ==
    LET rows == {s \in Sid : Stored(s) /\ net[s] = n}
    IN  IF Store = "memory" THEN index[n]
        ELSE IF rows = {} THEN NoSid
        ELSE CHOOSE s \in rows : \A t \in rows : t <= s

FindByAgentKey(n) ==
    LET c == Candidate(n)
    IN  IF c \in Sid /\ Live(c) THEN c ELSE NoSid

\* The lookup deletes a candidate that has expired.
PruneCandidate(n) ==
    LET c == Candidate(n)
    IN  Remove(IF c \in Sid /\ ~Live(c) THEN c ELSE NoSid)

\* SQLite's update reads the row first, which prunes an expired session; the
\* memory store's update does not look at the expiry.
Updatable(s) == Stored(s) /\ (Store = "sqlite" => ~Expired(s))

SetStatus(s, new) ==
    IF Updatable(s) THEN /\ status' = [status EXCEPT ![s] = new]
                         /\ UNCHANGED index
                    ELSE Remove(s)

\* Mutant: the whole session is written back as the handler read it.
KeepStatusStale(s) ==
    IF Updatable(s) THEN /\ status' = [status EXCEPT ![s] = "pending"]
                         /\ UNCHANGED index
                    ELSE Remove(s)

\* An update that does not mention the status.
KeepStatus(s) == IF Updatable(s) THEN UNCHANGED <<status, index>>
                                 ELSE Remove(s)

\* Mutant: get() copies the challenges as well.
SharedNever == FALSE

\* get() of the memory store copies the session but not its challenges, so
\* every handler holds the stored challenge objects themselves; SQLite's
\* parses a copy of its own.
Shared == Store = "memory"

ViewDone(r) == IF Shared THEN done[req[r].sid] ELSE req[r].done
ViewTries(r) == IF Shared THEN tries[req[r].sid] ELSE req[r].tries

\* The record of a request that has just read session s.
Reading(s, op, pc) ==
    [Idle EXCEPT !.pc = pc, !.op = op, !.sid = s,
                 !.done = IF Shared THEN {} ELSE done[s],
                 !.tries = IF Shared THEN NoTries ELSE tries[s]]

\* Writes a handler's whole challenge list back.  In memory it already is
\* the stored one.
WriteChallenges(s, d, t) ==
    IF Updatable(s) \/ Shared
    THEN done' = [done EXCEPT ![s] = d] /\ tries' = [tries EXCEPT ![s] = t]
    ELSE UNCHANGED <<done, tries>>

-----------------------------------------------------------------------------
(* Requirements.                                                           *)

\* allSatisfied: every ungrouped challenge, and one of each group present.
Satisfied(h, d) ==
    /\ h \cap Ungrouped \subseteq d
    /\ \A g \in Groups : h \cap g # {} => h \cap g \cap d # {}

\* What auth_methods asks of an agent: each entry, or a partner's word.
Admits(p) ==
    \/ Delegated \in p
    \/ Ungrouped \subseteq p /\ \A g \in Groups : g \cap p # {}

\* A request that starts while the key is blocked.
NoteBlocked(r) ==
    barred' = IF record = "blocked" THEN barred \cup {r} ELSE barred \ {r}

Goto(r, pc) == req' = [req EXCEPT ![r].pc = pc]
Finish(r) == req' = [req EXCEPT ![r] = Idle]

\* Where notifyReady starts, for a session holding challenges of h.
NotifyStart(h) ==
    IF HcAuth = "off" THEN "n_link"
    ELSE IF Approval \in h THEN "n_verified" ELSE "n_get"

\* Where a join goes on once the existing session is out of the way.
JoinStart(op) ==
    IF op = "delegated" THEN NotifyStart({})
    ELSE IF Approval \in Method THEN "j_record" ELSE "j_assemble"

-----------------------------------------------------------------------------
(* POST /v1/join                                                           *)

\* The lookup that decides a join.  A ready session answers 409; any other
\* session of the scope is deleted first.  "delegated" is a join whose
\* partner payload has been accepted.
Join(r, n, op) ==
    LET c == FindByAgentKey(n)
    IN  /\ req[r].pc = "idle"
        /\ op = "delegated" => Delegated \in Method
        /\ Cardinality({s \in Sid : status[s] = "unborn"}) >    \* bound
             Cardinality({q \in Request : req[q].op \in {"join", "delegated"}})
        /\ c # NoSid => status[c] # "ready"
        /\ PruneCandidate(n)
        /\ req' = [req EXCEPT ![r] =
                     [Idle EXCEPT !.op = op, !.net = n, !.sid = c,
                        !.auto = IF op = "delegated" THEN {Delegated} ELSE {},
                        !.pc = IF c = NoSid THEN JoinStart(op) ELSE "j_delete"]]
        /\ NoteBlocked(r)
        /\ UNCHANGED <<net, held, done, tries, aged, codes, record,
                       passed, steps, evals, codeOf>>

JoinDelete(r) ==
    /\ req[r].pc = "j_delete"
    /\ Remove(req[r].sid)
    /\ req' = [req EXCEPT ![r].pc = JoinStart(req[r].op), ![r].sid = NoSid]
    /\ UNCHANGED <<net, held, done, tries, aged, codes, record, history>>

\* HcAuthApprovalMethod.createChallenges asks for the record.
JoinRecord(r) ==
    /\ req[r].pc = "j_record"
    /\ \/ /\ record = "authorized"
          /\ req' = [req EXCEPT ![r].pc = "j_assemble", ![r].auto = {Approval}]
       \/ record = "none" /\ Goto(r, "j_request")
       \/ /\ record \in {"pending", "blocked"}
          /\ req' = [req EXCEPT ![r].pc = "j_assemble", ![r].held = {Approval}]
       \/ Goto(r, "j_assemble")                     \* the call failed
    /\ UNCHANGED <<store, codes, record, history>>

\* requestAuth registers the key; a conflict or a 500 counts as registered.
RequestAuth == record' \in {record, IF record = "none" THEN "pending" ELSE record}

JoinRequestAuth(r) ==
    /\ req[r].pc = "j_request"
    /\ RequestAuth
    /\ \/ req' = [req EXCEPT ![r].pc = "j_assemble", ![r].held = {Approval}]
       \/ Goto(r, "j_assemble")                     \* 429, or the call failed
    /\ UNCHANGED <<store, codes, history>>

\* A method listed before hc_auth_approval refuses the join.
JoinRefused(r) ==
    /\ req[r].pc \in {"j_record", "j_request"}
    /\ Method \ {"open", Approval} # {}
    /\ Finish(r)
    /\ UNCHANGED <<store, codes, record, history>>

\* Every entry must have produced a challenge, except open and an approval
\* hc-auth has already given; an any_of group needs one among its methods.
Eligible(h, auto) ==
    /\ Ungrouped \ {"open"} \subseteq h \cup auto
    /\ \A g \in Groups : g \cap h # {}

\* Mutant: the code stays valid.
SpendNothing(code) == UNCHANGED codes

\* An invite code is single-use: it goes in the step that finds it valid.
Spend(code) == codes' = codes \ {code}

\* The challenges are complete: which of the other methods gave one depends
\* on the claims, the allow list and the email transport.  An invite code is
\* checked here, and a wrong one refuses the join.
JoinAssemble(r) ==
    /\ req[r].pc = "j_assemble"
    /\ \E offered \in SUBSET (Method \cap (Answered \cup {Invite})),
          code \in Code \cup {NoCode} :
        LET h == req[r].held \cup offered
            auto == req[r].auto \cup (Method \cap {"open"})
        IN  /\ code = NoCode <=> Invite \notin h
            /\ IF Eligible(h, auto) /\ (Invite \in h => code \in codes)
               THEN /\ Spend(code)
                    /\ req' = [req EXCEPT
                         ![r].held = h, ![r].done = h \cap {Invite},
                         ![r].auto = auto, ![r].code = code,
                         ![r].pc = IF Satisfied(h, h \cap {Invite})
                                   THEN NotifyStart(h) ELSE "j_create"]
               ELSE Finish(r) /\ UNCHANGED codes
    /\ UNCHANGED <<store, record, history>>

\* create() of the store, with the session a join request has built.
Create(s, q) ==
    /\ status' = [status EXCEPT ![s] =
                    IF Satisfied(q.held, q.done) THEN "ready" ELSE "pending"]
    /\ net' = [net EXCEPT ![s] = q.net]
    /\ held' = [held EXCEPT ![s] = q.held]
    /\ done' = [done EXCEPT ![s] = q.done]
    /\ index' = IF Store = "memory" THEN [index EXCEPT ![q.net] = s] ELSE index
    /\ passed' = [passed EXCEPT ![s] = q.auto \cup q.done]
    /\ steps' = [steps EXCEPT ![s] = q.steps]
    /\ codeOf' = [codeOf EXCEPT ![s] = q.code]

\* createReadySession's create, or the pending one.
JoinCreate(r) ==
    /\ req[r].pc = "j_create"
    /\ \E s \in Sid :
        /\ status[s] = "unborn"
        /\ \A t \in Sid : status[t] = "unborn" => s <= t
        /\ Create(s, req[r])
    /\ Finish(r)
    /\ UNCHANGED <<tries, aged, codes, record, evals, barred>>

\* Mutant: whatever the request carries is added to the codes.
ThrowAnything(r) ==
    /\ codes' = codes \cup {req[r].code}
    /\ Finish(r)

\* Mutant: the spent code is not given back.
ThrowKeepsCode(r) == Finish(r) /\ UNCHANGED codes

\* A handler that throws answers an error; a join first gives back the
\* invite code it spent.
Throw(r) ==
    /\ codes' = codes \cup (Code \cap {req[r].code})
    /\ Finish(r)

JoinCreateFails(r) ==
    /\ req[r].pc = "j_create"
    /\ Throw(r)
    /\ UNCHANGED <<store, record, history>>

-----------------------------------------------------------------------------
(* The ready path: notifyReady, shared by join, verify, status and resume. *)

\* Mutant: hc_auth.required is not looked at.
HcAuthIgnored(r) == Goto(r, "n_link") /\ UNCHANGED codes

\* A failed hc-auth call: fatal when hc_auth.required, else only logged.
HcAuthFails(r) ==
    IF HcAuth = "required" THEN Throw(r) ELSE Goto(r, "n_link") /\ UNCHANGED codes

\* ensureAuthorized reads the record and chooses the transition from it.
NotifyGet(r) ==
    /\ req[r].pc = "n_get"
    /\ \/ record = "authorized" /\ Goto(r, "n_verified") /\ UNCHANGED codes
       \/ record = "none" /\ Goto(r, "n_request") /\ UNCHANGED codes
       \/ /\ record \in {"pending", "blocked"}
          /\ req' = [req EXCEPT ![r].pc = "n_transition", ![r].from = record]
          /\ UNCHANGED codes
       \/ HcAuthFails(r)
    /\ UNCHANGED <<store, record, history>>

NotifyRequest(r) ==
    /\ req[r].pc = "n_request"
    /\ RequestAuth
    /\ \/ /\ req' = [req EXCEPT ![r].pc = "n_transition", ![r].from = "pending"]
          /\ UNCHANGED codes
       \/ HcAuthFails(r)
    /\ UNCHANGED <<store, history>>

\* The record changes hands only from the state the caller names; the reply
\* may be lost after it did.
NotifyTransition(r) ==
    /\ req[r].pc = "n_transition"
    /\ \/ /\ record = req[r].from
          /\ record' = "authorized"
          /\ barred' = {}
          /\ \/ Goto(r, "n_verified") /\ UNCHANGED codes
             \/ HcAuthFails(r)
       \/ HcAuthFails(r) /\ UNCHANGED <<record, barred>>
    /\ UNCHANGED <<store, passed, steps, evals, codeOf>>

\* setVerified writes the claims, when there are any to forward.
NotifyVerified(r) ==
    /\ req[r].pc = "n_verified"
    /\ \/ /\ req' = [req EXCEPT ![r].pc = "n_link", ![r].steps = @ \cup {"hc-auth"}]
          /\ UNCHANGED codes
       \/ HcAuthFails(r)
    /\ UNCHANGED <<store, record, history>>

\* Where the caller of notifyReady goes on.
NotifyDone(r) == IF req[r].op \in {"join", "delegated"} THEN "j_create" ELSE "c_ready"

\* Mutant: linker_auth.required is not looked at.
NotifyLinkersIgnored(r) ==
    /\ req[r].pc = "n_link"
    /\ \/ req' = [req EXCEPT ![r].pc = NotifyDone(r), ![r].steps = @ \cup {"linkers"}]
       \/ Goto(r, NotifyDone(r))
    /\ UNCHANGED <<store, codes, record, history>>

\* Every linker with admin credentials is told, if there is one.
NotifyLinkers(r) ==
    /\ req[r].pc = "n_link"
    /\ \/ /\ Linkers # "off"
          /\ req' = [req EXCEPT ![r].pc = NotifyDone(r), ![r].steps = @ \cup {"linkers"}]
          /\ UNCHANGED codes
       \/ Linkers # "required" /\ Goto(r, NotifyDone(r)) /\ UNCHANGED codes
       \/ Linkers = "required" /\ Throw(r)
    /\ UNCHANGED <<store, record, history>>

\* Mutant: a poll stays on the line until there is something to say.
CompleteOrWait(r) ==
    /\ req[r].pc = "c_check"
    /\ IF Satisfied(held[req[r].sid], ViewDone(r))
       THEN Goto(r, NotifyStart(held[req[r].sid]))
       ELSE Goto(r, "s_poll")
    /\ UNCHANGED <<store, codes, record, history>>

\* completeIfSatisfied: only a session read as pending gets here.
Complete(r) ==
    /\ req[r].pc = "c_check"
    /\ IF Satisfied(held[req[r].sid], ViewDone(r))
       THEN Goto(r, NotifyStart(held[req[r].sid]))
       ELSE Finish(r)
    /\ UNCHANGED <<store, codes, record, history>>

\* Saves "ready" last, whatever the stored session has become meanwhile.
MakeReady(r) ==
    LET s == req[r].sid
    IN  /\ req[r].pc = "c_ready"
        /\ SetStatus(s, "ready")
        /\ WriteChallenges(s, ViewDone(r), ViewTries(r))
        /\ steps' = IF Updatable(s) THEN [steps EXCEPT ![s] = req[r].steps] ELSE steps
        /\ Finish(r)
        /\ UNCHANGED <<net, held, aged, codes, record, passed, evals, codeOf, barred>>

-----------------------------------------------------------------------------
(* POST /v1/join/:session/verify                                           *)

\* The session is read; the body, with the answer, is awaited after that.
Verify(r, s, m, right) ==
    /\ req[r].pc = "idle"
    /\ Live(s) /\ status[s] = "pending" /\ m \in held[s]
    /\ req' = [req EXCEPT ![r] =
         [Reading(s, "verify", "v_check") EXCEPT !.method = m, !.right = right]]
    /\ UNCHANGED <<store, codes, record, history>>

\* Mutant: off by one.
TooManyPlusOne(n) == n > AttemptLimit + 1

TooMany(n) == n > AttemptLimit

\* The attempt is counted before the plugin is asked; the count of a refused
\* attempt reaches the store only where the challenge objects are shared.
VerifyCheck(r) ==
    LET q == req[r]
        n == ViewTries(r)[q.method] + 1
        counted == [ViewTries(r) EXCEPT ![q.method] =
                      IF n > AttemptLimit THEN AttemptLimit + 1 ELSE n]  \* bound
    IN  /\ q.pc = "v_check"
        /\ \/ /\ q.method \in ViewDone(r)
              /\ Goto(r, "c_check")
              /\ UNCHANGED tries
           \/ /\ q.method \notin ViewDone(r)
              /\ Finish(r)                          \* 410: challenge expired
              /\ UNCHANGED tries
           \/ /\ q.method \notin ViewDone(r)
              /\ IF TooMany(n) THEN Finish(r)               \* 429
                 ELSE req' = [req EXCEPT ![r].pc = "v_plugin",
                                ![r].tries = IF Shared THEN @ ELSE counted]
              /\ tries' = IF Shared THEN [tries EXCEPT ![q.sid] = counted] ELSE tries
        /\ UNCHANGED <<status, net, held, done, aged, index, codes, record, history>>

\* The plugin judges the answer: a code or a signature on the spot, an
\* approval by asking hc-auth.
VerifyPlugin(r) ==
    LET q == req[r]
    IN  /\ q.pc = "v_plugin"
        /\ \/ /\ q.method # Approval
              /\ req' = [req EXCEPT ![r].pc = "v_answer"]
              /\ evals' = [evals EXCEPT ![q.sid][q.method] =
                             IF @ > AttemptLimit THEN @ ELSE @ + 1]      \* bound
              /\ passed' = IF q.right
                           THEN [passed EXCEPT ![q.sid] = @ \cup {q.method}]
                           ELSE passed
           \/ /\ q.method = Approval
              /\ req' = [req EXCEPT ![r].pc = "v_answer",
                                    ![r].right = (record = "authorized")]
              /\ passed' = IF record = "authorized"
                           THEN [passed EXCEPT ![q.sid] = @ \cup {Approval}]
                           ELSE passed
              /\ UNCHANGED evals
           \/ q.method = Approval /\ Finish(r)      \* the call failed
              /\ UNCHANGED <<passed, evals>>
        /\ UNCHANGED <<store, codes, record, steps, codeOf, barred>>

\* The verdict is recorded on the challenge and the whole list written back.
VerifyAnswer(r) ==
    LET q == req[r]
        d == IF q.right THEN ViewDone(r) \cup {q.method} ELSE ViewDone(r)
    IN  /\ q.pc = "v_answer"
        /\ WriteChallenges(q.sid, d, ViewTries(r))
        /\ KeepStatus(q.sid)
        /\ IF q.right
           THEN req' = [req EXCEPT ![r].pc = "c_check",
                                   ![r].done = IF Shared THEN @ ELSE d]
           ELSE Finish(r)
        /\ UNCHANGED <<net, held, aged, codes, record, history>>

-----------------------------------------------------------------------------
(* GET /v1/join/:session/status and POST /v1/join/resume                   *)

StatusPoll(r, s) ==
    /\ req[r].pc = "idle"
    /\ Live(s) /\ status[s] = "pending"
    /\ req' = [req EXCEPT ![r] = Reading(s, "status",
                 IF Approval \in held[s] \ done[s] THEN "s_poll" ELSE "c_check")]
    /\ UNCHANGED <<store, codes, record, history>>

\* Mutant: any answer but "blocked" passes.
StatusRecordLoose(r) ==
    /\ req[r].pc = "s_poll"
    /\ \/ record # "blocked" /\ Goto(r, "s_pass")
       \/ record = "blocked" /\ Goto(r, "s_reject")
    /\ UNCHANGED <<store, codes, record, history>>

StatusRecord(r) ==
    /\ req[r].pc = "s_poll"
    /\ \/ /\ record = "authorized"
          /\ Goto(r, "s_pass")
          /\ passed' = [passed EXCEPT ![req[r].sid] = @ \cup {Approval}]
       \/ record = "blocked" /\ Goto(r, "s_reject") /\ UNCHANGED passed
       \/ Goto(r, "c_check") /\ UNCHANGED passed    \* undecided, or the call failed
    /\ UNCHANGED <<store, codes, record, steps, evals, codeOf, barred>>

\* Mutant: the approval is seen and not recorded.
StatusPassUnsaved(r) ==
    /\ req[r].pc = "s_pass"
    /\ KeepStatus(req[r].sid)
    /\ Goto(r, "c_check")
    /\ UNCHANGED <<net, held, done, tries, aged, codes, record, history>>

StatusPass(r) ==
    LET q == req[r]
        d == ViewDone(r) \cup {Approval}
    IN  /\ q.pc = "s_pass"
        /\ WriteChallenges(q.sid, d, ViewTries(r))
        /\ KeepStatus(q.sid)
        /\ req' = [req EXCEPT ![r].pc = "c_check", ![r].done = IF Shared THEN @ ELSE d]
        /\ UNCHANGED <<net, held, aged, codes, record, history>>

StatusReject(r) ==
    /\ req[r].pc = "s_reject"
    /\ SetStatus(req[r].sid, "rejected")
    /\ WriteChallenges(req[r].sid, ViewDone(r), ViewTries(r))
    /\ Finish(r)
    /\ UNCHANGED <<net, held, aged, codes, record, history>>

\* A signed resume finds the session itself and then completes like a poll.
Resume(r, n) ==
    LET c == FindByAgentKey(n)
    IN  /\ req[r].pc = "idle"
        /\ c # NoSid /\ status[c] = "pending"
        /\ req' = [req EXCEPT ![r] = Reading(c, "resume", "c_check")]
        /\ UNCHANGED <<store, codes, record, history>>

-----------------------------------------------------------------------------
(* GET /v1/join/:session/provision and POST /v1/reconnect                  *)

Provision(r, s) ==
    /\ req[r].pc = "idle"
    /\ Live(s) /\ status[s] = "ready"
    /\ req' = [req EXCEPT ![r] = [Idle EXCEPT !.op = "provision", !.sid = s,
                 !.pc = IF HcAuth # "off" /\ Approval \in held[s]
                        THEN "p_record" ELSE "p_serve"]]
    /\ NoteBlocked(r)
    /\ UNCHANGED <<store, codes, record, passed, steps, evals, codeOf>>

\* Mutant: a failed call counts as "not blocked".
ProvisionRecordOpen(r) ==
    /\ req[r].pc = "p_record"
    /\ \/ record = "blocked" /\ Goto(r, "p_reject")
       \/ Goto(r, "p_serve")
    /\ UNCHANGED <<store, codes, record, history>>

ProvisionRecord(r) ==
    /\ req[r].pc = "p_record"
    /\ \/ record = "blocked" /\ Goto(r, "p_reject")
       \/ record # "blocked" /\ Goto(r, "p_serve")
       \/ IF HcAuth = "required" THEN Finish(r) ELSE Goto(r, "p_serve") \* failed
    /\ UNCHANGED <<store, codes, record, history>>

ProvisionReject(r) ==
    /\ req[r].pc = "p_reject"
    /\ SetStatus(req[r].sid, "rejected")
    /\ Finish(r)
    /\ UNCHANGED <<net, held, done, tries, aged, codes, record, history>>

\* Linker URLs, modifiers and membrane proofs go out.
ProvisionServe(r) ==
    /\ req[r].pc = "p_serve"
    /\ Finish(r)
    /\ UNCHANGED <<store, codes, record, history>>

\* Any ready session of the agent, on any network, admits a reconnect.
Reconnect(r, n) ==
    /\ req[r].pc = "idle"
    /\ \E s \in Sid : Live(s) /\ status[s] = "ready"
    /\ req' = [req EXCEPT ![r] = [Idle EXCEPT !.op = "reconnect", !.net = n,
                 !.pc = IF HcAuth = "off" THEN "r_scope" ELSE "r_record"]]
    /\ NoteBlocked(r)
    /\ UNCHANGED <<store, codes, record, passed, steps, evals, codeOf>>

\* Mutant: a failed call counts as "not blocked".
ReconnectRecordOpen(r) ==
    /\ req[r].pc = "r_record"
    /\ \/ record = "blocked" /\ Finish(r)
       \/ Goto(r, "r_scope")
    /\ UNCHANGED <<store, codes, record, history>>

ReconnectRecord(r) ==
    /\ req[r].pc = "r_record"
    /\ \/ record = "blocked" /\ Finish(r)
       \/ record # "blocked" /\ Goto(r, "r_scope")
       \/ IF HcAuth = "required" THEN Finish(r) ELSE Goto(r, "r_scope")  \* failed
    /\ UNCHANGED <<store, codes, record, history>>

\* The session token handed back is the one of the network asked for; only
\* the static scope may do without.
ReconnectScope(r) ==
    LET n == req[r].net
        c == FindByAgentKey(n)
        token == IF c # NoSid /\ status[c] = "ready" THEN c ELSE NoSid
    IN  /\ req[r].pc = "r_scope"
        /\ PruneCandidate(n)
        /\ IF token = NoSid /\ n # StaticNetwork THEN Finish(r)
           ELSE req' = [req EXCEPT ![r].pc = "r_answer", ![r].sid = token]
        /\ UNCHANGED <<net, held, done, tries, aged, codes, record, history>>

\* The linkers are told again; their failure does not matter.
ReconnectAnswer(r) ==
    /\ req[r].pc = "r_answer"
    /\ Finish(r)
    /\ UNCHANGED <<store, codes, record, history>>

-----------------------------------------------------------------------------
(* Around the handlers.                                                    *)

\* The hc-auth operator decides, or changes a decision.
Operator(from, to) ==
    /\ HcAuth # "off"
    /\ record = from
    /\ record' = to
    /\ barred' = IF to = "blocked" THEN barred ELSE {}
    /\ UNCHANGED <<store, codes, req, passed, steps, evals, codeOf>>

Approve == Operator("pending", "authorized")
Block == \E from \in {"pending", "authorized"} : Operator(from, "blocked")
Unblock == Operator("blocked", "authorized")

\* The expiry time of a session passes.
Age(s) ==
    /\ Stored(s) /\ ~aged[s]
    /\ aged' = [aged EXCEPT ![s] = TRUE]
    /\ UNCHANGED <<status, net, held, done, tries, index, codes, record, req, history>>

\* Any read of an expired session by its id deletes it and answers 401, and
\* SqliteSessionStore.cleanup deletes every such row.
PruneExpired(s) ==
    /\ Stored(s) /\ Expired(s)
    /\ Remove(s)
    /\ UNCHANGED <<net, held, done, tries, aged, codes, record, req, history>>

\* The process restarts: requests in flight die, the invite codes are those
\* of the config again, and the memory store is empty.
Restart ==
    /\ MayRestart
    /\ req' = [r \in Request |-> Idle]
    /\ codes' = Code
    /\ IF Store = "memory"
       THEN /\ status' = [s \in Sid |-> IF Stored(s) THEN "gone" ELSE status[s]]
            /\ index' = [n \in Network |-> NoSid]
       ELSE UNCHANGED <<status, index>>
    /\ barred' = {}
    /\ UNCHANGED <<net, held, done, tries, aged, record, passed, steps, evals, codeOf>>

-----------------------------------------------------------------------------
JoinStep(r) ==
    \/ JoinDelete(r) \/ JoinRecord(r) \/ JoinRequestAuth(r) \/ JoinRefused(r)
    \/ JoinAssemble(r) \/ JoinCreate(r) \/ JoinCreateFails(r)

ReadyPathStep(r) ==
    \/ Complete(r) \/ NotifyGet(r) \/ NotifyRequest(r) \/ NotifyTransition(r)
    \/ NotifyVerified(r) \/ NotifyLinkers(r) \/ MakeReady(r)

VerifyStep(r) == VerifyCheck(r) \/ VerifyPlugin(r) \/ VerifyAnswer(r)

StatusStep(r) == StatusRecord(r) \/ StatusPass(r) \/ StatusReject(r)

ServeStep(r) ==
    \/ ProvisionRecord(r) \/ ProvisionReject(r) \/ ProvisionServe(r)
    \/ ReconnectRecord(r) \/ ReconnectScope(r) \/ ReconnectAnswer(r)

\* What a request in flight does next.
Step(r) ==
    JoinStep(r) \/ ReadyPathStep(r) \/ VerifyStep(r) \/ StatusStep(r) \/ ServeStep(r)

\* A client sends a request.
Arrive(r) ==
    \/ \E n \in Network :
          \/ \E op \in {"join", "delegated"} : Join(r, n, op)
          \/ Resume(r, n) \/ Reconnect(r, n)
    \/ \E s \in Sid :
          \/ \E m \in Method, right \in BOOLEAN : Verify(r, s, m, right)
          \/ StatusPoll(r, s) \/ Provision(r, s)

\* With no request in flight the service waits; a request refused at the
\* door (unknown session, bad signature, already joined) changes nothing.
Wait == (\A r \in Request : req[r].pc = "idle") /\ UNCHANGED vars

Next ==
    \/ \E r \in Request : Arrive(r) \/ Step(r)
    \/ Wait
    \/ Approve \/ Block \/ Unblock
    \/ \E s \in Sid : Age(s) \/ PruneExpired(s)
    \/ Restart

Spec == Init /\ [][Next]_vars

\* The runtime resumes every handler whose await has settled, and every await
\* settles: a call to another server is cut off by its own timeout.
HandlersRun == \A r \in Request : WF_vars(Step(r))

\* A client polls its pending session again and again, and neither hc-auth
\* nor the linkers fail every time they are asked.
ClientsPoll == \A s \in Sid : SF_vars(\E r \in Request : StatusPoll(r, s))
ServersAnswer ==
    /\ SF_vars(\E r \in Request : StatusRecord(r) /\ req'[r].pc = "s_pass")
    /\ SF_vars(\E r \in Request : NotifyVerified(r) /\ "hc-auth" \in req'[r].steps)
    /\ SF_vars(\E r \in Request : NotifyLinkers(r) /\ req'[r].pc # "idle")

FairSpec == Spec /\ HandlersRun /\ ClientsPoll /\ ServersAnswer

-----------------------------------------------------------------------------
(* Properties.                                                             *)

\* No session is ready unless every auth_methods entry was really passed for
\* it: by answers a plugin accepted, an approval hc-auth reported, a spent
\* invite code, or a trusted partner's word.  The stored challenge list is
\* rewritten by handlers holding stale copies, so it is no evidence itself.
ReadyOnlyIfAdmitted ==
    \A s \in Sid : status[s] = "ready" => Admits(passed[s])

\* Where hc-auth or the linkers are required, a ready session is one for
\* which the step succeeded before "ready" was written.
ReadyStepsRan ==
    \A s \in Sid : status[s] = "ready" =>
        /\ HcAuth = "required" => "hc-auth" \in steps[s]
        /\ Linkers = "required" => "linkers" \in steps[s]

\* No more answers of one challenge reach its plugin than the attempt limit.
AttemptsBounded ==
    \A s \in Sid, m \in Method : evals[s][m] <= AttemptLimit

\* The sessions keep the promises of SessionLife: none is made ready on
\* anything but checks really passed, none that is decided falls back to
\* pending under a handler that read it pending, and none that is removed
\* comes back with a late write.
Life == INSTANCE SessionLife
          WITH asked <- {(e \cup {Delegated}) \cap Method : e \in Groups \cup {{m} : m \in Ungrouped}}

LifeCycle == Life!Spec

\* A completed challenge of a stored session stays completed.
CompletionKept ==
    [][\A s \in Sid : Stored(s) => done[s] \subseteq done'[s]]_vars

\* One invite code backs at most one session.
InviteBacksOneSession ==
    \A s, t \in Sid : s # t /\ codeOf[s] = codeOf[t] => codeOf[s] = NoCode

\* A code that is spent was spent by a session, or by a join still running.
InviteNotLost ==
    \A c \in Code \ codes :
        \/ \E s \in Sid : codeOf[s] = c
        \/ \E r \in Request : req[r].code = c

\* The agent holds at most one live session per network.
OneLiveSession ==
    \A s, t \in Sid :
        Live(s) /\ Live(t) /\ net[s] = net[t] => s = t

\* With hc_auth required, a session that went through an approval challenge
\* is not provisioned by a request all through which the agent was blocked.
BlockedNotProvisioned ==
    [][\A r \in Request : ProvisionServe(r) /\ HcAuth = "required"
         /\ Approval \in held[req[r].sid] => r \notin barred]_vars

\* With hc_auth required, no request all through which the agent was blocked
\* is answered with linker URLs by reconnect.
BlockedNotReconnected ==
    [][\A r \in Request :
         ReconnectAnswer(r) /\ HcAuth = "required" => r \notin barred]_vars

\* Where hc_auth_approval is in the method set, provisioning looks for a
\* revocation: no request all through which the agent was blocked is served.
RevocationChecked ==
    [][\A r \in Request : ProvisionServe(r) /\ HcAuth = "required"
         /\ Approval \in Method => r \notin barred]_vars

\* Every request is answered: no handler waits for another.
RequestsAnswered ==
    \A r \in Request : (req[r].pc # "idle") ~> (req[r].pc = "idle")

\* A session whose agent hc-auth keeps authorized does not stay pending for
\* ever: a failed ready step leaves it to a later poll.
ApprovedIsDecided ==
    \A s \in Sid :
        ~<>[](status[s] = "pending" /\ ~aged[s] /\ record = "authorized")
=============================================================================
