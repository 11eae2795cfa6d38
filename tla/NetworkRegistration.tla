------------------------ MODULE NetworkRegistration ------------------------
(***************************************************************************)
(* The networks and the allowed agents an admin registers at runtime, and  *)
(* what a join and a provision make of them: who may join a network, and   *)
(* for which DNA hashes an agent gets a membrane proof.                    *)
(*                                                                         *)
(* On the memory and the SQLite store every await of a handler is already  *)
(* resolved, and requests arrive as events of their own: a handler runs    *)
(* from its first store call to its last with nothing in between.  Over KV *)
(* other handlers act between any two calls of the store.                  *)
(*                                                                         *)
(* A deletion looks the entry up first; as it then deletes whatever is     *)
(* there, the model has the two calls apart for every store.               *)
(*                                                                         *)
(* Abstracted: roles are the set of their DNA hashes; a refused request    *)
(* changes nothing and is left out; KV reads see the last write.           *)
(***************************************************************************)
EXTENDS Integers, FiniteSets

CONSTANTS
    Happ,         \* ids of networks other than the service's own
    Hash,         \* DNA hashes
    StaticHash,   \* hashes of the roles in the configuration
    Agent,        \* the agents that join
    Other,        \* agents that networks are registered for and that do not join
    StaticAgent,  \* allowed_agents of the configuration
    Configs,      \* configurations, of which a behaviour has one
    Job           \* the requests that may be in flight together

\* What a configuration is.
ASSUME NetworkAssumption ==
    /\ StaticHash \subseteq Hash /\ StaticAgent \subseteq Agent
    \* The stores are KV; agent_allow_list is an auth method; the admin routes;
    \* hashes bounds what networks are registered with.
    /\ Configs \subseteq [kv : BOOLEAN, allow_list : BOOLEAN,
                          agent_registration : BOOLEAN,
                          network_registration : BOOLEAN,
                          hashes : SUBSET Hash]

Unregistered == [registered |-> FALSE]
Record == [hashes : SUBSET Hash, allowed_agents : SUBSET (Agent \cup Other)]

Off == [op |-> "off"]
JobState ==
    {Off}
      \cup [op : {"check"}, happ : Happ, record : Record, left : SUBSET Happ]
      \cup [op : {"delete"}, happ : Happ]
      \cup [op : {"allow", "disallow"}, agent : Agent]
      \cup [op : {"join"}, agent : Agent, happ : Happ, record : Record]

VARIABLES
    config,    \* the configuration, chosen once
    networks,  \* the registered networks
    agents,    \* the agents allowed at runtime
    job,       \* the requests in flight
    session,   \* status of each agent's session in each network
    proofs,    \* ghost: <<agent, happ, hash>> of each membrane proof issued
    admits,    \* ghost: <<agent, happ>> that some record has let in
    freed,     \* ghost: hashes an admin took from a network
    raced      \* ghost: networks whose registrations overlapped

networkVars == <<config, networks, agents, job, session, proofs,
                 admits, freed, raced>>

NetworksTypeOK ==
    /\ config \in Configs
    /\ networks \in [Happ -> Record \cup {Unregistered}]
    /\ agents \subseteq Agent
    /\ job \in [Job -> JobState]
    /\ session \in [Agent \X Happ -> {"none", "pending", "ready"}]
    /\ proofs \subseteq Agent \X Happ \X Hash
    /\ admits \subseteq Agent \X Happ
    /\ freed \subseteq Hash
    /\ raced \subseteq Happ

NetworksInit ==
    /\ config \in Configs
    /\ networks = [n \in Happ |-> Unregistered]
    /\ agents = {}
    /\ job = [j \in Job |-> Off]
    /\ session = [s \in Agent \X Happ |-> "none"]
    /\ proofs = {} /\ admits = {} /\ freed = {} /\ raced = {}

----------------------------------------------------------------------------
(* Helpers *)

HashesOf(n) == IF networks[n] = Unregistered THEN {} ELSE networks[n].hashes

\* Mutant: an agent that is not on the network's list gets through.
GateOpen(r, a) == TRUE

\* allowed_agents of a record: an empty list lets every agent in.
Gate(r, a) == r.allowed_agents = {} \/ a \in r.allowed_agents

\* store.put of a network, an upsert that replaces the whole record.
PutNetwork(n, r) ==
    /\ networks' = [networks EXCEPT ![n] = r]
    /\ admits' = admits \cup
           {<<a, n>> : a \in IF r.allowed_agents = {} THEN Agent ELSE Agent \cap r.allowed_agents}
    /\ freed' = freed \cup (HashesOf(n) \ r.hashes)

Enter(j, s) == job' = [job EXCEPT ![j] = s]
Leave(j) == Enter(j, Off)

\* The networks that others are checking when n is.
Checking == {job[k].happ : k \in {i \in Job : job[i].op = "check"}}
Overlap(n) == raced' = raced \cup Checking \cup (IF Checking = {} THEN {} ELSE {n})

----------------------------------------------------------------------------
(* POST and DELETE /v1/admin/networks *)

\* Mutant: the hashes of the configuration are not looked at.
ConflictRegistered(n, r, others) == \E m \in others \ {n} : r.hashes \cap HashesOf(m) # {}

\* Mutant: only the hashes of the configuration are looked at.
ConflictStatic(n, r, others) == r.hashes \cap StaticHash # {}

\* A hash of the new record that another network or the configuration uses.
Conflict(n, r, others) ==
    \/ r.hashes \cap StaticHash # {}
    \/ \E m \in others \ {n} : r.hashes \cap HashesOf(m) # {}

RegisterNetwork(j) ==
    /\ config.network_registration /\ job[j] = Off
    /\ \E n \in Happ, r \in {q \in Record : q.hashes # {} /\ q.hashes \subseteq config.hashes} :
        /\ IF config.kv
           THEN /\ ~Conflict(n, r, {})
                /\ Enter(j, [op |-> "check", happ |-> n, record |-> r,
                     left |-> {m \in Happ \ {n} : networks[m] # Unregistered}])
                /\ Overlap(n)
                /\ UNCHANGED <<networks, admits, freed>>
           ELSE /\ ~Conflict(n, r, Happ)
                /\ PutNetwork(n, r)
                /\ UNCHANGED <<job, raced>>
        /\ UNCHANGED <<config, agents, session, proofs>>

\* The list of other networks is read one by one.
CheckNext(j) ==
    /\ job[j].op = "check"
    /\ \E m \in job[j].left :
        IF Conflict(job[j].happ, job[j].record, {m})
        THEN Leave(j)
        ELSE job' = [job EXCEPT ![j].left = @ \ {m}]
    /\ UNCHANGED <<config, networks, agents, session, proofs,
                   admits, freed, raced>>

PutChecked(j) ==
    /\ job[j].op = "check" /\ job[j].left = {}
    /\ PutNetwork(job[j].happ, job[j].record)
    /\ Leave(j)
    /\ UNCHANGED <<config, agents, session, proofs, raced>>

DeleteNetwork(j) ==
    \E n \in Happ :
        /\ job[j] = Off /\ networks[n] # Unregistered
        /\ Enter(j, [op |-> "delete", happ |-> n])
        /\ UNCHANGED <<config, networks, agents, session, proofs,
                       admits, freed, raced>>

DropNetwork(j) ==
    /\ job[j].op = "delete"
    /\ networks' = [networks EXCEPT ![job[j].happ] = Unregistered]
    /\ freed' = freed \cup HashesOf(job[j].happ)
    /\ Leave(j)
    /\ UNCHANGED <<config, agents, session, proofs, admits, raced>>

----------------------------------------------------------------------------
(* POST and DELETE /v1/admin/allowed-agents *)

\* registered_at, which a registration made again carries over, is left out.
RegisterAgent(j) ==
    \E a \in Agent :
        /\ config.agent_registration /\ job[j] = Off
        /\ IF config.kv
           THEN Enter(j, [op |-> "allow", agent |-> a]) /\ UNCHANGED agents
           ELSE agents' = agents \cup {a} /\ UNCHANGED job
        /\ UNCHANGED <<config, networks, session, proofs, admits, freed, raced>>

PutAllowed(j) ==
    /\ job[j].op = "allow"
    /\ agents' = agents \cup {job[j].agent}
    /\ Leave(j)
    /\ UNCHANGED <<config, networks, session, proofs, admits, freed, raced>>

DeleteAgent(j) ==
    \E a \in Agent :
        /\ job[j] = Off /\ a \in agents
        /\ Enter(j, [op |-> "disallow", agent |-> a])
        /\ UNCHANGED <<config, networks, agents, session, proofs, admits, freed, raced>>

DropAgent(j) ==
    /\ job[j].op = "disallow"
    /\ agents' = agents \ {job[j].agent}
    /\ Leave(j)
    /\ UNCHANGED <<config, networks, session, proofs, admits, freed, raced>>

----------------------------------------------------------------------------
(* An agent joins a network, answers its challenge and provisions *)

JoinNetwork(j) ==
    \E a \in Agent, n \in Happ :
        /\ job[j] = Off
        /\ networks[n] # Unregistered /\ Gate(networks[n], a)
        /\ session[a, n] # "ready"
        /\ Enter(j, [op |-> "join", agent |-> a, happ |-> n, record |-> networks[n]])
        /\ UNCHANGED <<config, networks, agents, session, proofs,
                       admits, freed, raced>>

\* createChallenges of agent_allow_list, with the record the join has read.
OnList(s) ==
    s.agent \in StaticAgent \/ s.agent \in agents
      \/ s.agent \in s.record.allowed_agents

CreateSession(j) ==
    /\ job[j].op = "join"
    /\ LET at == <<job[j].agent, job[j].happ>> IN
        session' = [session EXCEPT ![at] =
            IF ~config.allow_list THEN "ready" ELSE IF OnList(job[j]) THEN "pending" ELSE "none"]
    /\ Leave(j)
    /\ UNCHANGED <<config, networks, agents, proofs, admits, freed, raced>>

\* The agent signs its nonce; the lists are not looked at again.
SignNonce ==
    /\ \E s \in Agent \X Happ :
        /\ session[s] = "pending"
        /\ session' = [session EXCEPT ![s] = "ready"]
    /\ UNCHANGED <<config, networks, agents, job, proofs, admits,
                   freed, raced>>

\* resolveProvisionSource: only the network's own roles.
Source(n) == HashesOf(n)

Provision ==
    /\ \E a \in Agent, n \in Happ :
        /\ session[a, n] = "ready"
        /\ proofs' = proofs \cup {<<a, n, h>> : h \in Source(n)}
    /\ UNCHANGED <<config, networks, agents, job, session, admits,
                   freed, raced>>

AdminStep(j) ==
    \/ RegisterNetwork(j) \/ CheckNext(j) \/ PutChecked(j)
    \/ DeleteNetwork(j) \/ DropNetwork(j)
    \/ RegisterAgent(j) \/ PutAllowed(j) \/ DeleteAgent(j) \/ DropAgent(j)

NetworksNext ==
    \/ \E j \in Job : AdminStep(j) \/ JoinNetwork(j) \/ CreateSession(j)
    \/ SignNonce \/ Provision

NetworksSpec == NetworksInit /\ [][NetworksNext]_networkVars

----------------------------------------------------------------------------
(* Properties *)

\* A DNA belongs to one network: registered networks share no hash with each
\* other or with the configuration, unless their registrations overlap on KV.
DnaOfOneNetwork ==
    \A m, n \in Happ : m # n /\ ~({m, n} \subseteq raced) =>
        /\ HashesOf(m) \cap HashesOf(n) = {}
        /\ HashesOf(m) \cap StaticHash = {}

\* No agent gets membrane proofs for one DNA through two networks, which would
\* let it fork its chain, unless an admin took the DNA from the first.
ProofsOfOneNetwork ==
    \A p, q \in proofs : p[1] = q[1] /\ p[3] = q[3] /\ p[2] # q[2] =>
        p[3] \in freed \/ {p[2], q[2]} \subseteq raced

\* Whoever holds a proof for a network was let in by a record of it, however
\* the record is replaced between join, answer and provision.
ProofsOnlyAdmitted ==
    \A p \in proofs : <<p[1], p[2]>> \in admits /\ p[3] \notin StaticHash

=============================================================================
