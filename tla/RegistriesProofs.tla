-------------------------- MODULE RegistriesProofs --------------------------
(***************************************************************************)
(* Proofs about what partners and admins register beside the linkers, and  *)
(* about the parts of MCRegistries in one behaviour, for every value of    *)
(* the constants and any number of requests in flight.                     *)
(*                                                                         *)
(* Networks: a DNA hash belongs to one registered network, and membrane    *)
(* proofs are issued for one network of a DNA and to agents that some      *)
(* record of the network let in.  Over KV a registration checks the other  *)
(* networks one by one while others act.  A network it has checked can     *)
(* take one of its hashes only by a registration in flight at the same     *)
(* time, and then both are raced.  A proof's hash stays with its network   *)
(* until an admin takes it, which freed records, so a second network finds *)
(* it taken or freed.                                                      *)
(*                                                                         *)
(* Partners: the count of the window last opened is the number of joins    *)
(* accepted since it was opened.  An interval that is no longer than a     *)
(* window and reaches into the one last opened begins after the one before *)
(* the last, so what it holds of the time before is at most what one       *)
(* window accepted.                                                        *)
(*                                                                         *)
(* The composition: a step of one part leaves the variables of the others  *)
(* as they are, so a behaviour of MCRegistries is one of each part, and    *)
(* what is proved of a part holds there.                                   *)
(***************************************************************************)
EXTENDS MCRegistries, LinkerRegistrationProofs, FiniteSetTheorems, SequenceTheorems, TLAPS

----------------------------------------------------------------------------
(* Networks: the invariant *)

ChecksOf(j) == job[j].op = "check"

Apart(n, hashes, m) == {m, n} \subseteq raced \/ hashes \cap HashesOf(m) = {}

\* No network has a hash of the configuration.
Clean == \A m \in Happ : HashesOf(m) \cap StaticHash = {}

\* What a registration in flight has found out, and that still holds.
CheckOK(j) ==
    ChecksOf(j) =>
        /\ config.kv
        /\ job[j].record.hashes \cap StaticHash = {}
        /\ \A m \in Happ \ (job[j].left \cup {job[j].happ}) :
              Apart(job[j].happ, job[j].record.hashes, m)

Overlaps ==
    \A j, k \in Job : j # k /\ ChecksOf(j) /\ ChecksOf(k) =>
        {job[j].happ, job[k].happ} \subseteq raced

Disjoint == \A m, n \in Happ : m # n => Apart(n, HashesOf(n), m)

\* A proof's hash is one of its network, or an admin took it from there.
ProofsKeep == \A p \in proofs : p[3] \in HashesOf(p[2]) \cup freed

\* Whoever gets through to a network, or may, was let in by a record of it.
Admitted ==
    /\ \A n \in Happ : networks[n] # Unregistered =>
          \A a \in Agent : Gate(networks[n], a) => <<a, n>> \in admits
    /\ \A j \in Job : job[j].op = "join" => <<job[j].agent, job[j].happ>> \in admits
    /\ \A a \in Agent, n \in Happ : session[<<a, n>>] # "none" => <<a, n>> \in admits

NetworksInv ==
    /\ NetworksTypeOK
    /\ Clean
    /\ \A j \in Job : CheckOK(j)
    /\ Overlaps
    /\ Disjoint
    /\ ProofsKeep
    /\ Admitted
    /\ ProofsOfOneNetwork
    /\ ProofsOnlyAdmitted

----------------------------------------------------------------------------
(* Networks: shapes and hashes *)

\* The fields of a call that has not ended.
LEMMA JobShape ==
    ASSUME NEW s \in JobState
    PROVE  /\ s.op \in {"check", "delete", "join"} => s.happ \in Happ
           /\ s.op \in {"check", "join"} => s.record \in Record
           /\ s.op = "check" => s.left \in SUBSET Happ
           /\ s.op \in {"allow", "disallow", "join"} => s.agent \in Agent
           /\ s.op = "off" <=> s = Off
BY DEF JobState, Off

\* A registered network is told from one that is not.
LEMMA RecordShape ==
    ASSUME NEW r \in Record
    PROVE  /\ r # Unregistered
           /\ r.hashes \in SUBSET Hash /\ r.allowed_agents \in SUBSET (Agent \cup Other)
<1>1. DOMAIN r = {"hashes", "allowed_agents"} /\ DOMAIN Unregistered = {"registered"}
  BY DEF Record, Unregistered
<1> QED BY <1>1 DEF Record

\* The hashes of the networks after one entry was written.
LEMMA HashesAfter ==
    ASSUME NetworksTypeOK, NEW n \in Happ, NEW r,
           networks' = [networks EXCEPT ![n] = r]
    PROVE  /\ networks'[n] = r
           /\ HashesOf(n)' = IF r = Unregistered THEN {} ELSE r.hashes
           /\ \A m \in Happ : m # n => networks'[m] = networks[m] /\ HashesOf(m)' = HashesOf(m)
BY DEF NetworksTypeOK, HashesOf

\* The hashes of a network, registered or not, are DNA hashes.
LEMMA HashesType ==
    ASSUME NetworksTypeOK, NEW n \in Happ
    PROVE  HashesOf(n) \subseteq Hash
BY RecordShape DEF NetworksTypeOK, HashesOf

\* A step that writes no network: what is said of the networks stands.
LEMMA NetworksFrame ==
    ASSUME NetworksInv, UNCHANGED <<networks, freed, proofs>>,
           raced \subseteq raced', admits \subseteq admits'
    PROVE  /\ Clean' /\ Disjoint' /\ ProofsKeep' /\ ProofsOfOneNetwork' /\ ProofsOnlyAdmitted'
           /\ \A n \in Happ : HashesOf(n)' = HashesOf(n)
<1>1. \A n \in Happ : HashesOf(n)' = HashesOf(n)
  BY DEF HashesOf
<1>2. Clean'
  BY <1>1 DEF NetworksInv, Clean
<1>3. Disjoint'
  BY <1>1 DEF NetworksInv, Disjoint, Apart
<1>4. ProofsKeep'
  BY <1>1 DEF NetworksInv, NetworksTypeOK, ProofsKeep
<1>5. ProofsOfOneNetwork'
  BY DEF NetworksInv, ProofsOfOneNetwork
<1>6. ProofsOnlyAdmitted'
  BY DEF NetworksInv, ProofsOnlyAdmitted
<1> QED BY <1>1, <1>2, <1>3, <1>4, <1>5, <1>6

\* A step that writes no network and moves one request, which checks nothing
\* afterwards or goes on with what it knew.
LEMMA NetworksQuietOK ==
    ASSUME NetworksInv, UNCHANGED <<config, networks, freed, proofs, raced, admits>>,
           NEW j \in Job, NEW s \in JobState,
           job' = [job EXCEPT ![j] = s], s.op # "check",
           agents' \subseteq Agent,
           session' \in [Agent \X Happ -> {"none", "pending", "ready"}],
           s.op = "join" => <<s.agent, s.happ>> \in admits,
           \A a \in Agent, n \in Happ :
               session'[<<a, n>>] # "none" => <<a, n>> \in admits
    PROVE  NetworksInv'
<1>1. NetworksTypeOK'
  BY DEF NetworksInv, NetworksTypeOK
<1>2. job'[j] = s /\ \A k \in Job : k # j => job'[k] = job[k]
  BY DEF NetworksInv, NetworksTypeOK
<1>3. \A n \in Happ : HashesOf(n)' = HashesOf(n)
  BY NetworksFrame
<1>4. ASSUME NEW k \in Job PROVE CheckOK(k)'
  <2>1. CASE k = j
    BY <1>2, <2>1 DEF CheckOK, ChecksOf
  <2>2. CASE k # j
    <3> SUFFICES ASSUME ChecksOf(k) PROVE CheckOK(k)'
      BY <1>2, <2>2 DEF CheckOK, ChecksOf
    <3>1. job'[k] = job[k] /\ CheckOK(k) /\ job[k].happ \in Happ
      BY <1>2, <2>2, JobShape DEF NetworksInv, NetworksTypeOK, ChecksOf
    <3> QED BY <1>3, <3>1 DEF CheckOK, Apart
  <2> QED BY <2>1, <2>2
<1>5. Overlaps'
  BY <1>2 DEF NetworksInv, Overlaps, ChecksOf
<1>6. Admitted'
  BY <1>2 DEF NetworksInv, Admitted
<1> QED BY <1>1, <1>4, <1>5, <1>6, NetworksFrame DEF NetworksInv

----------------------------------------------------------------------------
(* Networks: writing one *)

\* An entry is written (or dropped) that shares no hash, and whoever checks at
\* the same time races with it.
LEMMA WriteOK ==
    ASSUME NetworksInv, NEW n \in Happ, NEW r \in Record \cup {Unregistered}, NEW H \in SUBSET Hash,
           H = IF r = Unregistered THEN {} ELSE r.hashes,
           networks' = [networks EXCEPT ![n] = r],
           freed' = freed \cup (HashesOf(n) \ H),
           UNCHANGED <<config, agents, session, proofs, raced>>,
           admits \subseteq admits', admits' \subseteq Agent \X Happ,
           r # Unregistered =>
               \A a \in Agent : Gate(r, a) => <<a, n>> \in admits',
           H \cap StaticHash = {},
           \A m \in Happ \ {n} : Apart(n, H, m),
           job' \in [Job -> JobState],
           \A j \in Job : job'[j].op \in {"check", "join"} => job'[j] = job[j],
           H = {} \/ \A j \in Job : job'[j].op = "check" => {job[j].happ, n} \subseteq raced
    PROVE  NetworksInv'
<1>1. /\ networks'[n] = r /\ HashesOf(n)' = H
      /\ \A m \in Happ : m # n => networks'[m] = networks[m] /\ HashesOf(m)' = HashesOf(m)
  BY HashesAfter DEF NetworksInv
<1>2. NetworksTypeOK'
  BY HashesType DEF NetworksInv, NetworksTypeOK
<1>3. Clean'
  BY <1>1 DEF NetworksInv, Clean
<1>4. ASSUME NEW j \in Job PROVE CheckOK(j)'
  <2> SUFFICES ASSUME ChecksOf(j)', NEW m \in Happ \ (job[j].left \cup {job[j].happ})
               PROVE  /\ config.kv /\ job[j].record.hashes \cap StaticHash = {}
                      /\ {m, job[j].happ} \subseteq raced \/
                           job[j].record.hashes \cap HashesOf(m)' = {}
    BY DEF CheckOK, ChecksOf, Apart, NetworksInv
  <2>1. ChecksOf(j) /\ CheckOK(j) /\ Apart(job[j].happ, job[j].record.hashes, m)
    BY DEF ChecksOf, NetworksInv, CheckOK
  <2>2. CASE m # n
    BY <1>1, <2>1, <2>2 DEF CheckOK, Apart
  <2>3. CASE m = n
    BY <1>1, <2>1, <2>3 DEF CheckOK, ChecksOf
  <2> QED BY <2>2, <2>3
<1>5. Overlaps'
  BY DEF NetworksInv, Overlaps, ChecksOf
<1>6. Disjoint'
  <2> SUFFICES ASSUME NEW k \in Happ, NEW m \in Happ, m # k, ~({m, k} \subseteq raced)
               PROVE  HashesOf(k)' \cap HashesOf(m)' = {}
    BY DEF Disjoint, Apart
  <2>1. CASE k = n
    BY <1>1, <2>1 DEF Apart
  <2>2. CASE m = n
    BY <1>1, <2>2 DEF Apart
  <2>3. CASE k # n /\ m # n
    BY <1>1, <2>3 DEF NetworksInv, Disjoint, Apart
  <2> QED BY <2>1, <2>2, <2>3
<1>7. ProofsKeep'
  <2> SUFFICES ASSUME NEW p \in proofs PROVE p[3] \in HashesOf(p[2])' \cup freed'
    BY DEF ProofsKeep
  <2>1. p[2] \in Happ /\ p[3] \in HashesOf(p[2]) \cup freed
    BY DEF NetworksInv, NetworksTypeOK, ProofsKeep
  <2> QED BY <1>1, <2>1
<1>8. Admitted'
  BY <1>1 DEF NetworksInv, Admitted
<1>9. ProofsOfOneNetwork' /\ ProofsOnlyAdmitted'
  BY DEF NetworksInv, ProofsOfOneNetwork, ProofsOnlyAdmitted
<1> QED BY <1>2, <1>3, <1>4, <1>5, <1>6, <1>7, <1>8, <1>9 DEF NetworksInv

\* store.put of a record lets in the agents its gate lets through.
LEMMA PutAdmits ==
    ASSUME NetworksTypeOK, NEW n \in Happ, NEW r \in Record, PutNetwork(n, r)
    PROVE  /\ admits \subseteq admits' /\ admits' \subseteq Agent \X Happ
           /\ \A a \in Agent : Gate(r, a) => <<a, n>> \in admits'
<1>1. admits' = admits \cup
          {<<a, n>> : a \in IF r.allowed_agents = {} THEN Agent ELSE Agent \cap r.allowed_agents}
  BY DEF PutNetwork
<1> QED BY <1>1 DEF NetworksTypeOK, Gate

----------------------------------------------------------------------------
(* Networks: the admin's requests *)

\* Over KV a registration begins to check; elsewhere it checks all and writes.
LEMMA RegisterNetworkOK ==
    ASSUME NetworksInv, NEW j \in Job, RegisterNetwork(j)
    PROVE  NetworksInv'
<1>1. PICK n \in Happ, r \in Record :
        /\ r.hashes \subseteq config.hashes
        /\ IF config.kv
           THEN /\ ~Conflict(n, r, {})
                /\ Enter(j, [op |-> "check", happ |-> n, record |-> r,
                     left |-> {m \in Happ \ {n} : networks[m] # Unregistered}])
                /\ Overlap(n)
                /\ UNCHANGED <<networks, admits, freed>>
           ELSE /\ ~Conflict(n, r, Happ)
                /\ PutNetwork(n, r)
                /\ UNCHANGED <<job, raced>>
        /\ UNCHANGED <<config, agents, session, proofs>>
  BY DEF RegisterNetwork
<1>2. r # Unregistered /\ r.hashes \in SUBSET Hash
  BY RecordShape
<1>3. CASE ~config.kv
  <2>1. \A i \in Job : ~ChecksOf(i)
    BY <1>3 DEF NetworksInv, CheckOK
  <2>2. r.hashes \cap StaticHash = {} /\ \A m \in Happ \ {n} : Apart(n, r.hashes, m)
    BY <1>1, <1>3 DEF Conflict, Apart
  <2>3. networks' = [networks EXCEPT ![n] = r] /\ freed' = freed \cup (HashesOf(n) \ r.hashes)
    BY <1>1, <1>3 DEF PutNetwork
  <2>4. job' = job /\ job \in [Job -> JobState]
    BY <1>1, <1>3 DEF NetworksInv, NetworksTypeOK
  <2>5. /\ admits \subseteq admits' /\ admits' \subseteq Agent \X Happ
        /\ \A a \in Agent : Gate(r, a) => <<a, n>> \in admits'
    BY <1>1, <1>3, PutAdmits DEF NetworksInv
  <2>6. PICK H \in SUBSET Hash : H = r.hashes
    BY <1>2
  <2> QED BY <1>1, <1>2, <1>3, <2>1, <2>2, <2>3, <2>4, <2>5, <2>6, WriteOK DEF ChecksOf
<1>4. CASE config.kv
  <2>1. PICK s \in JobState :
            s = [op |-> "check", happ |-> n, record |-> r,
                 left |-> {m \in Happ \ {n} : networks[m] # Unregistered}]
    BY <1>1 DEF JobState
  <2>2. /\ job' = [job EXCEPT ![j] = s] /\ raced' = raced \cup Checking \cup
              (IF Checking = {} THEN {} ELSE {n})
        /\ UNCHANGED <<config, networks, agents, session, proofs, admits, freed>>
        /\ r.hashes \cap StaticHash = {}
    BY <1>1, <1>4, <2>1 DEF Enter, Overlap, Conflict
  <2>3. /\ job'[j] = s /\ \A i \in Job : i # j => job'[i] = job[i]
    BY <2>2 DEF NetworksInv, NetworksTypeOK
  <2>4. Checking \subseteq Happ /\ \A i \in Job : ChecksOf(i) => job[i].happ \in Checking
    BY JobShape DEF NetworksInv, NetworksTypeOK, Checking, ChecksOf
  <2>5. NetworksTypeOK'
    BY <2>2, <2>4 DEF NetworksInv, NetworksTypeOK
  <2>6. \A m \in Happ : HashesOf(m)' = HashesOf(m)
    BY <2>2 DEF HashesOf
  <2>7. ASSUME NEW i \in Job PROVE CheckOK(i)'
    <3>1. CASE i = j
      <4>1. \A m \in Happ \ (s.left \cup {n}) : HashesOf(m) = {}
        BY <2>1 DEF HashesOf
      <4> QED BY <1>4, <2>1, <2>2, <2>3, <2>6, <3>1, <4>1 DEF CheckOK, ChecksOf, Apart
    <3>2. CASE i # j
      <4> SUFFICES ASSUME ChecksOf(i) PROVE CheckOK(i)'
        BY <2>3, <3>2 DEF CheckOK, ChecksOf
      <4>1. job'[i] = job[i] /\ CheckOK(i)
        BY <2>3, <3>2 DEF NetworksInv
      <4> QED BY <1>4, <2>2, <2>6, <4>1 DEF CheckOK, ChecksOf, Apart
    <3> QED BY <3>1, <3>2
  <2>8. Overlaps'
    <3> SUFFICES ASSUME NEW i \in Job, NEW k \in Job, i # k, ChecksOf(i)', ChecksOf(k)'
                 PROVE  {job'[i].happ, job'[k].happ} \subseteq raced'
      BY DEF Overlaps
    <3>1. ASSUME NEW l \in Job, l # j, ChecksOf(l)' PROVE job[l].happ \in Checking
      BY <2>3, <2>4, <3>1 DEF ChecksOf
    <3>2. CASE i = j \/ k = j
      BY <2>1, <2>2, <2>3, <3>1, <3>2
    <3>3. CASE i # j /\ k # j
      BY <2>2, <2>3, <3>1, <3>3
    <3> QED BY <3>2, <3>3
  <2>9. Admitted'
    BY <2>1, <2>2, <2>3 DEF NetworksInv, Admitted
  <2> QED BY <2>2, <2>5, <2>7, <2>8, <2>9, NetworksFrame DEF NetworksInv
<1> QED BY <1>3, <1>4

\* CheckNext: what it finds apart stays apart, unless the other races with it.
LEMMA CheckNextOK ==
    ASSUME NetworksInv, NEW j \in Job, CheckNext(j)
    PROVE  NetworksInv'
<1>1. /\ ChecksOf(j) /\ job[j] \in JobState /\ CheckOK(j)
      /\ UNCHANGED <<config, networks, agents, session, proofs, admits, freed, raced>>
  BY DEF CheckNext, ChecksOf, NetworksInv, NetworksTypeOK
<1>2. /\ job[j].happ \in Happ /\ job[j].record \in Record /\ job[j].left \in SUBSET Happ
  BY <1>1, JobShape DEF ChecksOf
<1>3. PICK m \in job[j].left :
        IF Conflict(job[j].happ, job[j].record, {m})
        THEN Leave(j)
        ELSE job' = [job EXCEPT ![j].left = @ \ {m}]
  BY DEF CheckNext
<1>4. CASE Leave(j)
  <2>1. Off \in JobState /\ Off.op = "off"
    BY DEF JobState, Off
  <2>2. job' = [job EXCEPT ![j] = Off]
    BY <1>4 DEF Leave, Enter
  <2> QED BY <1>1, <2>1, <2>2, NetworksQuietOK DEF NetworksInv, NetworksTypeOK, Admitted
<1>5. CASE ~Conflict(job[j].happ, job[j].record, {m}) /\ job' = [job EXCEPT ![j].left = @ \ {m}]
  <2>1. PICK s : s = [job[j] EXCEPT !.left = job[j].left \ {m}]
    OBVIOUS
  <2>2. job[j] \in [op : {"check"}, happ : Happ, record : Record, left : SUBSET Happ]
    BY <1>1 DEF JobState, Off, ChecksOf
  <2>3. /\ s \in [op : {"check"}, happ : Happ, record : Record, left : SUBSET Happ]
        /\ s.happ = job[j].happ /\ s.record = job[j].record /\ s.left = job[j].left \ {m}
    BY <2>1, <2>2
  <2>4. s \in JobState /\ s.op = "check"
    BY <2>3 DEF JobState
  <2>5. /\ job'[j] = s /\ \A i \in Job : i # j => job'[i] = job[i]
        /\ job' = [job EXCEPT ![j] = s]
    BY <1>5, <2>1 DEF NetworksInv, NetworksTypeOK
  <2>6. NetworksTypeOK'
    BY <1>1, <2>4, <2>5 DEF NetworksInv, NetworksTypeOK
  <2>7. \A i \in Happ : HashesOf(i)' = HashesOf(i)
    BY <1>1 DEF HashesOf
  <2>8. Apart(job[j].happ, job[j].record.hashes, m) \/ m = job[j].happ
    BY <1>5 DEF Conflict, Apart
  <2>9. ASSUME NEW i \in Job PROVE CheckOK(i)'
    <3>1. CASE i = j
      BY <1>1, <1>2, <2>3, <2>4, <2>5, <2>7, <2>8, <3>1 DEF CheckOK, ChecksOf, Apart
    <3>2. CASE i # j
      <4> SUFFICES ASSUME ChecksOf(i) PROVE CheckOK(i)'
        BY <2>5, <3>2 DEF CheckOK, ChecksOf
      <4>1. job'[i] = job[i] /\ CheckOK(i)
        BY <2>5, <3>2 DEF NetworksInv
      <4> QED BY <1>1, <2>7, <4>1 DEF CheckOK, ChecksOf, Apart
    <3> QED BY <3>1, <3>2
  <2>10. Overlaps'
    <3>1. \A i \in Job : ChecksOf(i)' => ChecksOf(i) /\ job'[i].happ = job[i].happ
      BY <1>1, <2>3, <2>5 DEF ChecksOf
    <3> QED BY <1>1, <3>1 DEF NetworksInv, Overlaps
  <2>11. Admitted'
    BY <1>1, <2>4, <2>5 DEF NetworksInv, Admitted
  <2> QED BY <1>1, <2>6, <2>9, <2>10, <2>11, NetworksFrame DEF NetworksInv
<1> QED BY <1>3, <1>4, <1>5

\* PutChecked: every other network has been checked.
LEMMA PutCheckedOK ==
    ASSUME NetworksInv, NEW j \in Job, PutChecked(j)
    PROVE  NetworksInv'
<1>1. /\ ChecksOf(j) /\ job[j] \in JobState /\ CheckOK(j) /\ job[j].left = {}
      /\ PutNetwork(job[j].happ, job[j].record)
      /\ job' = [job EXCEPT ![j] = Off]
      /\ UNCHANGED <<config, agents, session, proofs, raced>>
  BY DEF PutChecked, ChecksOf, NetworksInv, NetworksTypeOK, Leave, Enter
<1>2. PICK n \in Happ, r \in Record : n = job[j].happ /\ r = job[j].record
  BY <1>1, JobShape DEF ChecksOf
<1>3. PICK H \in SUBSET Hash : H = r.hashes /\ r # Unregistered
  BY RecordShape
<1>4. Off \in JobState /\ Off.op = "off"
  BY DEF JobState, Off
<1>5. /\ job'[j] = Off /\ \A i \in Job : i # j => job'[i] = job[i]
      /\ job' \in [Job -> JobState]
  BY <1>1, <1>4 DEF NetworksInv, NetworksTypeOK
<1>6. H \cap StaticHash = {} /\ \A m \in Happ \ {n} : Apart(n, H, m)
  BY <1>1, <1>2, <1>3 DEF CheckOK
<1>7. \A i \in Job : job'[i].op = "check" => {job[i].happ, n} \subseteq raced
  <2> TAKE i \in Job
  <2> HAVE job'[i].op = "check"
  <2>1. i # j /\ ChecksOf(i)
    BY <1>4, <1>5 DEF ChecksOf
  <2> QED BY <1>1, <1>2, <2>1 DEF NetworksInv, Overlaps
<1>8. networks' = [networks EXCEPT ![n] = r] /\ freed' = freed \cup (HashesOf(n) \ H)
  BY <1>1, <1>2, <1>3 DEF PutNetwork
<1>9. /\ admits \subseteq admits' /\ admits' \subseteq Agent \X Happ
      /\ \A a \in Agent : Gate(r, a) => <<a, n>> \in admits'
  BY <1>1, <1>2, PutAdmits DEF NetworksInv
<1>10. \A i \in Job : job'[i].op \in {"check", "join"} => job'[i] = job[i]
  BY <1>4, <1>5
<1> QED BY <1>1, <1>3, <1>5, <1>6, <1>7, <1>8, <1>9, <1>10, WriteOK

\* DropNetwork: the hashes of a network that is gone are freed.
LEMMA DropNetworkOK ==
    ASSUME NetworksInv, NEW j \in Job, DropNetwork(j)
    PROVE  NetworksInv'
<1>1. /\ job[j].op = "delete" /\ job[j] \in JobState
      /\ job' = [job EXCEPT ![j] = Off]
      /\ UNCHANGED <<config, agents, session, proofs, admits, raced>>
  BY DEF DropNetwork, NetworksInv, NetworksTypeOK, Leave, Enter
<1>2. PICK n \in Happ : n = job[j].happ
  BY <1>1, JobShape
<1>3. PICK H \in SUBSET Hash, r \in {Unregistered} : H = {}
  OBVIOUS
<1>4. networks' = [networks EXCEPT ![n] = r] /\ freed' = freed \cup (HashesOf(n) \ H)
  BY <1>2, <1>3 DEF DropNetwork
<1>5. Off \in JobState /\ Off.op = "off"
  BY DEF JobState, Off
<1>6. /\ job' \in [Job -> JobState]
      /\ \A i \in Job : job'[i].op \in {"check", "join"} => job'[i] = job[i]
  BY <1>1, <1>5 DEF NetworksInv, NetworksTypeOK
<1>7. \A m \in Happ \ {n} : Apart(n, H, m)
  BY <1>3 DEF Apart
<1>8. admits' \subseteq Agent \X Happ
  BY <1>1 DEF NetworksInv, NetworksTypeOK
<1> QED BY <1>1, <1>3, <1>4, <1>6, <1>7, <1>8, WriteOK

\* The allowed agents are no part of what is proved here.
LEMMA AgentStepOK ==
    ASSUME NetworksInv, NEW j \in Job,
           RegisterAgent(j) \/ PutAllowed(j) \/ DeleteAgent(j) \/ DropAgent(j) \/ DeleteNetwork(j)
    PROVE  NetworksInv'
<1>1. /\ UNCHANGED <<config, networks, session, freed, proofs, raced, admits>>
      /\ agents' \subseteq Agent
  BY JobShape DEF RegisterAgent, PutAllowed, DeleteAgent, DropAgent, DeleteNetwork, NetworksInv, NetworksTypeOK
<1>2. \/ job' = job /\ job[j] = Off
      \/ \E s \in JobState : s.op \notin {"check", "join"} /\ job' = [job EXCEPT ![j] = s]
  BY DEF RegisterAgent, PutAllowed, DeleteAgent, DropAgent, DeleteNetwork, Enter, Leave,
     JobState, Off
<1>3. PICK s \in JobState : s.op \notin {"check", "join"} /\ job' = [job EXCEPT ![j] = s]
  <2>1. job = [job EXCEPT ![j] = job[j]]
    BY DEF NetworksInv, NetworksTypeOK
  <2> QED BY <1>2, <2>1 DEF NetworksInv, NetworksTypeOK, JobState, Off
<1> QED BY <1>1, <1>3, NetworksQuietOK DEF NetworksInv, NetworksTypeOK, Admitted

----------------------------------------------------------------------------
(* Networks: agents *)

\* JoinNetwork: the gate of the record that was read let the agent in.
LEMMA JoinNetworkOK ==
    ASSUME NetworksInv, NEW j \in Job, JoinNetwork(j)
    PROVE  NetworksInv'
<1>1. PICK a \in Agent, n \in Happ :
        /\ networks[n] # Unregistered /\ Gate(networks[n], a)
        /\ Enter(j, [op |-> "join", agent |-> a, happ |-> n, record |-> networks[n]])
        /\ UNCHANGED <<config, networks, agents, session, proofs, admits, freed, raced>>
  BY DEF JoinNetwork
<1>2. networks[n] \in Record /\ <<a, n>> \in admits
  BY <1>1 DEF NetworksInv, NetworksTypeOK, Admitted
<1>3. PICK s \in JobState :
          s = [op |-> "join", agent |-> a, happ |-> n, record |-> networks[n]]
  BY <1>2 DEF JobState
<1>4. job' = [job EXCEPT ![j] = s] /\ s.op = "join" /\ s.agent = a /\ s.happ = n
  BY <1>1, <1>3 DEF Enter
<1> QED BY <1>1, <1>2, <1>4, NetworksQuietOK DEF NetworksInv, NetworksTypeOK, Admitted

\* CreateSession: the session is one of the agent and network that got through.
LEMMA CreateSessionOK ==
    ASSUME NetworksInv, NEW j \in Job, CreateSession(j)
    PROVE  NetworksInv'
<1>1. /\ job[j].op = "join" /\ job[j] \in JobState
      /\ UNCHANGED <<config, networks, agents, proofs, admits, freed, raced>>
      /\ job' = [job EXCEPT ![j] = Off]
  BY DEF CreateSession, Leave, Enter, NetworksInv, NetworksTypeOK
<1>2. job[j].agent \in Agent /\ job[j].happ \in Happ
      /\ <<job[j].agent, job[j].happ>> \in admits
  BY <1>1, JobShape DEF NetworksInv, Admitted
<1>3. PICK at \in Agent \X Happ, v \in {"none", "pending", "ready"} :
          at = <<job[j].agent, job[j].happ>> /\ session' = [session EXCEPT ![at] = v]
  BY <1>2 DEF CreateSession
<1>4. /\ session' \in [Agent \X Happ -> {"none", "pending", "ready"}]
      /\ \A s \in Agent \X Happ : s # at => session'[s] = session[s]
  BY <1>3 DEF NetworksInv, NetworksTypeOK
<1>5. \A a \in Agent, n \in Happ : session'[<<a, n>>] # "none" => <<a, n>> \in admits
  BY <1>2, <1>3, <1>4 DEF NetworksInv, Admitted
<1>6. Off \in JobState /\ Off.op = "off"
  BY DEF JobState, Off
<1> QED BY <1>1, <1>4, <1>5, <1>6, NetworksQuietOK DEF NetworksInv, NetworksTypeOK

\* An agent on the allow list that signs its nonce becomes ready.
LEMMA SignNonceOK ==
    ASSUME NetworksInv, SignNonce
    PROVE  NetworksInv'
<1>1. PICK at \in Agent \X Happ :
          session[at] = "pending" /\ session' = [session EXCEPT ![at] = "ready"]
  BY DEF SignNonce
<1>2. UNCHANGED <<config, networks, agents, job, proofs, admits, freed, raced>>
  BY DEF SignNonce
<1>3. NetworksTypeOK'
  BY <1>1, <1>2 DEF NetworksInv, NetworksTypeOK
<1>4. Admitted'
  <2>1. \A a \in Agent, n \in Happ : session'[<<a, n>>] # "none" => session[<<a, n>>] # "none"
    BY <1>1 DEF NetworksInv, NetworksTypeOK
  <2> QED BY <1>2, <2>1 DEF NetworksInv, Admitted
<1>5. \A i \in Job : CheckOK(i)'
  BY <1>2 DEF NetworksInv, CheckOK, ChecksOf, Apart, HashesOf
<1>6. Overlaps'
  BY <1>2 DEF NetworksInv, Overlaps, ChecksOf
<1> QED BY <1>2, <1>3, <1>4, <1>5, <1>6, NetworksFrame DEF NetworksInv

\* Provision: a hash that another network's proof is for was taken from there,
\* or the two networks raced.
LEMMA ProvisionOK ==
    ASSUME NetworksInv, Provision
    PROVE  NetworksInv'
<1>1. PICK a \in Agent, n \in Happ :
          session[<<a, n>>] = "ready" /\ proofs' = proofs \cup {<<a, n, h>> : h \in HashesOf(n)}
  BY DEF Provision, Source
<1>2. UNCHANGED <<config, networks, agents, job, session, admits, freed, raced>>
  BY DEF Provision
<1>3. HashesOf(n) \subseteq Hash /\ <<a, n>> \in admits
  BY <1>1, HashesType DEF NetworksInv, Admitted
<1>4. \A p \in proofs' : p \in proofs \/
          (p[1] = a /\ p[2] = n /\ p[3] \in HashesOf(n) /\ p \in Agent \X Happ \X Hash)
  <2> SUFFICES ASSUME NEW h \in HashesOf(n), NEW p, p = <<a, n, h>>
               PROVE  p[1] = a /\ p[2] = n /\ p[3] \in HashesOf(n) /\ p \in Agent \X Happ \X Hash
    BY <1>1
  <2>1. h \in Hash
    BY <1>3
  <2> QED BY <2>1
<1>5. NetworksTypeOK'
  BY <1>2, <1>4 DEF NetworksInv, NetworksTypeOK
<1>6. \A m \in Happ : HashesOf(m)' = HashesOf(m)
  BY <1>2 DEF HashesOf
<1>7. Clean' /\ Disjoint' /\ Overlaps' /\ \A i \in Job : CheckOK(i)'
  BY <1>2 DEF NetworksInv, Clean, Disjoint, Overlaps, CheckOK, ChecksOf, Apart, HashesOf
<1>8. ProofsKeep'
  <2> SUFFICES ASSUME NEW p \in proofs' PROVE p[3] \in HashesOf(p[2]) \cup freed
    BY <1>2 DEF ProofsKeep, HashesOf
  <2> QED BY <1>4 DEF NetworksInv, ProofsKeep
<1>9. Admitted'
  BY <1>2 DEF NetworksInv, Admitted
<1>10. ProofsOnlyAdmitted'
  <2> SUFFICES ASSUME NEW p \in proofs'
               PROVE  <<p[1], p[2]>> \in admits /\ p[3] \notin StaticHash
    BY <1>2 DEF ProofsOnlyAdmitted
  <2>1. CASE p \in proofs
    BY <2>1 DEF NetworksInv, ProofsOnlyAdmitted
  <2>2. CASE p[1] = a /\ p[2] = n /\ p[3] \in HashesOf(n)
    BY <1>3, <2>2 DEF NetworksInv, Clean
  <2> QED BY <1>4, <2>1, <2>2
<1>11. ProofsOfOneNetwork'
  <2> SUFFICES ASSUME NEW p \in proofs', NEW q \in proofs',
                      p[1] = q[1], p[3] = q[3], p[2] # q[2],
                      p[3] \notin freed, ~({p[2], q[2]} \subseteq raced)
               PROVE  FALSE
    BY <1>2 DEF ProofsOfOneNetwork
  <2>1. p[3] \in HashesOf(p[2]) /\ q[3] \in HashesOf(q[2])
    BY <1>2, <1>6, <1>8 DEF ProofsKeep, HashesOf
  <2>2. p[2] \in Happ /\ q[2] \in Happ
    BY <1>5 DEF NetworksTypeOK
  <2> QED BY <2>1, <2>2 DEF NetworksInv, Disjoint, Apart
<1> QED BY <1>5, <1>7, <1>8, <1>9, <1>10, <1>11 DEF NetworksInv

----------------------------------------------------------------------------
(* Networks: the theorems *)

\* The invariant holds at first.
LEMMA NetworksInitOK == NetworksInit => NetworksInv
<1> SUFFICES ASSUME NetworksInit PROVE NetworksInv
  OBVIOUS
<1>1. \A j \in Job : job[j] = Off /\ job[j].op = "off" /\ job[j] \in JobState
  BY DEF NetworksInit, JobState, Off
<1>2. \A n \in Happ : HashesOf(n) = {} /\ networks[n] = Unregistered
  BY DEF NetworksInit, HashesOf
<1>3. NetworksTypeOK
  BY <1>1 DEF NetworksInit, NetworksTypeOK
<1>4. Clean /\ Overlaps /\ Disjoint /\ \A j \in Job : CheckOK(j)
  BY <1>1, <1>2 DEF Clean, Overlaps, Disjoint, CheckOK, ChecksOf, Apart
<1>5. ProofsKeep /\ ProofsOfOneNetwork /\ ProofsOnlyAdmitted
  BY DEF NetworksInit, ProofsKeep, ProofsOfOneNetwork, ProofsOnlyAdmitted
<1>6. Admitted
  BY <1>1, <1>2 DEF NetworksInit, Admitted
<1> QED BY <1>3, <1>4, <1>5, <1>6 DEF NetworksInv

\* Every step keeps the invariant.
LEMMA NetworksNextOK == NetworksInv /\ [NetworksNext]_networkVars => NetworksInv'
<1> SUFFICES ASSUME NetworksInv, [NetworksNext]_networkVars PROVE NetworksInv'
  OBVIOUS
<1>1. ASSUME NEW j \in Job, AdminStep(j) PROVE NetworksInv'
  BY <1>1, RegisterNetworkOK, CheckNextOK, PutCheckedOK, DropNetworkOK, AgentStepOK DEF AdminStep
<1>2. CASE UNCHANGED networkVars
  BY <1>2 DEF networkVars, NetworksInv, NetworksTypeOK, Clean, Overlaps, Disjoint, CheckOK, ChecksOf, Apart,
     HashesOf, ProofsKeep, ProofsOfOneNetwork, ProofsOnlyAdmitted, Admitted
<1> QED BY <1>1, <1>2, JoinNetworkOK, CreateSessionOK, SignNonceOK, ProvisionOK DEF NetworksNext

\* What is said of the networks, the registrations in flight and the proofs is
\* true of every reachable state.
THEOREM NetworksInvariance == NetworksSpec => []NetworksInv
<1>1. NetworksInv /\ [NetworksNext]_networkVars => NetworksInv'
  BY NetworksNextOK
<1> QED BY <1>1, NetworksInitOK, PTL DEF NetworksSpec

\* Every variable keeps its type: a record never becomes something else.
THEOREM NetworksTypeCorrect == NetworksSpec => []NetworksTypeOK
<1>1. NetworksInv => NetworksTypeOK
  BY DEF NetworksInv
<1> QED BY <1>1, NetworksInvariance, PTL

\* No two registered networks share a DNA hash, nor any with the configuration,
\* unless their registrations overlapped on KV.
THEOREM OneNetworkPerDna == NetworksSpec => []DnaOfOneNetwork
<1>1. NetworksInv => DnaOfOneNetwork
  BY DEF NetworksInv, Clean, Disjoint, Apart, DnaOfOneNetwork
<1> QED BY <1>1, NetworksInvariance, PTL

\* No agent gets membrane proofs for one DNA through two networks, unless an
\* admin took the DNA from one of them or their registrations overlapped on KV.
THEOREM OneProofPerDna == NetworksSpec => []ProofsOfOneNetwork
<1>1. NetworksInv => ProofsOfOneNetwork
  BY DEF NetworksInv
<1> QED BY <1>1, NetworksInvariance, PTL

\* Whoever holds a membrane proof was let in by some record of its network.
THEOREM ProofsNeedAdmission == NetworksSpec => []ProofsOnlyAdmitted
<1>1. NetworksInv => ProofsOnlyAdmitted
  BY DEF NetworksInv
<1> QED BY <1>1, NetworksInvariance, PTL

----------------------------------------------------------------------------
(* Partners: the invariant *)

Joins == [partner : Partner, at : Nat, claims : Claims]

\* The joins AcceptedIn counts, of any list of joins.
JoinsIn(acc, p, from, to) ==
    {i \in 1 .. Len(acc) : acc[i].partner = p /\ acc[i].at \in from .. to}

Count(acc, p, from, to) == Cardinality(JoinsIn(acc, p, from, to))

\* Joins are accepted at the time of the clock.
NoneAhead == \A i \in 1 .. Len(accepted) : accepted[i].at <= minute

\* The window of p that opened at start has counted its joins, is the last one,
\* and of the time before it no interval that it ends holds more than a limit.
WindowKept(p, start, count) ==
    /\ start <= minute
    /\ count <= rate_limit[p]
    /\ count = Count(accepted, p, start, start + Window)
    /\ \A i \in 1 .. Len(accepted) :
          accepted[i].partner = p => accepted[i].at <= start + Window
    /\ \A from \in 0 .. MaxMinute : from + Window >= start =>
          Count(accepted, p, from, start - 1) <= rate_limit[p]

PartnerKept(p) ==
    IF rateState[p] = Closed
    THEN \A i \in 1 .. Len(accepted) : accepted[i].partner # p
    ELSE WindowKept(p, rateState[p].window_start, rateState[p].count)

\* BurstBounded, in terms of Count.
Bursts ==
    \A p \in Partner, from \in 0 .. MaxMinute :
        Count(accepted, p, from, from + Window) <= 2 * rate_limit[p]

DelegatedInv ==
    /\ DelegatedTypeOK
    /\ NoneAhead
    /\ \A p \in Partner : PartnerKept(p)
    /\ Bursts

\* What becomes of the list when p's join is accepted, and of the counts.
AcceptedNow(new, p) ==
    /\ Len(new) = Len(accepted) + 1
    /\ \A i \in 1 .. Len(accepted) : new[i] = accepted[i]
    /\ new[Len(accepted) + 1].partner = p
    /\ new[Len(accepted) + 1].at = minute
    /\ \A q, from, to : from \in Int /\ to \in Int =>
          Count(new, q, from, to) = Count(accepted, q, from, to)
              + (IF q = p /\ minute \in from .. to THEN 1 ELSE 0)

\* As in DelegatedInit and after a restart.
Forgotten ==
    /\ minute \in 0 .. MaxMinute
    /\ rateState = [p \in Partner |-> Closed]
    /\ accepted = << >>

----------------------------------------------------------------------------
(* Partners: shapes *)

\* What the state and the configuration are.
LEMMA Shapes ==
    ASSUME DelegatedTypeOK
    PROVE  /\ minute \in Nat /\ MaxMinute \in Nat /\ minute <= MaxMinute
           /\ Window \in Nat /\ Window > 0
           /\ \A p \in Partner : rate_limit[p] \in Nat /\ rate_limit[p] > 0
           /\ accepted \in Seq(Joins)
           /\ Len(accepted) \in Nat
           /\ \A i \in 1 .. Len(accepted) : accepted[i].at \in Nat
           /\ rateState \in [Partner -> [count : Nat, window_start : Nat] \cup {Closed}]
  <1>1. accepted \in Seq(Joins)
    BY DEF DelegatedTypeOK, Joins
  <1>2. Len(accepted) \in Nat
    BY <1>1
  <1>3. ASSUME NEW i \in 1 .. Len(accepted) PROVE accepted[i].at \in Nat
    <2>1. accepted[i] \in Joins
      BY <1>1, ElementOfSeq
    <2> QED
      BY <2>1 DEF Joins
  <1>4. \A p \in Partner : rate_limit[p] \in Nat /\ rate_limit[p] > 0
    BY DelegatedAssumption
  <1>5. Window \in Nat /\ Window > 0 /\ MaxMinute \in Nat
    BY DelegatedAssumption
  <1>6. minute \in Nat /\ minute <= MaxMinute
    BY <1>5 DEF DelegatedTypeOK
  <1>7. rateState \in [Partner -> [count : Nat, window_start : Nat] \cup {Closed}]
    BY DEF DelegatedTypeOK
  <1> QED
    BY <1>1, <1>2, <1>3, <1>4, <1>5, <1>6, <1>7

----------------------------------------------------------------------------
(* Partners: counting joins *)

\* AcceptedIn counts the joins of an interval.
LEMMA CountIsAccepted ==
    \A p, from, to : AcceptedIn(p, from, to) = Count(accepted, p, from, to)
  BY DEF AcceptedIn, Count, JoinsIn

\* The joins of an interval are finitely many.
LEMMA JoinsFinite ==
    ASSUME NEW acc \in Seq(Joins), NEW p, NEW from, NEW to
    PROVE  /\ IsFiniteSet(JoinsIn(acc, p, from, to))
           /\ Count(acc, p, from, to) \in Nat
  <1>1. Len(acc) \in Nat
    OBVIOUS
  <1>2. IsFiniteSet(1 .. Len(acc))
    BY <1>1, FS_Interval
  <1>3. JoinsIn(acc, p, from, to) \in SUBSET (1 .. Len(acc))
    BY DEF JoinsIn
  <1>4. IsFiniteSet(JoinsIn(acc, p, from, to))
    BY <1>2, <1>3, FS_Subset
  <1> QED
    BY <1>4, FS_CardinalityType DEF Count

\* An interval that holds the joins of another holds at least as many.
LEMMA MoreJoins ==
    ASSUME NEW acc \in Seq(Joins), NEW p, NEW from, NEW to, NEW f, NEW t,
           JoinsIn(acc, p, from, to) \subseteq JoinsIn(acc, p, f, t)
    PROVE  Count(acc, p, from, to) <= Count(acc, p, f, t)
  BY JoinsFinite, FS_Subset DEF Count

\* An interval that holds no join counts none.
LEMMA NoJoins ==
    ASSUME NEW acc, NEW p, NEW from, NEW to, JoinsIn(acc, p, from, to) = {}
    PROVE  Count(acc, p, from, to) = 0
  BY FS_EmptySet DEF Count

\* What two intervals hold together is at most the sum of what each holds.
LEMMA JoinsOfTwo ==
    ASSUME NEW acc \in Seq(Joins), NEW p,
           NEW from, NEW to, NEW f, NEW t, NEW g, NEW u,
           JoinsIn(acc, p, from, to) \subseteq JoinsIn(acc, p, f, t) \cup JoinsIn(acc, p, g, u)
    PROVE  Count(acc, p, from, to) <= Count(acc, p, f, t) + Count(acc, p, g, u)
  <1> DEFINE A == JoinsIn(acc, p, from, to)
             B == JoinsIn(acc, p, f, t)
             C == JoinsIn(acc, p, g, u)
  <1>1. IsFiniteSet(A) /\ IsFiniteSet(B) /\ IsFiniteSet(C)
    BY JoinsFinite
  <1>2. /\ IsFiniteSet(B \cup C)
        /\ Cardinality(B \cup C) = Cardinality(B) + Cardinality(C) - Cardinality(B \cap C)
    BY <1>1, FS_Union
  <1>3. IsFiniteSet(B \cap C)
    BY <1>1, FS_Subset
  <1>4. /\ Cardinality(B) \in Nat /\ Cardinality(C) \in Nat
        /\ Cardinality(B \cap C) \in Nat /\ Cardinality(A) \in Nat
    BY <1>1, <1>3, FS_CardinalityType
  <1>5. Cardinality(A) <= Cardinality(B \cup C)
    BY <1>2, FS_Subset
  <1>6. Cardinality(A) <= Cardinality(B) + Cardinality(C)
    <2> HIDE DEF A, B, C
    <2> QED
      BY <1>2, <1>4, <1>5
  <1> QED
    BY <1>6 DEF Count

----------------------------------------------------------------------------
(* Partners: the window of a request *)

\* A request counts in a window that is open now, the one of before or a new one.
LEMMA WindowOfKept ==
    ASSUME DelegatedInv, NEW p \in Partner
    PROVE  /\ WindowOf(p) \in [count : Nat, window_start : Nat]
           /\ WindowKept(p, WindowOf(p).window_start, WindowOf(p).count)
           /\ minute <= WindowOf(p).window_start + Window
  <1>0. /\ minute \in Nat /\ Window \in Nat /\ rate_limit[p] \in Nat /\ rate_limit[p] > 0
        /\ MaxMinute \in Nat /\ minute <= MaxMinute /\ Len(accepted) \in Nat
        /\ accepted \in Seq(Joins)
        /\ \A i \in 1 .. Len(accepted) : accepted[i].at \in Nat /\ accepted[i].at <= minute
    BY Shapes DEF DelegatedInv, NoneAhead
  <1>1. PartnerKept(p) /\ rateState[p] \in [count : Nat, window_start : Nat] \cup {Closed}
    BY DEF DelegatedInv, DelegatedTypeOK
  <1>2. CASE rateState[p] # Closed /\ ~(minute - rateState[p].window_start > Window)
    <2>1. WindowOf(p) = rateState[p] /\ rateState[p] \in [count : Nat, window_start : Nat]
      BY <1>1, <1>2 DEF WindowOf
    <2> QED
      BY <1>0, <1>1, <1>2, <2>1 DEF PartnerKept
  <1>3. CASE rateState[p] = Closed \/ minute - rateState[p].window_start > Window
    <2>1. WindowOf(p) = [count |-> 0, window_start |-> minute]
      BY <1>3 DEF WindowOf
    <2>2. \A i \in 1 .. Len(accepted) : accepted[i].partner = p =>
              /\ accepted[i].at < minute
              /\ rateState[p] # Closed => accepted[i].at <= rateState[p].window_start + Window
      BY <1>0, <1>1, <1>3 DEF PartnerKept, WindowKept
    <2>3. Count(accepted, p, minute, minute + Window) = 0
      <3>1. JoinsIn(accepted, p, minute, minute + Window) = {}
        BY <1>0, <2>2 DEF JoinsIn
      <3> QED
        BY <3>1, NoJoins
    <2>4. ASSUME NEW from \in 0 .. MaxMinute, from + Window >= minute
          PROVE  Count(accepted, p, from, minute - 1) <= rate_limit[p]
      <3>1. CASE rateState[p] = Closed
        <4>1. JoinsIn(accepted, p, from, minute - 1) = {}
          BY <1>1, <3>1 DEF PartnerKept, JoinsIn
        <4> QED
          BY <4>1, <1>0, NoJoins
      <3>2. CASE rateState[p] # Closed
        <4> DEFINE s == rateState[p].window_start
                   c == rateState[p].count
        <4>1. s \in Nat /\ c \in Nat /\ WindowKept(p, s, c) /\ minute > s + Window
          BY <1>0, <1>1, <1>3, <3>2 DEF PartnerKept
        <4>2. JoinsIn(accepted, p, from, minute - 1) \subseteq JoinsIn(accepted, p, s, s + Window)
          <5> SUFFICES ASSUME NEW i \in JoinsIn(accepted, p, from, minute - 1)
                       PROVE  i \in JoinsIn(accepted, p, s, s + Window)
            OBVIOUS
          <5>1. /\ i \in 1 .. Len(accepted) /\ accepted[i].partner = p
                /\ accepted[i].at >= from /\ accepted[i].at \in Nat
            BY <1>0 DEF JoinsIn
          <5>2. accepted[i].at <= s + Window
            BY <5>1, <4>1 DEF WindowKept
          <5>3. accepted[i].at \in s .. (s + Window)
            <6> HIDE DEF s
            <6> QED
              BY <5>1, <5>2, <4>1, <2>4, <1>0
          <5> QED
            BY <5>1, <5>3 DEF JoinsIn
        <4>3. Count(accepted, p, from, minute - 1) <= c
          BY <4>1, <4>2, <1>0, MoreJoins DEF WindowKept
        <4> QED
          BY <4>1, <4>3, <1>0, JoinsFinite DEF WindowKept
      <3> QED
        BY <3>1, <3>2
    <2>5. WindowKept(p, minute, 0)
      BY <1>0, <2>2, <2>3, <2>4 DEF WindowKept
    <2> QED
      BY <2>1, <2>5, <1>0
  <1> QED
    BY <1>2, <1>3

\* A window that counts is not a closed one.
LEMMA OpenWindow ==
    ASSUME NEW w \in [count : Nat, window_start : Nat]
    PROVE  w # Closed
  <1>1. "count" \in DOMAIN w
    OBVIOUS
  <1>2. "count" \notin DOMAIN Closed
    BY DEF Closed
  <1> QED
    BY <1>1, <1>2

\* Counting a join leaves the window where it is.
LEMMA OneMoreCounted ==
    ASSUME NEW v \in [count : Nat, window_start : Nat]
    PROVE  /\ [v EXCEPT !.count = @ + 1] \in [count : Nat, window_start : Nat]
           /\ [v EXCEPT !.count = @ + 1].count = v.count + 1
           /\ [v EXCEPT !.count = @ + 1].window_start = v.window_start
  OBVIOUS

\* A join is listed at the end and counts in the intervals that hold the time.
LEMMA OneMoreListed ==
    ASSUME accepted \in Seq(Joins), minute \in Nat, NEW p,
           NEW join \in Joins, join.partner = p, join.at = minute,
           NEW new, new = Append(accepted, join)
    PROVE  new \in Seq(Joins) /\ AcceptedNow(new, p)
  <1>1. /\ new \in Seq(Joins) /\ Len(new) = Len(accepted) + 1
        /\ \A i \in 1 .. Len(accepted) : new[i] = accepted[i]
        /\ new[Len(accepted) + 1] = join
    OBVIOUS
  <1>2. ASSUME NEW q, NEW from \in Int, NEW to \in Int
        PROVE  Count(new, q, from, to) = Count(accepted, q, from, to)
                   + (IF q = p /\ minute \in from .. to THEN 1 ELSE 0)
    <2>1. /\ Len(accepted) \in Nat
          /\ Len(new) = Len(accepted) + 1
          /\ \A i \in 1 .. Len(accepted) : new[i] = accepted[i]
          /\ new[Len(accepted) + 1].partner = p /\ new[Len(accepted) + 1].at = minute
          /\ Len(accepted) + 1 \notin JoinsIn(accepted, q, from, to)
      BY <1>1 DEF JoinsIn
    <2>2. JoinsIn(new, q, from, to) =
              JoinsIn(accepted, q, from, to) \cup
              (IF q = p /\ minute \in from .. to THEN {Len(accepted) + 1} ELSE {})
      BY <2>1 DEF JoinsIn
    <2>3. IsFiniteSet(JoinsIn(accepted, q, from, to)) /\ Count(accepted, q, from, to) \in Nat
      BY JoinsFinite
    <2>4. CASE q = p /\ minute \in from .. to
      <3>1. JoinsIn(new, q, from, to) = JoinsIn(accepted, q, from, to) \cup {Len(accepted) + 1}
        BY <2>2, <2>4
      <3>2. Cardinality(JoinsIn(new, q, from, to)) = Cardinality(JoinsIn(accepted, q, from, to)) + 1
        <4> DEFINE S == JoinsIn(accepted, q, from, to)
                   x == Len(accepted) + 1
        <4>1. IsFiniteSet(S) /\ x \notin S /\ JoinsIn(new, q, from, to) = S \cup {x}
          BY <3>1, <2>1, <2>3
        <4> HIDE DEF S, x
        <4>2. Cardinality(S \cup {x}) = Cardinality(S) + 1
          BY <4>1, FS_AddElement
        <4>3. Cardinality(JoinsIn(new, q, from, to)) = Cardinality(S) + 1
          BY <4>1, <4>2
        <4> QED
          BY <4>3 DEF S
      <3> QED
        BY <3>2, <2>4 DEF Count
    <2>5. CASE ~(q = p /\ minute \in from .. to)
      <3>1. JoinsIn(new, q, from, to) = JoinsIn(accepted, q, from, to)
        BY <2>2, <2>5
      <3> QED
        BY <3>1, <2>3, <2>5 DEF Count
    <2> QED
      BY <2>4, <2>5
  <1> QED
    BY <1>1, <1>2 DEF AcceptedNow

----------------------------------------------------------------------------
(* Partners: every step keeps the invariant *)

\* Time passes.
LEMMA MinuteKeeps ==
    ASSUME DelegatedInv, Minute
    PROVE  DelegatedInv'
  <1> USE DEF Minute
  <1>1. minute' \in 0 .. MaxMinute /\ minute' > minute /\ minute \in Nat
    BY DelegatedAssumption DEF DelegatedInv, DelegatedTypeOK
  <1>2. DelegatedTypeOK'
    BY <1>1 DEF DelegatedInv, DelegatedTypeOK
  <1>3. /\ \A i \in 1 .. Len(accepted) : accepted[i].at \in Nat
        /\ \A p \in Partner : rate_limit[p] \in Nat
        /\ Window \in Nat
    BY Shapes DEF DelegatedInv
  <1>4. NoneAhead'
    BY <1>1, <1>3 DEF DelegatedInv, NoneAhead
  <1>5. ASSUME NEW p \in Partner PROVE PartnerKept(p)'
    <2>1. PartnerKept(p) /\ rateState[p] \in [count : Nat, window_start : Nat] \cup {Closed}
      BY DEF DelegatedInv, DelegatedTypeOK
    <2>2. CASE rateState[p] = Closed
      BY <2>1, <2>2 DEF PartnerKept
    <2>3. CASE rateState[p] # Closed
      <3>1. rateState[p].window_start \in Nat
        BY <2>1, <2>3
      <3> QED
        BY <1>1, <2>1, <2>3, <3>1 DEF PartnerKept, WindowKept
    <2> QED
      BY <2>2, <2>3
  <1>6. Bursts'
    BY DEF DelegatedInv, Bursts
  <1> QED
    BY <1>2, <1>4, <1>5, <1>6 DEF DelegatedInv

\* A process without windows has accepted nothing.
LEMMA ForgottenIsKept == Forgotten => DelegatedInv
  <1> SUFFICES ASSUME Forgotten
               PROVE  DelegatedInv
    OBVIOUS
  <1> USE DEF Forgotten
  <1>1. DelegatedTypeOK
    BY DEF DelegatedTypeOK
  <1>2. NoneAhead /\ \A p \in Partner : PartnerKept(p)
    BY DEF NoneAhead, PartnerKept
  <1>3. ASSUME NEW p \in Partner, NEW from \in 0 .. MaxMinute
        PROVE  Count(accepted, p, from, from + Window) <= 2 * rate_limit[p]
    <2>1. JoinsIn(accepted, p, from, from + Window) = {}
      BY DEF JoinsIn
    <2> QED
      BY <2>1, NoJoins, DelegatedAssumption
  <1> QED
    BY <1>1, <1>2, <1>3 DEF DelegatedInv, Bursts

\* A request that is refused stores its window and counts nothing.
LEMMA RefusedKeeps ==
    ASSUME DelegatedInv, NEW p \in Partner,
           rateState' = [rateState EXCEPT ![p] = WindowOf(p)],
           UNCHANGED <<accepted, minute>>
    PROVE  DelegatedInv'
  <1>1. PICK w \in [count : Nat, window_start : Nat] :
            w = WindowOf(p) /\ WindowKept(p, w.window_start, w.count)
    BY WindowOfKept
  <1>2. rateState \in [Partner -> [count : Nat, window_start : Nat] \cup {Closed}]
    BY DEF DelegatedInv, DelegatedTypeOK
  <1>3. rateState' = [rateState EXCEPT ![p] = w]
    BY <1>1
  <1>4. DelegatedTypeOK'
    BY <1>2, <1>3 DEF DelegatedInv, DelegatedTypeOK
  <1>5. ASSUME NEW q \in Partner PROVE PartnerKept(q)'
    <2>1. CASE q = p
      <3>1. rateState'[q] = w /\ w # Closed
        BY <1>2, <1>3, <2>1, OpenWindow
      <3>2. WindowKept(q, w.window_start, w.count)'
        BY <1>1, <2>1 DEF WindowKept
      <3> QED
        BY <3>1, <3>2 DEF PartnerKept, WindowKept
    <2>2. CASE q # p
      <3>1. rateState'[q] = rateState[q]
        BY <1>2, <1>3, <2>2
      <3>2. PartnerKept(q)
        BY DEF DelegatedInv
      <3> QED
        BY <3>1, <3>2 DEF PartnerKept, WindowKept
    <2> QED
      BY <2>1, <2>2
  <1>6. NoneAhead' /\ Bursts'
    BY DEF DelegatedInv, NoneAhead, Bursts
  <1> QED
    BY <1>4, <1>5, <1>6 DEF DelegatedInv

\* An accepted join has room in its window.
LEMMA AcceptedKeeps ==
    ASSUME DelegatedInv, NEW p \in Partner,
           WindowOf(p).count < rate_limit[p],
           NEW w \in [count : Nat, window_start : Nat],
           w.count = WindowOf(p).count + 1, w.window_start = WindowOf(p).window_start,
           rateState' = [rateState EXCEPT ![p] = w],
           NEW new \in Seq(Joins), AcceptedNow(new, p), accepted' = new,
           UNCHANGED minute
    PROVE  DelegatedInv'
  <1>0. /\ minute \in Nat /\ Window \in Nat /\ MaxMinute \in Nat
        /\ minute <= MaxMinute /\ Len(accepted) \in Nat
        /\ \A i \in 1 .. Len(accepted) : accepted[i].at \in Nat
        /\ \A q \in Partner : rate_limit[q] \in Nat
        /\ accepted \in Seq(Joins)
        /\ rateState \in [Partner -> [count : Nat, window_start : Nat] \cup {Closed}]
    BY Shapes DEF DelegatedInv
  <1>1. PICK s \in Nat, c \in Nat :
            /\ w.count = c + 1 /\ w.window_start = s
            /\ WindowKept(p, s, c)
            /\ minute <= s + Window
            /\ c < rate_limit[p]
    BY WindowOfKept
  <1>3. c + 1 <= rate_limit[p]
    BY <1>0, <1>1
  <1>4. /\ Len(accepted) \in Nat
        /\ Len(new) = Len(accepted) + 1
        /\ \A i \in 1 .. Len(accepted) : new[i] = accepted[i]
        /\ new[Len(accepted) + 1].partner = p
        /\ new[Len(accepted) + 1].at = minute
    BY <1>0 DEF AcceptedNow
  <1>5. ASSUME NEW q, NEW from \in Int, NEW to \in Int
        PROVE  /\ Count(accepted, q, from, to) \in Nat
               /\ Count(new, q, from, to) =
                      Count(accepted, q, from, to) + (IF q = p /\ minute \in from .. to THEN 1 ELSE 0)
    BY <1>0, JoinsFinite DEF AcceptedNow
  <1>6. DelegatedTypeOK'
    BY <1>0 DEF DelegatedInv, DelegatedTypeOK, Joins
  <1>7. NoneAhead'
    BY <1>0, <1>4 DEF DelegatedInv, NoneAhead
  <1>8. /\ Count(new, p, s, s + Window) = c + 1
        /\ \A from \in 0 .. MaxMinute :
              Count(new, p, from, s - 1) = Count(accepted, p, from, s - 1)
    BY <1>0, <1>1, <1>5 DEF WindowKept
  <1>9. WindowKept(p, s, c + 1)'
    <2>1. minute' = minute /\ accepted' = new
      OBVIOUS
    <2>2. s <= minute /\ c + 1 <= rate_limit[p] /\ c + 1 = Count(new, p, s, s + Window)
      BY <1>1, <1>3, <1>8 DEF WindowKept
    <2>3. ASSUME NEW i \in 1 .. Len(new), new[i].partner = p
          PROVE  new[i].at <= s + Window
      <3>1. CASE i \in 1 .. Len(accepted)
        BY <1>1, <1>4, <2>3, <3>1 DEF WindowKept
      <3>2. CASE i = Len(accepted) + 1
        BY <1>1, <1>4, <3>2
      <3> QED
        BY <1>4, <3>1, <3>2
    <2>4. \A from \in 0 .. MaxMinute : from + Window >= s =>
              Count(new, p, from, s - 1) <= rate_limit[p]
      BY <1>1, <1>8 DEF WindowKept
    <2> QED
      BY <2>1, <2>2, <2>3, <2>4 DEF WindowKept
  <1>10. ASSUME NEW q \in Partner PROVE PartnerKept(q)'
    <2>1. CASE q = p
      <3>1. rateState'[q] = w /\ w # Closed
        BY <1>0, <2>1, OpenWindow
      <3> QED
        BY <1>1, <1>9, <2>1, <3>1 DEF PartnerKept, WindowKept
    <2>2. CASE q # p
      <3>1. rateState'[q] = rateState[q] /\ PartnerKept(q)
        BY <1>0, <2>2 DEF DelegatedInv
      <3>2. \A i \in 1 .. Len(new) : new[i].partner = q =>
                i \in 1 .. Len(accepted) /\ new[i] = accepted[i]
        BY <1>4, <2>2
      <3>3. CASE rateState[q] = Closed
        BY <3>1, <3>2, <3>3 DEF PartnerKept
      <3>4. CASE rateState[q] # Closed
        <4>1. PICK t \in Nat, n \in Nat :
                  rateState[q] = [count |-> n, window_start |-> t]
          BY <1>0, <3>4
        <4>2. WindowKept(q, t, n)
          BY <3>1, <3>4, <4>1 DEF PartnerKept
        <4>3. \A from, to \in Int : Count(new, q, from, to) = Count(accepted, q, from, to)
          BY <1>5, <2>2
        <4>4. WindowKept(q, t, n)'
          BY <1>0, <4>2, <4>3, <3>2 DEF WindowKept
        <4> QED
          BY <3>1, <3>4, <4>1, <4>4 DEF PartnerKept, WindowKept
      <3> QED
        BY <3>3, <3>4
    <2> QED
      BY <2>1, <2>2
  <1>11. ASSUME NEW q \in Partner, NEW from \in 0 .. MaxMinute
         PROVE  Count(new, q, from, from + Window) <= 2 * rate_limit[q]
    <2>1. Count(accepted, q, from, from + Window) <= 2 * rate_limit[q]
      BY DEF DelegatedInv, Bursts
    <2>2. CASE ~(q = p /\ minute \in from .. (from + Window))
      BY <1>0, <1>5, <2>1, <2>2
    <2>3. CASE q = p /\ minute \in from .. (from + Window)
      <3>1. JoinsIn(accepted, p, from, from + Window)
                \subseteq JoinsIn(accepted, p, from, s - 1) \cup JoinsIn(accepted, p, s, s + Window)
        <4> SUFFICES ASSUME NEW i \in JoinsIn(accepted, p, from, from + Window)
                     PROVE  i \in JoinsIn(accepted, p, from, s - 1) \cup JoinsIn(accepted, p, s, s + Window)
          OBVIOUS
        <4>1. /\ i \in 1 .. Len(accepted) /\ accepted[i].partner = p
              /\ accepted[i].at >= from /\ accepted[i].at \in Nat
          BY <1>0 DEF JoinsIn
        <4>2. accepted[i].at <= s + Window
          BY <4>1, <1>1 DEF WindowKept
        <4>3. accepted[i].at \in from .. (s - 1) \/ accepted[i].at \in s .. (s + Window)
          BY <4>1, <4>2, <1>0
        <4> QED
          BY <4>1, <4>3 DEF JoinsIn
      <3>2. Count(accepted, p, from, from + Window)
                <= Count(accepted, p, from, s - 1) + Count(accepted, p, s, s + Window)
        BY <3>1, <1>0, JoinsOfTwo
      <3>3. Count(accepted, p, from, s - 1) <= rate_limit[p] /\ Count(accepted, p, s, s + Window) = c
        BY <1>0, <1>1, <2>3 DEF WindowKept
      <3>4. /\ Count(new, p, from, from + Window) = Count(accepted, p, from, from + Window) + 1
            /\ Count(accepted, p, from, from + Window) \in Nat
            /\ Count(accepted, p, from, s - 1) \in Nat
        BY <1>0, <1>5, <2>3
      <3>5. rate_limit[p] \in Nat
        BY <1>0
      <3>6. Count(new, p, from, from + Window) <= 2 * rate_limit[p]
        BY <1>3, <3>2, <3>3, <3>4, <3>5
      <3> QED
        BY <2>3, <3>6
    <2> QED
      BY <2>2, <2>3
  <1> QED
    BY <1>6, <1>7, <1>10, <1>11 DEF DelegatedInv, Bursts

----------------------------------------------------------------------------
(* Partners: the theorems *)

\* The invariant holds throughout, for configurations that are valid.
THEOREM DelegatedInvariance == DelegatedSpec => []DelegatedInv
  <1>f. Forgotten => DelegatedInv
    BY ForgottenIsKept
  <1>g. Forgotten' => DelegatedInv'
    BY <1>f, PTL
  <1>1. DelegatedInit => DelegatedInv
    BY <1>f, DelegatedAssumption DEF DelegatedInit, Forgotten
  <1>2. DelegatedInv /\ [DelegatedNext]_delegatedVars => DelegatedInv'
    <2> SUFFICES ASSUME DelegatedInv, [DelegatedNext]_delegatedVars
                 PROVE  DelegatedInv'
      OBVIOUS
    <2>1. ASSUME NEW p \in Partner, NEW id \in Partner, NEW t, NEW cl \in Claims, NEW at,
                 Request(p, id, t, cl, at)
          PROVE  DelegatedInv'
      <3>1. CASE WindowOf(p).count < rate_limit[p] /\ Fresh(t) /\ Vouched(p, cl) /\ Attested(cl, at)
        <4> DEFINE w == [WindowOf(p) EXCEPT !.count = @ + 1]
                   join == [partner |-> p, at |-> minute, claims |-> cl]
                   new == Append(accepted, join)
        <4>1. rateState' = [rateState EXCEPT ![p] = w] /\ accepted' = new /\ UNCHANGED minute
          BY <2>1, <3>1 DEF Request
        <4>2. WindowOf(p) \in [count : Nat, window_start : Nat]
          BY WindowOfKept
        <4>3. /\ w \in [count : Nat, window_start : Nat]
              /\ w.count = WindowOf(p).count + 1
              /\ w.window_start = WindowOf(p).window_start
          BY <4>2, OneMoreCounted
        <4>4. accepted \in Seq(Joins) /\ minute \in Nat
          BY Shapes DEF DelegatedInv
        <4>5. join \in Joins /\ join.partner = p /\ join.at = minute
          BY <4>4 DEF Joins
        <4>6. new \in Seq(Joins) /\ AcceptedNow(new, p)
          <5> HIDE DEF join
          <5> QED
            BY <4>4, <4>5, OneMoreListed
        <4> HIDE DEF w, new
        <4> QED
          BY <3>1, <4>1, <4>3, <4>6, AcceptedKeeps
      <3>2. CASE ~(WindowOf(p).count < rate_limit[p] /\ Fresh(t) /\ Vouched(p, cl) /\ Attested(cl, at))
        <4>1. /\ rateState' = [rateState EXCEPT ![p] = WindowOf(p)]
              /\ UNCHANGED <<accepted, minute>>
          BY <2>1, <3>2 DEF Request
        <4> QED
          BY <4>1, RefusedKeeps
      <3> QED
        BY <3>1, <3>2
    <2>2. CASE Minute
      BY <2>2, MinuteKeeps
    <2>3. CASE Restart
      <3>1. Forgotten'
        BY <2>3 DEF Restart, Forgotten, DelegatedInv, DelegatedTypeOK
      <3> QED
        BY <3>1, <1>g
    <2>4. CASE UNCHANGED delegatedVars
      BY <2>4 DEF delegatedVars, DelegatedInv, DelegatedTypeOK, NoneAhead, PartnerKept, WindowKept, Bursts
    <2> QED
      BY <2>1, <2>2, <2>3, <2>4 DEF DelegatedNext
  <1> QED
    BY <1>1, <1>2, PTL DEF DelegatedSpec

\* The clock, the windows and the joins accepted have their types.
THEOREM DelegatedTypeCorrect == DelegatedSpec => []DelegatedTypeOK
  <1>1. DelegatedInv => DelegatedTypeOK
    BY DEF DelegatedInv
  <1> QED
    BY <1>1, DelegatedInvariance, PTL

\* validateDelegatedVerification: no partner gets more than twice its limit of
\* joins accepted in any time as long as a window.
THEOREM BurstsAreBounded == DelegatedSpec => []BurstBounded
  <1>1. DelegatedInv => BurstBounded
    BY CountIsAccepted DEF DelegatedInv, Bursts, BurstBounded
  <1> QED
    BY <1>1, DelegatedInvariance, PTL

\* validateDelegatedVerification: a partner is refused for its rate only when its
\* limit of joins was accepted within the length of a window.
THEOREM RefusalsAreEarned == DelegatedSpec => []LimitedOnlyAfterLimit
  <1>1. DelegatedInv => LimitedOnlyAfterLimit
    <2> SUFFICES ASSUME DelegatedInv, NEW p \in Partner, WindowOf(p).count >= rate_limit[p]
                 PROVE  Count(accepted, p, minute - Window, minute) >= rate_limit[p]
      BY CountIsAccepted DEF LimitedOnlyAfterLimit
    <2>0. /\ minute \in Nat /\ Window \in Nat /\ rate_limit[p] \in Nat
          /\ accepted \in Seq(Joins)
          /\ \A i \in 1 .. Len(accepted) : accepted[i].at \in Nat /\ accepted[i].at <= minute
      BY Shapes DEF DelegatedInv, NoneAhead
    <2>1. PICK s \in Nat, c \in Nat :
              /\ WindowOf(p) = [count |-> c, window_start |-> s]
              /\ WindowKept(p, s, c)
              /\ minute <= s + Window
      BY WindowOfKept
    <2>2. JoinsIn(accepted, p, s, s + Window) \subseteq JoinsIn(accepted, p, minute - Window, minute)
      BY <2>0, <2>1 DEF JoinsIn
    <2>3. c <= Count(accepted, p, minute - Window, minute)
      BY <2>0, <2>1, <2>2, MoreJoins DEF WindowKept
    <2>4. Count(accepted, p, minute - Window, minute) \in Nat
      BY <2>0, JoinsFinite
    <2> QED
      BY <2>0, <2>1, <2>3, <2>4
  <1> QED
    BY <1>1, DelegatedInvariance, PTL

----------------------------------------------------------------------------
(* The composition *)

\* MCRegistries: whichever part moves, every part behaves as its own
\* specification says, so the theorems about the parts hold in the composition.
THEOREM PartsBehave == MCSpec => Spec /\ NetworksSpec /\ DelegatedSpec
<1> DEFINE MCNext == LinkersMove \/ NetworksMove \/ DelegatedMove
           mcVars == <<part, vars, networkVars, delegatedVars>>
<1>1. MCInit => Init /\ NetworksInit /\ DelegatedInit
  BY DEF MCInit
<1>2. [MCNext]_mcVars => [Next]_vars /\ [NetworksNext]_networkVars /\ [DelegatedNext]_delegatedVars
  BY DEF LinkersMove, NetworksMove, DelegatedMove
<1> QED BY <1>1, <1>2, PTL DEF MCSpec, Spec, NetworksSpec, DelegatedSpec

\* MCRegistries: every variable of every part keeps its type.
THEOREM PartsTypeCorrect == MCSpec => []PartsTypeOK
<1>1. TypeOK /\ NetworksTypeOK /\ DelegatedTypeOK => PartsTypeOK
  BY DEF PartsTypeOK
<1> QED BY <1>1, PartsBehave, TypeCorrect, NetworksTypeCorrect, DelegatedTypeCorrect, PTL

=============================================================================
