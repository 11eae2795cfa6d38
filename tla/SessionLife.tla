----------------------------- MODULE SessionLife -----------------------------
(***************************************************************************)
(* What the join sessions promise, without requests, stores or servers: a  *)
(* session is created, its agent passes checks one by one, it becomes      *)
(* ready once they admit the agent, it may be rejected, and it disappears. *)
(* A decided session is never pending again and a removed one never comes  *)
(* back.  JoinService implements this specification, and so does what      *)
(* JoiningFlow takes the service for.                                      *)
(***************************************************************************)
CONSTANTS
    Sid,       \* session ids
    Method     \* the checks an agent can pass

VARIABLES
    asked,     \* sets of checks, one of each of which admits an agent, chosen once
    status,    \* "unborn", "pending", "ready", "rejected" or "gone"
    passed     \* the checks really passed, by session

lifeVars == <<asked, status, passed>>

Admitted(p) == \A e \in asked : e \cap p # {}

Init ==
    /\ asked \subseteq SUBSET Method
    /\ status = [s \in Sid |-> "unborn"]
    /\ passed = [s \in Sid |-> {}]

Exists(s) == status[s] \in {"pending", "ready", "rejected"}

\* A join creates a session for what its agent has passed already.
Create(s) ==
    /\ status[s] = "unborn"
    /\ \E new \in {"pending", "ready"} :
          /\ status' = [status EXCEPT ![s] = new]
          /\ \E p \in SUBSET Method :
                /\ new = "ready" => Admitted(p)
                /\ passed' = [passed EXCEPT ![s] = p]

\* A check may still be passed when the session is decided, or removed, by
\* then: the answer was on its way.
Pass(s, m) ==
    /\ status[s] # "unborn"
    /\ passed' = [passed EXCEPT ![s] = @ \cup {m}]
    /\ UNCHANGED status

Admit(s) ==
    /\ Exists(s)
    /\ Admitted(passed[s])
    /\ status' = [status EXCEPT ![s] = "ready"]
    /\ UNCHANGED passed

\* The check that was missing admits the agent at once.
PassAndAdmit(s, m) ==
    /\ Exists(s)
    /\ Admitted(passed[s] \cup {m})
    /\ status' = [status EXCEPT ![s] = "ready"]
    /\ passed' = [passed EXCEPT ![s] = @ \cup {m}]

Reject(s) ==
    /\ Exists(s)
    /\ status' = [status EXCEPT ![s] = "rejected"]
    /\ UNCHANGED passed

\* Sessions expire and are replaced one by one, or lost in a restart together;
\* what a session had passed may be forgotten with it.
Drop(S) ==
    /\ \A s \in S : Exists(s)
    /\ status' = [s \in Sid |-> IF s \in S THEN "gone" ELSE status[s]]
    /\ \A s \in Sid : passed'[s] \in {passed[s], IF s \in S THEN {} ELSE passed[s]}

Next ==
    /\ \/ \E s \in Sid : Create(s) \/ Admit(s) \/ Reject(s)
       \/ \E s \in Sid, m \in Method : Pass(s, m) \/ PassAndAdmit(s, m)
       \/ \E S \in SUBSET Sid : Drop(S)
    /\ UNCHANGED asked

Spec == Init /\ [][Next]_lifeVars
=============================================================================
