------------------------- MODULE MCSessionsAndFlow -------------------------
(***************************************************************************)
(* An instance for TLC of what a client and a session go through beside    *)
(* the handlers of JoinService: the emailed link (LinkChallenge), a session*)
(* in Workers KV (KvSessions) and the app's joining flow (JoiningFlow).    *)
(* They share no state, so a behaviour moves one of them and leaves the    *)
(* others where they start.  Ids of the same kind stand in for each other, *)
(* which keeps the symmetry small.                                         *)
(***************************************************************************)
EXTENDS LinkChallenge, KvSessions, JoiningFlow, TLC

CONSTANT Parts  \* the parts of which one moves

VARIABLE part   \* the part that moves

Symmetry == Permutations(LinkCall) \cup Permutations(Verification) \cup Permutations(Token)

----------------------------------------------------------------------------
(* The values of the constants *)

MCReadInterval == [s \in {"in_progress", "in_review", "declined"} |-> 1]

Setup(es, p, s) == [entries |-> es, prefilled |-> p, signs |-> s]

MCSetups ==
    {Setup({{"agent_allow_list", "email_code", Link}}, {}, TRUE),
     Setup({{"invite_code"}, {Approval}}, {"invite_code", Approval}, FALSE),
     Setup({{"open"}}, {}, TRUE),
     Setup({{"open", "email_code"}, {Link}}, {}, TRUE),
     Setup({{"email_code"}, {Link}}, {}, FALSE)}

MCNoChallenge == {{}, {"agent_allow_list", Approval}}

----------------------------------------------------------------------------
(* The behaviours of each part *)

MCInit ==
    /\ part \in Parts
    /\ Init /\ KvInit /\ FlowInit
    /\ moves = IF \E d \in Verification : verif[d] # NoDecision THEN MaxMoves - 1 ELSE 0
    /\ part # "link" => moves = 0 /\ store = CHOOSE s \in Stores : TRUE
    /\ part # "kv" => links
    /\ part # "flow" => setup = CHOOSE s \in MCSetups : TRUE

LinkMoves == part = "link" /\ Next /\ UNCHANGED <<part, kvVars, flowVars>>
KvMoves == part = "kv" /\ KvNext /\ UNCHANGED <<part, linkVars, flowVars>>
FlowMoves == part = "flow" /\ FlowNext /\ UNCHANGED <<part, linkVars, kvVars>>

MCSpec == MCInit /\ [][LinkMoves \/ KvMoves \/ FlowMoves]_<<part, linkVars, kvVars, flowVars>>

\* Every variable keeps its type.
PartsTypeOK == TypeOK /\ KvTypeOK /\ FlowTypeOK

=============================================================================
