---------------------------- MODULE MCRegistries ----------------------------
(***************************************************************************)
(* An instance for TLC of the parts that keep what admins, linkers and     *)
(* partners register: LinkerRegistration, NetworkRegistration and          *)
(* DelegatedVerification.  They share no state, so a behaviour moves one   *)
(* of them and leaves the others where they start.                         *)
(***************************************************************************)
EXTENDS LinkerRegistration, NetworkRegistration, DelegatedVerification, TLC

CONSTANTS u1, u2

VARIABLE part   \* the part that moves

Symmetry == Permutations(Call) \cup Permutations(Linker) \cup Permutations(Happ)

----------------------------------------------------------------------------
(* The values of the constants *)

MCTraffics ==
    {[operations |-> {"heartbeat", "deregister", "deleteInvite", "deleteLinker"},
      urls |-> {u1}, until |-> 3, overlaps |-> 1],
     [operations |-> {"heartbeat", "patchLinker"}, urls |-> {u1}, until |-> 2, overlaps |-> 1],
     [operations |-> {"heartbeat", "notify"}, urls |-> {u1, u2}, until |-> 2, overlaps |-> 0]}

MCOffer == {[capabilities |-> {"dht_read"}, max_uses |-> 2, expires_at |-> 1]}

Configuration(kv, al, ag, nw, hs) ==
    [kv |-> kv, allow_list |-> al, agent_registration |-> ag,
     network_registration |-> nw, hashes |-> hs]

MCConfigs ==
    {Configuration(TRUE, FALSE, FALSE, TRUE, {"h1", "h3"}),
     Configuration(TRUE, TRUE, TRUE, FALSE, {}),
     Configuration(FALSE, TRUE, TRUE, TRUE, {"h1", "h3"}),
     Configuration(FALSE, FALSE, FALSE, TRUE, {"h1", "h2"})}

MCAllowed == [p \in Partner |-> Claim]
MCRateLimit == [p \in Partner |-> 2]

----------------------------------------------------------------------------
(* The behaviours of each part *)

MCInit ==
    /\ part \in {"linkers", "networks", "delegated"}
    /\ Init /\ NetworksInit /\ DelegatedInit
    /\ part # "linkers" => traffic = CHOOSE t \in Traffics : TRUE
    /\ part # "networks" => config = CHOOSE f \in MCConfigs : TRUE

LinkersMove == part = "linkers" /\ Next /\ UNCHANGED <<part, networkVars, delegatedVars>>
NetworksMove == part = "networks" /\ NetworksNext /\ UNCHANGED <<part, vars, delegatedVars>>
DelegatedMove == part = "delegated" /\ DelegatedNext /\ UNCHANGED <<part, vars, networkVars>>

MCSpec == MCInit /\ [][LinkersMove \/ NetworksMove \/ DelegatedMove]_<<part, vars, networkVars, delegatedVars>>

\* Every variable keeps its type.
PartsTypeOK == TypeOK /\ NetworksTypeOK /\ DelegatedTypeOK

=============================================================================
