----------------------- MODULE DelegatedVerification -----------------------
(***************************************************************************)
(* validateDelegatedVerification: a partner vouches for the claims of a    *)
(* join, which is then ready at once.  The checks run in one piece; what   *)
(* lasts between them is the partner's rate window, in the memory of the   *)
(* process.                                                                *)
(*                                                                         *)
(* Abstracted: an API key is the partner it belongs to; a claim's value is *)
(* one of a few, one of them not an email address.                         *)
(***************************************************************************)
EXTENDS Integers, Sequences, FiniteSets

CONSTANTS
    Partner,
    Claim,        \* names of claims, "email" among them
    Value,        \* values of claims
    Address,      \* values of the form of an email address
    allowed_claims, rate_limit, \* of each partner
    Window,       \* rate_limit_window_minutes
    MaxAge,       \* max_verification_age_hours
    Ahead,        \* the five minutes verified_at may lie in the future
    MaxMinute,    \* bound: the clock stops here
    MaxAccepted   \* bound: joins a behaviour looks at

\* What a configuration is.
ASSUME DelegatedAssumption ==
    /\ "email" \in Claim /\ Address \subseteq Value
    /\ allowed_claims \in [Partner -> SUBSET Claim]
    /\ rate_limit \in [Partner -> Nat \ {0}]
    /\ Window \in Nat \ {0}
    /\ {MaxAge, Ahead, MaxMinute, MaxAccepted} \subseteq Nat

Missing == "missing"
Claims == [Claim -> Value \cup {Missing}]

Closed == [open |-> FALSE]

VARIABLES
    minute,     \* the clock
    rateState,  \* rateLimitState: the window of each partner
    accepted    \* ghost: the joins accepted since the process started

delegatedVars == <<minute, rateState, accepted>>

DelegatedTypeOK ==
    /\ minute \in 0 .. MaxMinute
    /\ rateState \in [Partner -> [count : Nat, window_start : Nat] \cup {Closed}]
    /\ accepted \in Seq([partner : Partner, at : Nat, claims : Claims])

DelegatedInit ==
    /\ minute = 0
    /\ rateState = [p \in Partner |-> Closed]
    /\ accepted = <<>>

\* Mutant: the window is opened anew when it is as old as it may be.
WindowEarly(p) ==
    IF rateState[p] = Closed \/ minute - rateState[p].window_start >= Window - 1
    THEN [count |-> 0, window_start |-> minute]
    ELSE rateState[p]

\* The window a request counts in.
WindowOf(p) ==
    IF rateState[p] = Closed \/ minute - rateState[p].window_start > Window
    THEN [count |-> 0, window_start |-> minute]
    ELSE rateState[p]

Fresh(t) == minute - t <= MaxAge /\ minute - t >= -Ahead

\* requiredClaims of the join handler is the email.
Vouched(p, cl) == cl["email"] \in Address /\ "email" \in allowed_claims[p]

\* The claims are those attested: no more, no less, no other.
Attested(cl, attested) == cl = attested

\* Mutant: every request counts.
RequestCounted(p, id, t, cl, attested) ==
    LET w == WindowOf(p) IN
    /\ id = p
    /\ w.count < rate_limit[p]
    /\ rateState' = [rateState EXCEPT ![p] = [w EXCEPT !.count = @ + 1]]
    /\ UNCHANGED <<minute, accepted>>

\* A request with the key of partner p, which names partner id.
Request(p, id, t, cl, attested) ==
    LET w == WindowOf(p) IN
    /\ id = p
    /\ IF /\ w.count < rate_limit[p]
          /\ Fresh(t) /\ Vouched(p, cl) /\ Attested(cl, attested)
       THEN /\ Len(accepted) < MaxAccepted
            /\ rateState' = [rateState EXCEPT ![p] = [w EXCEPT !.count = @ + 1]]
            /\ accepted' = Append(accepted,
                   [partner |-> p, at |-> minute, claims |-> cl])
       ELSE /\ rateState' = [rateState EXCEPT ![p] = w]
            /\ UNCHANGED accepted
    /\ UNCHANGED minute

Minute ==
    /\ minute < MaxMinute
    /\ minute' = minute + 1
    /\ UNCHANGED <<rateState, accepted>>

\* The windows are in memory: a restart forgets them.
Restart ==
    /\ rateState' = [p \in Partner |-> Closed]
    /\ accepted' = <<>>
    /\ UNCHANGED minute

DelegatedNext ==
    \/ \E p, id \in Partner, t \in (0 - MaxAge - 1) .. MaxMinute, cl, at \in Claims :
           Request(p, id, t, cl, at)
    \/ Minute
    \/ Restart

DelegatedSpec == DelegatedInit /\ [][DelegatedNext]_delegatedVars

----------------------------------------------------------------------------
(* Properties *)

AcceptedIn(p, from, to) ==
    Cardinality({i \in 1 .. Len(accepted) :
        accepted[i].partner = p /\ accepted[i].at \in from .. to})

\* Two bursts meet at the edge of a window at worst: no partner gets more than
\* twice its limit of joins accepted in any time as long as a window.
BurstBounded ==
    \A p \in Partner, from \in 0 .. MaxMinute :
        AcceptedIn(p, from, from + Window) <= 2 * rate_limit[p]

\* A partner is refused for its rate only if that many of its joins were
\* accepted within a window's length: requests refused otherwise cost nothing.
LimitedOnlyAfterLimit ==
    \A p \in Partner : WindowOf(p).count >= rate_limit[p] =>
        AcceptedIn(p, minute - Window, minute) >= rate_limit[p]

=============================================================================
