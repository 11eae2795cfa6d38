------------------------- MODULE LinkerRegistration -------------------------
(***************************************************************************)
(* The pool of linkers: heartbeats, deregistrations, the admin's invites   *)
(* and changes, and a join that authorizes its agent on every linker of    *)
(* the pool.  Invites and linkers are entries of a KV store without        *)
(* transactions: a handler reads an entry, waits, and writes it back, and  *)
(* other handlers act in between.                                          *)
(*                                                                         *)
(* Abstracted: a request that is refused (by its signature, the admin's    *)
(* secret, its timestamp or a check) changes nothing and is left out;      *)
(* a heartbeat may carry any timestamp within the tolerance, whenever it   *)
(* arrives, so delayed, reordered and repeated ones are all there.         *)
(* KV reads see the last write, which Cloudflare does not promise.         *)
(***************************************************************************)
EXTENDS Integers, Sequences, FiniteSets

CONSTANTS
    Linker,      \* pubkeys
    Token,       \* invite tokens
    Url, Secret, Capability,
    Offer,       \* the terms an invite is created with
    StaticUrl,   \* URLs of the static linker_registrations
    ConfigCapabilities, \* config.linker_auth.capabilities
    Call,        \* the calls that may be in flight together
    Traffics,    \* bound: operations, URLs, times and overlaps of a behaviour
    Ttl,         \* linker_auth.ttl_seconds
    MinTtl,      \* the 60 seconds an admin change leaves at least
    Tolerance,   \* timestamp_tolerance_seconds
    Latency,     \* how long a call may take
    MaxTime      \* bound: the clock stops here at the latest

Operation == {"heartbeat", "deregister", "deleteInvite", "patchLinker",
              "deleteLinker", "notify"}

Term == [capabilities : SUBSET Capability, max_uses : Nat, expires_at : Nat]

ASSUME LinkerAssumption ==
    /\ Traffics \subseteq [operations : SUBSET Operation, urls : SUBSET Url,
                           until : 0 .. MaxTime, overlaps : Nat]
    /\ Offer \subseteq Term
    /\ StaticUrl \subseteq Url
    /\ ConfigCapabilities \subseteq Capability
    /\ {Ttl, MinTtl} \subseteq Nat \ {0}
    /\ {Tolerance, Latency, MaxTime} \subseteq Nat

None == [absent |-> TRUE]
Unissued == [issued |-> FALSE]

\* expires is the end of the KV entry's expirationTtl.
RegisteredLinker ==
    [invite_token : Token, capabilities : SUBSET Capability, secret : Secret,
     url : Url, last_heartbeat : Nat, expires : Nat]

LinkerInvite == [term : Offer, used_by : Seq(Linker)]

Heartbeat == [pubkey : Linker, token : Token \cup {None}, url : Url,
              secret : Secret \cup {None}, rotate : BOOLEAN, timestamp : Nat]

VARIABLES
    traffic,   \* what happens in this behaviour, chosen once
    now,       \* the clock of the service
    invites,   \* linker_invite:<token>
    linkers,   \* registered_linker:<pubkey>
    call,      \* the calls in flight, with what they have read
    granted,   \* the capabilities each linker was last told to give an agent
    disturbed  \* ghost: entries on which calls overlapped or stopped halfway

vars == <<traffic, now, invites, linkers, call, granted, disturbed>>

Idle == [op |-> "idle"]

CallState ==
    {Idle}
      \cup [op : {"invite"}, heartbeat : Heartbeat, at : Nat]
      \cup [op : {"register", "count"}, heartbeat : Heartbeat,
            invite : LinkerInvite, at : Nat]
      \cup [op : {"renew", "patch"}, pubkey : Linker, to : RegisteredLinker, at : Nat]
      \cup [op : {"delete"}, pubkey : Linker, at : Nat]
      \cup [op : {"revoke"}, token : Token, at : Nat]
      \cup [op : {"notify"}, names : SUBSET Linker,
            read : SUBSET (Linker \X Url), at : Nat]

TypeOK ==
    /\ traffic \in Traffics
    /\ now \in Nat
    /\ invites \in [Token -> LinkerInvite \cup {None, Unissued}]
    /\ linkers \in [Linker -> RegisteredLinker \cup {None}]
    /\ call \in [Call -> CallState]
    /\ granted \in [Linker -> SUBSET Capability]
    /\ disturbed \subseteq Linker \cup Token

Init ==
    /\ traffic \in Traffics
    /\ now = 0
    /\ invites = [t \in Token |-> Unissued]
    /\ linkers = [k \in Linker |-> None]
    /\ call = [c \in Call |-> Idle]
    /\ granted = [k \in Linker |-> {}]
    /\ disturbed = {}

----------------------------------------------------------------------------
(* Helpers *)

\* The entries a call writes.
Touches(s) ==
    CASE s.op \in {"invite", "register", "count"} ->
             {s.heartbeat.pubkey, s.heartbeat.token}
      [] s.op \in {"renew", "patch", "delete"} -> {s.pubkey}
      [] s.op = "revoke" -> {s.token}
      [] OTHER -> {}

InFlight == UNION {Touches(call[c]) : c \in Call}

\* A call arrives and has made its first read.
Begin(c, operation, s) ==
    /\ call[c] = Idle /\ operation \in traffic.operations
    /\ call' = [call EXCEPT ![c] = s]
    /\ disturbed' = disturbed \cup (Touches(s) \cap InFlight)
    /\ Cardinality(disturbed') <= traffic.overlaps
    /\ UNCHANGED <<traffic, now, invites, linkers, granted>>

End(c) == call' = [call EXCEPT ![c] = Idle]

WithinTolerance(ts) == ts \in (now - Tolerance) .. (now + Tolerance)

\* Mutant: a timestamp is not compared with the last one.
InOrderAlways(k, ts) == WithinTolerance(ts)

\* validateTimestamp with the stored last_heartbeat.
InOrder(k, ts) ==
    WithinTolerance(ts) /\ (linkers[k] # None => ts > linkers[k].last_heartbeat)

\* Mutant: an invite is used once more than it allows.
UsableOnceMore(i) ==
    i \notin {None, Unissued} /\ i.term.expires_at >= now
      /\ Len(i.used_by) <= i.term.max_uses

Usable(i) ==
    i \notin {None, Unissued} /\ i.term.expires_at >= now
      /\ Len(i.used_by) < i.term.max_uses

\* Mutant: the time since the last heartbeat is left in milliseconds.
PatchTtlMillis(l) ==
    LET rest == Ttl - 1000 * (now - l.last_heartbeat)
    IN  IF rest < MinTtl THEN MinTtl ELSE rest

\* What an admin change leaves of a registration's time.
PatchTtl(l) ==
    LET rest == Ttl - (now - l.last_heartbeat)
    IN  IF rest < MinTtl THEN MinTtl ELSE rest

Put(k, l) == linkers' = [linkers EXCEPT ![k] = l]

----------------------------------------------------------------------------
(* The linkers: POST /v1/linkers/heartbeat, DELETE /v1/linkers/:pubkey *)

\* Mutant: a rotation takes the secret that is sent, even when none is.
RenewalRotated(k, h) ==
    [linkers[k] EXCEPT !.url = h.url, !.last_heartbeat = h.timestamp,
        !.secret = IF h.rotate THEN h.secret ELSE @]

\* The heartbeat of a registered linker, changed on the copy that was read.
Renewal(k, h) ==
    [linkers[k] EXCEPT !.url = h.url, !.last_heartbeat = h.timestamp,
        !.secret = IF h.secret # None /\ h.rotate THEN h.secret ELSE @]

\* Up to the first wait after the registration was read.  What the branch taken
\* does not look at is fixed: a registered linker's token, a new one's rotation.
ReceiveHeartbeat(c) ==
    /\ call[c] = Idle
    /\ \E h \in [pubkey : Linker, token : Token \cup {None}, url : traffic.urls,
              secret : Secret \cup {None}, rotate : BOOLEAN,
              timestamp : 0 .. MaxTime] :
        /\ InOrder(h.pubkey, h.timestamp)
        /\ IF linkers[h.pubkey] = None
           THEN /\ h.token # None /\ h.secret # None /\ ~h.rotate
                /\ Begin(c, "heartbeat", [op |-> "invite", heartbeat |-> h, at |-> now])
           ELSE /\ h.token = None
                /\ Begin(c, "heartbeat", [op |-> "renew", pubkey |-> h.pubkey,
                             to |-> Renewal(h.pubkey, h), at |-> now])

\* store.getInvite and its checks.
ReadInvite(c) ==
    /\ call[c].op = "invite"
    /\ LET i == invites[call[c].heartbeat.token] IN
        IF Usable(i)
        THEN call' = [call EXCEPT ![c] =
                 [op |-> "register", heartbeat |-> call[c].heartbeat,
                  invite |-> i, at |-> call[c].at]]
        ELSE End(c)
    /\ UNCHANGED <<traffic, now, invites, linkers, granted, disturbed>>

Register(c) ==
    /\ call[c].op = "register"
    /\ LET h == call[c].heartbeat IN
        Put(h.pubkey, [invite_token |-> h.token,
                       capabilities |-> call[c].invite.term.capabilities,
                       secret |-> h.secret, url |-> h.url,
                       last_heartbeat |-> h.timestamp, expires |-> now + Ttl])
    /\ call' = [call EXCEPT ![c].op = "count"]
    /\ UNCHANGED <<traffic, now, invites, granted, disturbed>>

\* Mutant: the use is not written to the invite.
CountUseNot(c) ==
    /\ call[c].op = "count"
    /\ End(c)
    /\ UNCHANGED <<traffic, now, invites, linkers, granted, disturbed>>

\* used_by of the copy that was read, written back.
CountUse(c) ==
    /\ call[c].op = "count"
    /\ LET h == call[c].heartbeat IN
        invites' = [invites EXCEPT ![h.token] =
            [call[c].invite EXCEPT !.used_by = Append(@, h.pubkey)]]
    /\ End(c)
    /\ UNCHANGED <<traffic, now, linkers, granted, disturbed>>

Renew(c) ==
    /\ call[c].op = "renew"
    /\ Put(call[c].pubkey, [call[c].to EXCEPT !.expires = now + Ttl])
    /\ End(c)
    /\ UNCHANGED <<traffic, now, invites, granted, disturbed>>

Deregister(c) ==
    \E k \in Linker, ts \in 0 .. MaxTime :
        /\ linkers[k] # None
        /\ InOrder(k, ts)
        /\ Begin(c, "deregister", [op |-> "delete", pubkey |-> k, at |-> now])

----------------------------------------------------------------------------
(* The admin: /v1/admin/linker-invites, /v1/admin/linkers *)

CreateInvite ==
    /\ \E t \in Token, o \in Offer :
        /\ invites[t] = Unissued
        /\ invites' = [invites EXCEPT ![t] = [term |-> o, used_by |-> <<>>]]
    /\ UNCHANGED <<traffic, now, linkers, call, granted, disturbed>>

DeleteInvite(c) ==
    \E t \in Token :
        /\ invites[t] \notin {None, Unissued}
        /\ Begin(c, "deleteInvite", [op |-> "revoke", token |-> t, at |-> now])

Revoke(c) ==
    /\ call[c].op = "revoke"
    /\ invites' = [invites EXCEPT ![call[c].token] = None]
    /\ End(c)
    /\ UNCHANGED <<traffic, now, linkers, granted, disturbed>>

PatchLinker(c) ==
    \E k \in Linker, cs \in SUBSET Capability :
        /\ linkers[k] # None
        /\ Begin(c, "patchLinker", [op |-> "patch", pubkey |-> k, at |-> now,
                     to |-> [linkers[k] EXCEPT !.capabilities = cs]])

Patch(c) ==
    /\ call[c].op = "patch"
    /\ Put(call[c].pubkey, [call[c].to EXCEPT !.expires = now + PatchTtl(call[c].to)])
    /\ End(c)
    /\ UNCHANGED <<traffic, now, invites, granted, disturbed>>

DeleteLinker(c) ==
    \E k \in Linker :
        /\ linkers[k] # None
        /\ Begin(c, "deleteLinker", [op |-> "delete", pubkey |-> k, at |-> now])

Delete(c) ==
    /\ call[c].op = "delete"
    /\ Put(call[c].pubkey, None)
    /\ End(c)
    /\ UNCHANGED <<traffic, now, invites, granted, disturbed>>

----------------------------------------------------------------------------
(* A join that becomes ready: notifyLinkers over the KvUrlProvider *)

\* Bound: one join at a time; they write nothing that another one reads.
ListLinkers(c) ==
    /\ \A d \in Call : call[d].op # "notify"
    /\ Begin(c, "notify", [op |-> "notify", at |-> now, read |-> {},
                           names |-> {k \in Linker : linkers[k] # None}])

GetListed(c) ==
    /\ call[c].op = "notify"
    /\ \E k \in call[c].names :
        call' = [call EXCEPT ![c].names = @ \ {k},
                    ![c].read = IF linkers[k] = None THEN @
                                ELSE @ \cup {<<k, linkers[k].url>>}]
    /\ UNCHANGED <<traffic, now, invites, linkers, granted, disturbed>>

\* Static entries win where the URL is the same.
Merged(read) == {e \in read : e[2] \notin StaticUrl}

\* authorizeAgent at each of these linkers: what it is told replaces what it knew.
Grant(ks, capabilities) ==
    granted' = [k \in Linker |-> IF k \in ks THEN capabilities ELSE granted[k]]

\* Each linker answers or fails by itself.
Authorize(c) ==
    /\ call[c].op = "notify" /\ call[c].names = {}
    /\ \E answered \in SUBSET {e[1] : e \in Merged(call[c].read)} :
        Grant(answered, ConfigCapabilities)
    /\ End(c)
    /\ UNCHANGED <<traffic, now, invites, linkers, disturbed>>

----------------------------------------------------------------------------
(* The environment *)

\* A call stops at one of its KV calls.  Only a registration is then half done.
Stop(c) ==
    /\ call[c] # Idle
    /\ disturbed' = disturbed \cup
           (IF call[c].op = "count" THEN {call[c].heartbeat.token} ELSE {})
    /\ End(c)
    /\ UNCHANGED <<traffic, now, invites, linkers, granted>>

\* Time passes, and entries whose time is over are gone.
Tick ==
    LET over == {k \in Linker : linkers[k] # None /\ linkers[k].expires <= now + 1}
    IN  /\ now < traffic.until
        /\ \A c \in Call : call[c] # Idle => now < call[c].at + Latency
        /\ now' = now + 1
        /\ linkers' = [k \in Linker |-> IF k \in over THEN None ELSE linkers[k]]
        /\ disturbed' = disturbed \cup (over \cap InFlight)
        /\ UNCHANGED <<traffic, invites, call, granted>>

CallStep(c) ==
    \/ ReceiveHeartbeat(c) \/ ReadInvite(c) \/ Register(c) \/ CountUse(c)
    \/ Renew(c) \/ Deregister(c) \/ DeleteInvite(c) \/ Revoke(c)
    \/ PatchLinker(c) \/ Patch(c) \/ DeleteLinker(c) \/ Delete(c)
    \/ ListLinkers(c) \/ GetListed(c) \/ Authorize(c) \/ Stop(c)

Next == CreateInvite \/ Tick \/ \E c \in Call : CallStep(c)

Spec == Init /\ [][Next]_vars

----------------------------------------------------------------------------
(* Properties *)

\* A heartbeat never takes a registration back to an older timestamp, however
\* late it arrives (monotonic check), unless two calls on that linker overlap.
HeartbeatsInOrder ==
    [][\A k \in Linker \ disturbed' :
        linkers[k] # None /\ linkers'[k] # None =>
            linkers'[k].last_heartbeat >= linkers[k].last_heartbeat]_vars

\* Whoever left the pool, or was removed from it, is in it again only through
\* an invite that stands, has not expired and has a use left.
BackOnlyByInvite ==
    [][\A k \in Linker \ disturbed' :
        linkers[k] = None /\ linkers'[k] # None =>
            LET t == linkers'[k].invite_token IN
                t \in disturbed' \/
                (/\ invites[t] \notin {None, Unissued}
                 /\ invites[t].term.expires_at >= now - Latency
                 /\ Len(invites[t].used_by) < invites[t].term.max_uses)]_vars

\* An invite that was revoked stays revoked: no call in flight brings it back, to be
\* used by linkers that come later.
RevokedStays ==
    [][\A t \in Token : invites[t] = None => invites'[t] = None]_vars

\* Each linker of the pool is counted in used_by of its invite, and used_by
\* never exceeds max_uses, unless two first heartbeats with it overlap or one
\* stops before its use is written.
UsesCounted ==
    \A t \in Token \ disturbed :
        invites[t] \notin {None, Unissued} =>
            /\ Len(invites[t].used_by) <= invites[t].term.max_uses
            /\ \A k \in Linker \ disturbed :
                linkers[k] # None /\ linkers[k].invite_token = t =>
                    \/ \E i \in 1 .. Len(invites[t].used_by) :
                           invites[t].used_by[i] = k
                    \/ \E c \in Call : call[c].op = "count" /\
                           call[c].heartbeat.pubkey = k

\* A registration ends Ttl after the last heartbeat, give or take the clocks
\* and the time of a call, or MinTtl after an admin change, whatever races.
LeaseKept ==
    \A k \in Linker : linkers[k] # None =>
        LET l == linkers[k] IN
            /\ l.expires >= l.last_heartbeat + Ttl - Tolerance
            /\ \/ l.expires <= l.last_heartbeat + Ttl + Tolerance + Latency
               \/ l.expires <= now + MinTtl

=============================================================================
