---------------------- MODULE LinkerRegistrationProofs ----------------------
(***************************************************************************)
(* Proofs that the pool of linkers keeps its leases, counts the uses of    *)
(* its invites and lets nobody back in without one, for every number of    *)
(* linkers, tokens and calls in flight and every clock skew and latency.   *)
(*                                                                         *)
(* The argument: a handler writes what it read before it waited.  The      *)
(* invariant says what each call in flight holds and when that is still    *)
(* the stored entry: unless two calls touched the same entry, which        *)
(* "disturbed" records.  An entry outside disturbed has at most one call   *)
(* in flight (Alone), so a write to it disturbs no other call's reading.   *)
(***************************************************************************)
EXTENDS LinkerRegistration, TLAPS

Issued(t) == invites[t] # Unissued

Stands(t) == invites[t] \notin {None, Unissued}

\* The time of a call, and a timestamp that was checked when it began.
Timely(s) == s.at <= now /\ now <= s.at + Latency

Checked(ts, at) == at - Tolerance <= ts /\ ts <= at + Tolerance

\* A first heartbeat: its linker is not registered.
FirstOK(s) ==
    s.op \in {"invite", "register", "count"} =>
        /\ s.heartbeat.token \in Token
        /\ s.heartbeat.secret \in Secret
        /\ s.op # "count" =>
              /\ Checked(s.heartbeat.timestamp, s.at)
              /\ s.heartbeat.pubkey \notin disturbed => linkers[s.heartbeat.pubkey] = None

\* The invite a registration goes by is the stored one.
InviteOK(s) ==
    s.op \in {"register", "count"} =>
        /\ Len(s.invite.used_by) < s.invite.term.max_uses
        /\ s.invite.term.expires_at >= s.at
        /\ Issued(s.heartbeat.token)
        /\ s.heartbeat.token \notin disturbed =>
              Stands(s.heartbeat.token) /\ invites[s.heartbeat.token] = s.invite

\* The copy that is written back is of the stored registration.
CopyOK(s) ==
    s.op \in {"renew", "patch"} =>
        /\ s.op = "renew" => Checked(s.to.last_heartbeat, s.at)
        /\ Issued(s.to.invite_token)
        /\ s.pubkey \notin disturbed =>
              /\ linkers[s.pubkey] # None
              /\ linkers[s.pubkey].invite_token = s.to.invite_token
              /\ linkers[s.pubkey].last_heartbeat <= s.to.last_heartbeat

CallOK(s) ==
    s.op # "idle" => Timely(s) /\ FirstOK(s) /\ InviteOK(s) /\ CopyOK(s)

\* An entry outside disturbed is touched by one call at most.
Alone ==
    \A c, d \in Call : c # d => Touches(call[c]) \cap Touches(call[d]) \subseteq disturbed

\* Every registration came from an invite that was created.
FromInvite == \A k \in Linker : linkers[k] # None => Issued(linkers[k].invite_token)

\* UsesCounted, with the token of the use that is still to be written.
Counted ==
    \A t \in Token : Stands(t) =>
        /\ Len(invites[t].used_by) <= invites[t].term.max_uses
        /\ t \notin disturbed =>
            \A k \in Linker \ disturbed :
                linkers[k] # None /\ linkers[k].invite_token = t =>
                    \/ \E i \in 1 .. Len(invites[t].used_by) :
                           invites[t].used_by[i] = k
                    \/ \E c \in Call : call[c].op = "count" /\
                           call[c].heartbeat.pubkey = k /\ call[c].heartbeat.token = t

\* The lease of one registration.
Lease(l) ==
    /\ l.expires >= l.last_heartbeat + Ttl - Tolerance
    /\ \/ l.expires <= l.last_heartbeat + Ttl + Tolerance + Latency
       \/ l.expires <= now + MinTtl

Inv ==
    /\ TypeOK
    /\ \A c \in Call : CallOK(call[c])
    /\ Alone
    /\ FromInvite
    /\ Counted
    /\ LeaseKept

----------------------------------------------------------------------------
(* Shapes *)

\* An entry that stands is an invite, and no invite is Unissued.
LEMMA InviteShape ==
    ASSUME NEW i \in LinkerInvite
    PROVE  /\ i # Unissued /\ None # Unissued
           /\ i.term.max_uses \in Nat /\ i.term.expires_at \in Nat
           /\ i.term.capabilities \in SUBSET Capability
           /\ i.used_by \in Seq(Linker) /\ Len(i.used_by) \in Nat
<1>1. i.term \in Term /\ i.used_by \in Seq(Linker)
  BY LinkerAssumption DEF LinkerInvite
<1>2. DOMAIN i = {"term", "used_by"} /\ DOMAIN Unissued = {"issued"} /\ DOMAIN None = {"absent"}
  BY DEF LinkerInvite, Unissued, None
<1>3. i # Unissued /\ None # Unissued
  BY <1>2
<1> QED BY <1>1, <1>3 DEF Term

\* What a call holds, by its operation.
LEMMA CallShape ==
    ASSUME NEW s \in CallState
    PROVE  /\ s.op \in {"idle", "invite", "register", "count", "renew", "patch",
                        "delete", "revoke", "notify"}
           /\ s.op = "idle" <=> s = Idle
           /\ s.op # "idle" => s.at \in Nat
           /\ s.op \in {"invite", "register", "count"} => s.heartbeat \in Heartbeat
           /\ s.op \in {"register", "count"} => s.invite \in LinkerInvite
           /\ s.op \in {"renew", "patch", "delete"} => s.pubkey \in Linker
           /\ s.op \in {"renew", "patch"} => s.to \in RegisteredLinker
           /\ s.op = "revoke" => s.token \in Token
           /\ s.op = "notify" => s.names \subseteq Linker /\ s.read \subseteq Linker \X Url
BY DEF CallState, Idle

\* The entries a call touches, by its operation.
LEMMA TouchesOf ==
    ASSUME NEW s
    PROVE  /\ s.op \in {"invite", "register", "count"} =>
                  Touches(s) = {s.heartbeat.pubkey, s.heartbeat.token}
           /\ s.op \in {"renew", "patch", "delete"} => Touches(s) = {s.pubkey}
           /\ s.op = "revoke" => Touches(s) = {s.token}
           /\ s.op \in {"idle", "notify"} => Touches(s) = {}
BY DEF Touches

\* A call whose entries and time are left alone still holds what it held.
LEMMA CallFrame ==
    ASSUME NEW s \in CallState, CallOK(s),
           now' \in Nat, now <= now', now \in Nat, s.op # "idle" => now' <= s.at + Latency,
           disturbed \subseteq disturbed',
           \A k \in Linker : k \in Touches(s) /\ k \notin disturbed' => linkers'[k] = linkers[k],
           \A t \in Token : Issued(t) => Issued(t)',
           \A t \in Token : t \in Touches(s) /\ t \notin disturbed' => invites'[t] = invites[t]
    PROVE  CallOK(s)'
<1> SUFFICES ASSUME s.op # "idle"
             PROVE  Timely(s)' /\ FirstOK(s)' /\ InviteOK(s)' /\ CopyOK(s)'
  BY DEF CallOK
<1>1. Timely(s) /\ FirstOK(s) /\ InviteOK(s) /\ CopyOK(s)
  BY DEF CallOK
<1>2. Timely(s)'
  BY <1>1, CallShape, LinkerAssumption DEF Timely
<1>3. FirstOK(s)'
  <2> SUFFICES ASSUME s.op \in {"invite", "register", "count"} PROVE FirstOK(s)'
    BY DEF FirstOK
  <2>1. s.heartbeat.pubkey \in Linker /\ s.heartbeat.pubkey \in Touches(s)
    BY CallShape, TouchesOf DEF Heartbeat
  <2> QED BY <1>1, <2>1 DEF FirstOK, Checked
<1>4. InviteOK(s)'
  <2> SUFFICES ASSUME s.op \in {"register", "count"} PROVE InviteOK(s)'
    BY DEF InviteOK
  <2>1. s.heartbeat.token \in Token /\ s.heartbeat.token \in Touches(s)
    BY <1>1, TouchesOf DEF FirstOK
  <2> QED BY <1>1, <2>1 DEF InviteOK, Stands
<1>5. CopyOK(s)'
  <2> SUFFICES ASSUME s.op \in {"renew", "patch"} PROVE CopyOK(s)'
    BY DEF CopyOK
  <2>1. s.pubkey \in Linker /\ s.pubkey \in Touches(s) /\ s.to.invite_token \in Token
    BY CallShape, TouchesOf DEF RegisteredLinker
  <2> QED BY <1>1, <2>1 DEF CopyOK, Checked
<1> QED BY <1>2, <1>3, <1>4, <1>5

\* Every other call of a step that writes only entries of call c.
LEMMA OthersFrame ==
    ASSUME Inv, NEW c \in Call, NEW s \in CallState,
           now' = now, disturbed \subseteq disturbed',
           call' = [call EXCEPT ![c] = s],
           \A k \in Linker : k \notin Touches(call[c]) => linkers'[k] = linkers[k],
           \A t \in Token : Issued(t) => Issued(t)',
           \A t \in Token : t \notin Touches(call[c]) => invites'[t] = invites[t],
           CallOK(s)'
    PROVE  \A d \in Call : CallOK(call[d])'
<1> TAKE d \in Call
<1>1. CASE d = c
  <2>1. call'[d] = s BY <1>1 DEF Inv, TypeOK
  <2> QED BY <2>1 DEF CallOK, Timely, FirstOK, InviteOK, CopyOK
<1>2. CASE d # c
  <2>1. call'[d] = call[d] /\ call[d] \in CallState
    BY <1>2 DEF Inv, TypeOK
  <2>2. Touches(call[c]) \cap Touches(call[d]) \subseteq disturbed
    BY <1>2 DEF Inv, Alone
  <2>3. /\ CallOK(call[d]) /\ now \in Nat
        /\ call[d].op # "idle" => now <= call[d].at + Latency
    BY DEF Inv, TypeOK, CallOK, Timely
  <2>4. PICK e \in CallState : e = call[d]
    BY <2>1
  <2>5. CallOK(e)'
    BY <2>2, <2>3, <2>4, CallFrame
  <2> QED BY <2>1, <2>4, <2>5
<1> QED BY <1>1, <1>2

\* A call that keeps to its entries touches no other call's.
LEMMA AloneMove ==
    ASSUME Inv, NEW c \in Call, NEW s,
           call' = [call EXCEPT ![c] = s],
           Touches(s) \subseteq Touches(call[c]), disturbed \subseteq disturbed'
    PROVE  Alone'
<1> SUFFICES ASSUME NEW d \in Call, NEW e \in Call, d # e
             PROVE  Touches(call'[d]) \cap Touches(call'[e]) \subseteq disturbed'
  BY DEF Alone, Touches
<1>1. \A f \in Call : Touches(call'[f]) \subseteq Touches(call[f])
  BY DEF Inv, TypeOK
<1>2. Touches(call[d]) \cap Touches(call[e]) \subseteq disturbed
  BY DEF Inv, Alone
<1> QED BY <1>1, <1>2

----------------------------------------------------------------------------
(* Steps that begin a call, or change no entry *)

\* A call that begins with a fresh reading.
LEMMA BeginOK ==
    ASSUME Inv, NEW c \in Call, NEW o, NEW s \in CallState, Begin(c, o, s),
           s.op # "idle", CallOK(s)
    PROVE  Inv'
<1>1. /\ call[c] = Idle /\ call[c].op = "idle" /\ Touches(call[c]) = {}
      /\ call' = [call EXCEPT ![c] = s] /\ UNCHANGED <<traffic, now, invites, linkers, granted>>
      /\ disturbed' = disturbed \cup (Touches(s) \cap InFlight)
  BY TouchesOf DEF Begin, Idle
<1>2. TypeOK'
  <2>1. \A d \in Call : Touches(call[d]) \subseteq Linker \cup Token
    <3> TAKE d \in Call
    <3>1. call[d] \in CallState /\ CallOK(call[d])
      BY DEF Inv, TypeOK
    <3> QED BY <3>1, TouchesOf, CallShape DEF CallOK, FirstOK, Heartbeat
  <2> QED BY <1>1, <2>1 DEF Inv, TypeOK, InFlight
<1>3. CallOK(s)'
  BY <1>1, CallFrame DEF Inv, TypeOK, CallOK, Timely, Issued
<1>4. \A d \in Call : CallOK(call[d])'
  BY <1>1, <1>3, OthersFrame DEF Issued
<1>5. Alone'
  <2> SUFFICES ASSUME NEW d \in Call, NEW e \in Call, d # e
               PROVE  Touches(call'[d]) \cap Touches(call'[e]) \subseteq disturbed'
    BY DEF Alone, Touches
  <2>1. Touches(call[d]) \cap Touches(call[e]) \subseteq disturbed
    BY DEF Inv, Alone
  <2>2. \A f \in Call : f # c => call'[f] = call[f] /\ Touches(call[f]) \subseteq InFlight
    BY <1>1 DEF Inv, TypeOK, InFlight
  <2>3. call'[c] = s
    BY <1>1 DEF Inv, TypeOK
  <2> QED BY <1>1, <2>1, <2>2, <2>3
<1>6. FromInvite' /\ LeaseKept'
  BY <1>1 DEF Inv, FromInvite, LeaseKept, Issued
<1>7. Counted'
  BY <1>1 DEF Inv, TypeOK, Counted, Stands
<1> QED BY <1>2, <1>4, <1>5, <1>6, <1>7 DEF Inv

\* A step of a call in flight that writes neither store.
LEMMA QuietOK ==
    ASSUME Inv, NEW c \in Call, NEW s \in CallState,
           call' = [call EXCEPT ![c] = s],
           UNCHANGED <<traffic, now, invites, linkers>>,
           granted' \in [Linker -> SUBSET Capability],
           disturbed \subseteq disturbed', disturbed' \subseteq Linker \cup Token,
           Touches(s) \subseteq Touches(call[c]), CallOK(s)',
           call[c].op = "count" => call[c].heartbeat.token \in disturbed'
    PROVE  Inv'
<1>1. TypeOK'
  BY DEF Inv, TypeOK
<1>2. \A d \in Call : CallOK(call[d])'
  BY OthersFrame DEF Issued
<1>3. Alone'
  BY AloneMove
<1>4. FromInvite' /\ LeaseKept'
  BY DEF Inv, FromInvite, LeaseKept, Issued
<1>5. Counted'
  <2>1. \A d \in Call : d # c => call'[d] = call[d]
    BY DEF Inv, TypeOK
  <2> SUFFICES ASSUME NEW t \in Token, Stands(t), t \notin disturbed',
                      NEW k \in Linker \ disturbed', linkers[k] # None,
                      linkers[k].invite_token = t,
                      ~\E i \in 1 .. Len(invites[t].used_by) : invites[t].used_by[i] = k
               PROVE  \E d \in Call : call'[d].op = "count" /\
                         call'[d].heartbeat.pubkey = k /\ call'[d].heartbeat.token = t
    BY DEF Inv, Counted, Stands
  <2>2. PICK d \in Call : call[d].op = "count" /\
                 call[d].heartbeat.pubkey = k /\ call[d].heartbeat.token = t
    BY DEF Inv, Counted
  <2> QED BY <2>1, <2>2
<1> QED BY <1>1, <1>2, <1>3, <1>4, <1>5 DEF Inv

\* A call that ends holds and touches nothing.
LEMMA IdleOK == Idle \in CallState /\ Touches(Idle) = {} /\ CallOK(Idle)'
BY TouchesOf DEF Idle, CallState, CallOK

----------------------------------------------------------------------------
(* Steps that write a registration *)

\* A call writes the registration of a linker it touches.
LEMMA LinkerWriteOK ==
    ASSUME Inv, NEW c \in Call, NEW s \in CallState, NEW k \in Linker,
           NEW l \in RegisteredLinker \cup {None},
           call' = [call EXCEPT ![c] = s], Put(k, l),
           UNCHANGED <<traffic, now, invites, granted, disturbed>>,
           call[c].op # "count", k \in Touches(call[c]),
           Touches(s) \subseteq Touches(call[c]), CallOK(s)',
           l # None => Issued(l.invite_token) /\ Lease(l),
           l # None /\ k \notin disturbed =>
               \/ linkers[k] # None /\ linkers[k].invite_token = l.invite_token
               \/ /\ s.op = "count" /\ s.heartbeat.pubkey = k
                  /\ s.heartbeat.token = l.invite_token
    PROVE  Inv'
<1>1. linkers' = [linkers EXCEPT ![k] = l] /\ linkers'[k] = l
      /\ \A j \in Linker : j # k => linkers'[j] = linkers[j]
  BY DEF Put, Inv, TypeOK
<1>2. TypeOK'
  BY <1>1 DEF Inv, TypeOK
<1>3. \A d \in Call : CallOK(call[d])'
  BY <1>1, OthersFrame DEF Issued
<1>4. Alone'
  BY AloneMove
<1>5. FromInvite'
  BY <1>1 DEF Inv, FromInvite, Issued
<1>6. LeaseKept'
  BY <1>1 DEF Inv, LeaseKept, Lease
<1>7. Counted'
  <2>1. call'[c] = s /\ \A d \in Call : d # c => call'[d] = call[d]
    BY DEF Inv, TypeOK
  <2> SUFFICES ASSUME NEW t \in Token, Stands(t), t \notin disturbed,
                      NEW j \in Linker \ disturbed, linkers'[j] # None,
                      linkers'[j].invite_token = t,
                      ~\E i \in 1 .. Len(invites[t].used_by) : invites[t].used_by[i] = j
               PROVE  \E d \in Call : call'[d].op = "count" /\
                         call'[d].heartbeat.pubkey = j /\ call'[d].heartbeat.token = t
    BY DEF Inv, Counted, Stands
  <2>2. CASE j = k /\ s.op = "count" /\ s.heartbeat.pubkey = k /\ s.heartbeat.token = t
    BY <2>1, <2>2
  <2>3. CASE linkers[j] # None /\ linkers[j].invite_token = t
    <3>1. PICK d \in Call : call[d].op = "count" /\
                   call[d].heartbeat.pubkey = j /\ call[d].heartbeat.token = t
      BY <2>3 DEF Inv, Counted
    <3> QED BY <2>1, <3>1
  <2> QED BY <1>1, <2>2, <2>3
<1> QED BY <1>2, <1>3, <1>4, <1>5, <1>6, <1>7 DEF Inv

\* Register: the lease starts within the tolerance and the time of the call.
LEMMA RegisterOK ==
    ASSUME Inv, NEW c \in Call, Register(c)
    PROVE  Inv'
<1> DEFINE h == call[c].heartbeat
           i == call[c].invite
           l == [invite_token |-> h.token, capabilities |-> i.term.capabilities,
                 secret |-> h.secret, url |-> h.url,
                 last_heartbeat |-> h.timestamp, expires |-> now + Ttl]
<1>1. call[c] \in CallState /\ call[c].op = "register" /\ CallOK(call[c]) /\ now \in Nat
  BY DEF Register, Inv, TypeOK
<1>2. /\ h \in Heartbeat /\ i \in LinkerInvite /\ call[c].at \in Nat
      /\ h.token \in Token /\ h.secret \in Secret
      /\ Timely(call[c]) /\ Checked(h.timestamp, call[c].at)
      /\ Issued(h.token)
  BY <1>1, CallShape DEF CallOK, FirstOK, InviteOK
<1>3. i.term.capabilities \in SUBSET Capability
  BY <1>2, InviteShape
<1>4. l \in RegisteredLinker
  BY <1>1, <1>2, <1>3, LinkerAssumption DEF RegisteredLinker, Heartbeat
<1>5. [call[c] EXCEPT !.op = "count"] = [op |-> "count", heartbeat |-> h, invite |-> i, at |-> call[c].at]
  BY <1>1 DEF CallState, Idle
<1>6. PICK s \in CallState : s = [op |-> "count", heartbeat |-> h, invite |-> i, at |-> call[c].at]
  BY <1>2 DEF CallState
<1>7. Put(h.pubkey, l) /\ call' = [call EXCEPT ![c] = s]
      /\ UNCHANGED <<traffic, now, invites, granted, disturbed>>
  BY <1>5, <1>6 DEF Register
<1>8. h.pubkey \in Touches(call[c]) /\ Touches(s) \subseteq Touches(call[c])
  BY <1>1, <1>6, TouchesOf
<1>9. CallOK(s)'
  BY <1>1, <1>6, <1>7 DEF CallOK, Timely, FirstOK, InviteOK, CopyOK, Issued, Stands
<1>10. Lease(l)
  <2>1. h.timestamp \in Nat /\ Ttl \in Nat /\ Tolerance \in Nat /\ Latency \in Nat /\ MinTtl \in Nat
    BY <1>2, LinkerAssumption DEF Heartbeat
  <2> QED BY <1>1, <1>2, <2>1 DEF Lease, Timely, Checked
<1>11. s.op = "count" /\ s.heartbeat = h /\ l.invite_token = h.token /\ h.pubkey \in Linker
  BY <1>2, <1>6 DEF Heartbeat
<1> HIDE DEF h, l
<1>12. Issued(l.invite_token)
  BY <1>2, <1>11
<1> QED BY <1>1, <1>4, <1>6, <1>7, <1>8, <1>9, <1>10, <1>11, <1>12, LinkerWriteOK

\* Renew and Patch: the copy that was read is written back.
LEMMA WriteBackOK ==
    ASSUME Inv, NEW c \in Call, Renew(c) \/ Patch(c)
    PROVE  Inv'
<1> DEFINE o == call[c].to
           k == call[c].pubkey
           ends == IF call[c].op = "renew" THEN now + Ttl ELSE now + PatchTtl(o)
           l == [o EXCEPT !.expires = ends]
<1>1. call[c] \in CallState /\ call[c].op \in {"renew", "patch"} /\ CallOK(call[c]) /\ now \in Nat
  BY DEF Renew, Patch, Inv, TypeOK
<1>2. o \in RegisteredLinker /\ k \in Linker /\ call[c].at \in Nat
  BY <1>1, CallShape
<1>3. /\ Timely(call[c]) /\ CopyOK(call[c])
  BY <1>1 DEF CallOK
<1>4. /\ o.last_heartbeat \in Nat /\ Ttl \in Nat /\ Tolerance \in Nat /\ Latency \in Nat
      /\ MinTtl \in Nat
  BY <1>2, LinkerAssumption DEF RegisteredLinker
<1>5. ends \in Nat
  BY <1>1, <1>4 DEF PatchTtl
<1>6. l \in RegisteredLinker /\ l.invite_token = o.invite_token
      /\ l.last_heartbeat = o.last_heartbeat /\ l.expires = ends
  BY <1>2, <1>5 DEF RegisteredLinker
<1>7. Lease(l)
  <2>1. CASE call[c].op = "renew"
    BY <1>1, <1>2, <1>3, <1>4, <1>6, <2>1 DEF Lease, Timely, CopyOK, Checked
  <2>2. CASE call[c].op = "patch"
    BY <1>1, <1>4, <1>6, <2>2 DEF Lease, PatchTtl
  <2> QED BY <1>1, <2>1, <2>2
<1>8. Put(k, l) /\ call' = [call EXCEPT ![c] = Idle]
      /\ UNCHANGED <<traffic, now, invites, granted, disturbed>>
  BY DEF Renew, Patch, End
<1>9. k \in Touches(call[c])
  BY <1>1, TouchesOf
<1>10. Issued(l.invite_token) /\ (k \notin disturbed =>
           linkers[k] # None /\ linkers[k].invite_token = l.invite_token)
  BY <1>1, <1>3, <1>6 DEF CopyOK
<1> HIDE DEF l, k
<1> QED BY <1>1, <1>2, <1>6, <1>7, <1>8, <1>9, <1>10, IdleOK, LinkerWriteOK

\* Delete: an entry that is gone has nothing to keep.
LEMMA DeleteOK ==
    ASSUME Inv, NEW c \in Call, Delete(c)
    PROVE  Inv'
<1>1. call[c] \in CallState /\ call[c].op = "delete" /\ call[c].pubkey \in Linker
  BY CallShape DEF Delete, Inv, TypeOK
<1>2. Put(call[c].pubkey, None) /\ call' = [call EXCEPT ![c] = Idle]
      /\ UNCHANGED <<traffic, now, invites, granted, disturbed>>
  BY DEF Delete, End
<1>3. call[c].pubkey \in Touches(call[c])
  BY <1>1, TouchesOf
<1> QED BY <1>1, <1>2, <1>3, IdleOK, LinkerWriteOK

----------------------------------------------------------------------------
(* Steps that write an invite, and the clock *)

\* One more use keeps those that were counted, and counts its linker.
LEMMA UseAppended ==
    ASSUME NEW u \in Seq(Linker), NEW k \in Linker
    PROVE  /\ Append(u, k) \in Seq(Linker)
           /\ Len(Append(u, k)) = Len(u) + 1
           /\ Append(u, k)[Len(u) + 1] = k
           /\ \A n \in 1 .. Len(u) : Append(u, k)[n] = u[n]
OBVIOUS

\* CountUse: the copy is the stored invite, so no use that was counted is lost.
LEMMA CountUseOK ==
    ASSUME Inv, NEW c \in Call, CountUse(c)
    PROVE  Inv'
<1> DEFINE h == call[c].heartbeat
           i == call[c].invite
           j == [i EXCEPT !.used_by = Append(@, h.pubkey)]
<1>1. call[c] \in CallState /\ call[c].op = "count" /\ CallOK(call[c])
  BY DEF CountUse, Inv, TypeOK
<1>2. /\ h \in Heartbeat /\ i \in LinkerInvite /\ h.pubkey \in Linker /\ h.token \in Token
      /\ InviteOK(call[c])
  BY <1>1, CallShape DEF CallOK, FirstOK, Heartbeat
<1>3. /\ i.used_by \in Seq(Linker) /\ i.term.max_uses \in Nat
      /\ Len(i.used_by) < i.term.max_uses /\ Len(i.used_by) \in Nat
  BY <1>1, <1>2, InviteShape DEF InviteOK
<1>4. PICK q \in Seq(Linker) :
          /\ q = Append(i.used_by, h.pubkey) /\ Len(q) = Len(i.used_by) + 1
          /\ q[Len(i.used_by) + 1] = h.pubkey
          /\ \A n \in 1 .. Len(i.used_by) : q[n] = i.used_by[n]
  BY <1>2, <1>3, UseAppended, Zenon
<1>5. j \in LinkerInvite /\ j.term = i.term /\ j.used_by = q
  BY <1>2, <1>4 DEF LinkerInvite
<1>6. /\ invites' = [invites EXCEPT ![h.token] = j] /\ call' = [call EXCEPT ![c] = Idle]
      /\ UNCHANGED <<traffic, now, linkers, granted, disturbed>>
  BY DEF CountUse, End
<1> HIDE DEF j
<1>7. invites'[h.token] = j /\ j # Unissued
      /\ \A t \in Token : t # h.token => invites'[t] = invites[t]
  BY <1>2, <1>5, <1>6, InviteShape DEF Inv, TypeOK
<1>8. TypeOK'
  BY <1>5, <1>6, IdleOK DEF Inv, TypeOK
<1>9. h.token \in Touches(call[c]) /\ \A t \in Token : Issued(t) => Issued(t)'
  BY <1>1, <1>7, TouchesOf DEF Issued
<1>10. \A d \in Call : CallOK(call[d])'
  BY <1>6, <1>7, <1>9, IdleOK, OthersFrame
<1>11. Alone'
  BY <1>6, IdleOK, AloneMove
<1>12. FromInvite' /\ LeaseKept'
  <2>1. FromInvite'
    <3> SUFFICES ASSUME NEW k \in Linker, linkers[k] # None
                 PROVE  Issued(linkers[k].invite_token)'
      BY <1>6 DEF FromInvite
    <3>1. linkers[k].invite_token \in Token /\ Issued(linkers[k].invite_token)
      BY DEF Inv, TypeOK, FromInvite, RegisteredLinker
    <3> QED BY <1>6, <1>9, <3>1 DEF Issued
  <2> QED BY <1>6, <2>1 DEF Inv, LeaseKept
<1>13. Counted'
  <2> SUFFICES ASSUME NEW t \in Token, Stands(t)'
               PROVE  /\ Len(invites'[t].used_by) <= invites'[t].term.max_uses
                      /\ t \notin disturbed =>
                          \A k \in Linker \ disturbed :
                            linkers[k] # None /\ linkers[k].invite_token = t =>
                              \/ \E n \in 1 .. Len(invites'[t].used_by) :
                                     invites'[t].used_by[n] = k
                              \/ \E d \in Call : call'[d].op = "count" /\
                                     call'[d].heartbeat.pubkey = k /\
                                     call'[d].heartbeat.token = t
    BY <1>6 DEF Counted
  <2>1. \A d \in Call : d # c => call'[d] = call[d]
    BY <1>6 DEF Inv, TypeOK
  <2>2. CASE t # h.token
    <3>1. invites'[t] = invites[t] /\ Stands(t)
      BY <1>7, <2>2 DEF Stands
    <3> SUFFICES ASSUME t \notin disturbed, NEW k \in Linker \ disturbed,
                        linkers[k] # None, linkers[k].invite_token = t,
                        ~\E n \in 1 .. Len(invites[t].used_by) : invites[t].used_by[n] = k
                 PROVE  \E d \in Call : call'[d].op = "count" /\
                            call'[d].heartbeat.pubkey = k /\ call'[d].heartbeat.token = t
      BY <3>1 DEF Inv, Counted
    <3>2. PICK d \in Call : call[d].op = "count" /\
                   call[d].heartbeat.pubkey = k /\ call[d].heartbeat.token = t
      BY <3>1 DEF Inv, Counted
    <3> QED BY <2>1, <2>2, <3>2
  <2>3. CASE t = h.token
    <3>1. /\ Len(invites'[t].used_by) <= invites'[t].term.max_uses
          /\ Len(q) = Len(i.used_by) + 1 /\ q[Len(i.used_by) + 1] = h.pubkey
          /\ \A n \in 1 .. Len(i.used_by) : q[n] = i.used_by[n]
          /\ invites'[t].used_by = q
      <4>1. invites'[t].used_by = q /\ invites'[t].term = i.term
        BY <1>5, <1>7, <2>3
      <4> QED BY <1>3, <1>4, <4>1
    <3> SUFFICES ASSUME t \notin disturbed, NEW k \in Linker \ disturbed,
                        linkers[k] # None, linkers[k].invite_token = t,
                        ~\E d \in Call : call'[d].op = "count" /\
                            call'[d].heartbeat.pubkey = k /\ call'[d].heartbeat.token = t
                 PROVE  \E n \in 1 .. Len(q) : q[n] = k
      BY <3>1
    <3>2. invites[t] = i /\ Stands(t)
      BY <1>1, <1>2, <2>3 DEF InviteOK
    <3>3. CASE k = h.pubkey
      BY <1>3, <3>1, <3>3
    <3>4. CASE \E n \in 1 .. Len(i.used_by) : i.used_by[n] = k
      BY <1>3, <3>1, <3>4
    <3>5. CASE \E d \in Call : call[d].op = "count" /\
                   call[d].heartbeat.pubkey = k /\ call[d].heartbeat.token = t
      BY <2>1, <3>3, <3>5
    <3> QED BY <3>2, <3>4, <3>5 DEF Inv, Counted
  <2> QED BY <2>2, <2>3
<1> QED BY <1>8, <1>10, <1>11, <1>12, <1>13 DEF Inv

\* Revoke: an invite that is gone counts nothing.
LEMMA RevokeOK ==
    ASSUME Inv, NEW c \in Call, Revoke(c)
    PROVE  Inv'
<1> DEFINE r == call[c].token
<1>1. call[c] \in CallState /\ call[c].op = "revoke" /\ r \in Token
  BY CallShape DEF Revoke, Inv, TypeOK
<1>2. /\ invites' = [invites EXCEPT ![r] = None] /\ call' = [call EXCEPT ![c] = Idle]
      /\ UNCHANGED <<traffic, now, linkers, granted, disturbed>>
  BY DEF Revoke, End
<1>3. None # Unissued
  BY DEF None, Unissued
<1> HIDE DEF r
<1>4. invites'[r] = None /\ \A t \in Token : t # r => invites'[t] = invites[t]
  BY <1>1, <1>2 DEF Inv, TypeOK
<1>5. TypeOK'
  BY <1>2, IdleOK DEF Inv, TypeOK
<1>6. r \in Touches(call[c])
  BY <1>1, TouchesOf DEF r
<1>7. \A t \in Token : Issued(t) => Issued(t)'
  BY <1>3, <1>4 DEF Issued
<1>8. \A d \in Call : CallOK(call[d])'
  BY <1>2, <1>4, <1>6, <1>7, IdleOK, OthersFrame
<1>9. Alone'
  BY <1>2, IdleOK, AloneMove
<1>10. FromInvite'
  <2> SUFFICES ASSUME NEW k \in Linker, linkers[k] # None
               PROVE  Issued(linkers[k].invite_token)'
    BY <1>2 DEF FromInvite
  <2>1. linkers[k].invite_token \in Token /\ Issued(linkers[k].invite_token)
    BY DEF Inv, TypeOK, FromInvite, RegisteredLinker
  <2> QED BY <1>2, <1>7, <2>1 DEF Issued
<1>11. LeaseKept'
  BY <1>2 DEF Inv, LeaseKept
<1>12. Counted'
  <2>1. \A d \in Call : call[d].op = "count" => call'[d] = call[d]
    BY <1>1, <1>2 DEF Inv, TypeOK
  <2>2. \A t \in Token : Stands(t)' => Stands(t) /\ invites'[t] = invites[t]
    BY <1>4 DEF Stands
  <2> QED BY <1>2, <2>1, <2>2 DEF Inv, Counted
<1> QED BY <1>5, <1>8, <1>9, <1>10, <1>11, <1>12 DEF Inv

\* CreateInvite: no registration and no call goes by a token that is not issued.
LEMMA CreateInviteOK ==
    ASSUME Inv, CreateInvite
    PROVE  Inv'
<1>1. PICK t \in Token, o \in Offer :
          /\ invites[t] = Unissued
          /\ invites' = [invites EXCEPT ![t] = [term |-> o, used_by |-> <<>>]]
  BY DEF CreateInvite
<1>2. UNCHANGED <<traffic, now, linkers, call, granted, disturbed>>
  BY DEF CreateInvite
<1> DEFINE i == [term |-> o, used_by |-> <<>>]
<1>3. i \in LinkerInvite /\ i # Unissued /\ i.term.max_uses \in Nat
      /\ Len(i.used_by) = 0
  <2>1. i \in LinkerInvite /\ i.used_by = <<>>
    BY DEF LinkerInvite
  <2> QED BY <2>1, InviteShape
<1> HIDE DEF i
<1>4. invites'[t] = i /\ \A u \in Token : u # t => invites'[u] = invites[u]
  BY <1>1 DEF Inv, TypeOK, i
<1>5. TypeOK'
  BY <1>1, <1>2, <1>3 DEF Inv, TypeOK, i
<1>6. \A u \in Token : Issued(u) => u # t /\ Issued(u)' /\ invites'[u] = invites[u]
  BY <1>1, <1>4 DEF Issued
<1>7. ASSUME NEW d \in Call
      PROVE  CallOK(call[d])'
  <2>1. PICK s \in CallState : s = call[d]
    BY DEF Inv, TypeOK
  <2>2. (CallOK(s) /\ FirstOK(s)) \/ s.op = "idle"
    BY <2>1 DEF Inv, CallOK
  <2>3. CallOK(s)'
    BY <1>1, <1>2, <1>6, <2>2 DEF CallOK, Timely, FirstOK, InviteOK, CopyOK, Issued, Stands
  <2> QED BY <1>2, <2>1, <2>3
<1>8. Alone' /\ LeaseKept'
  BY <1>2 DEF Inv, Alone, LeaseKept
<1>9. FromInvite'
  <2> SUFFICES ASSUME NEW k \in Linker, linkers[k] # None
               PROVE  Issued(linkers[k].invite_token)'
    BY <1>2 DEF FromInvite
  <2>1. linkers[k].invite_token \in Token /\ Issued(linkers[k].invite_token)
    BY DEF Inv, TypeOK, FromInvite, RegisteredLinker
  <2> QED BY <1>2, <1>6, <2>1 DEF Issued
<1>10. Counted'
  <2> SUFFICES ASSUME NEW u \in Token, Stands(u)'
               PROVE  /\ Len(invites'[u].used_by) <= invites'[u].term.max_uses
                      /\ u \notin disturbed =>
                          \A k \in Linker \ disturbed :
                            linkers[k] # None /\ linkers[k].invite_token = u =>
                              \/ \E n \in 1 .. Len(invites'[u].used_by) :
                                     invites'[u].used_by[n] = k
                              \/ \E d \in Call : call[d].op = "count" /\
                                     call[d].heartbeat.pubkey = k /\
                                     call[d].heartbeat.token = u
    BY <1>2 DEF Counted
  <2>1. CASE u = t
    BY <1>1, <1>3, <1>4, <2>1 DEF Inv, FromInvite, Issued
  <2>2. CASE u # t
    <3>1. invites'[u] = invites[u] /\ Stands(u)
      BY <1>4, <2>2 DEF Stands
    <3> QED BY <3>1 DEF Inv, Counted
  <2> QED BY <2>1, <2>2
<1> QED BY <1>2, <1>5, <1>7, <1>8, <1>9, <1>10 DEF Inv

\* Tick: a registration that lapses under a call is disturbed.
LEMMA TickOK ==
    ASSUME Inv, Tick
    PROVE  Inv'
<1> DEFINE over == {k \in Linker : linkers[k] # None /\ linkers[k].expires <= now + 1}
<1>1. /\ now' = now + 1 /\ now \in Nat
      /\ \A d \in Call : call[d] # Idle => now < call[d].at + Latency
      /\ linkers' = [k \in Linker |-> IF k \in over THEN None ELSE linkers[k]]
      /\ disturbed' = disturbed \cup (over \cap InFlight)
      /\ UNCHANGED <<traffic, invites, call, granted>>
  BY DEF Tick, Inv, TypeOK
<1> HIDE DEF over
<1>2. TypeOK'
  BY <1>1 DEF Inv, TypeOK, over
<1>3. \A k \in Linker : linkers'[k] # None => linkers'[k] = linkers[k] /\ linkers[k] # None
  BY <1>1
<1>4. ASSUME NEW d \in Call
      PROVE  CallOK(call[d])'
  <2>1. PICK s \in CallState : s = call[d]
    BY DEF Inv, TypeOK
  <2>2. CallOK(s) /\ Touches(s) \subseteq InFlight
    BY <2>1 DEF Inv, InFlight
  <2>3. s.op # "idle" => s.at \in Nat /\ now' <= s.at + Latency
    BY <1>1, <2>1, CallShape, LinkerAssumption
  <2>4. \A k \in Linker : k \in Touches(s) /\ k \notin disturbed' => linkers'[k] = linkers[k]
    BY <1>1, <2>2
  <2>5. CallOK(s)'
    BY <1>1, <2>2, <2>3, <2>4, CallFrame DEF Issued
  <2> QED BY <1>1, <2>1, <2>5
<1>5. Alone'
  BY <1>1 DEF Inv, Alone
<1>6. FromInvite'
  BY <1>1, <1>3 DEF Inv, FromInvite, Issued
<1>7. LeaseKept'
  <2> SUFFICES ASSUME NEW k \in Linker, linkers[k] # None
               PROVE  /\ linkers[k].expires >= linkers[k].last_heartbeat + Ttl - Tolerance
                      /\ \/ linkers[k].expires <= linkers[k].last_heartbeat + Ttl + Tolerance + Latency
                         \/ linkers[k].expires <= now + 1 + MinTtl
    BY <1>1, <1>3 DEF LeaseKept
  <2>1. linkers[k].expires \in Nat /\ MinTtl \in Nat
    BY LinkerAssumption DEF Inv, TypeOK, RegisteredLinker
  <2> QED BY <1>1, <2>1 DEF Inv, LeaseKept
<1>8. Counted'
  BY <1>1, <1>3 DEF Inv, Counted, Stands
<1> QED BY <1>1, <1>2, <1>4, <1>5, <1>6, <1>7, <1>8 DEF Inv

----------------------------------------------------------------------------
(* Calls that arrive *)

\* A heartbeat arrives: it is checked against the clock and the registration.
LEMMA ReceiveHeartbeatOK ==
    ASSUME Inv, NEW c \in Call, ReceiveHeartbeat(c)
    PROVE  Inv'
<1>1. PICK h \in [pubkey : Linker, token : Token \cup {None}, url : traffic.urls,
                  secret : Secret \cup {None}, rotate : BOOLEAN, timestamp : 0 .. MaxTime] :
          /\ InOrder(h.pubkey, h.timestamp)
          /\ IF linkers[h.pubkey] = None
             THEN /\ h.token # None /\ h.secret # None /\ ~h.rotate
                  /\ Begin(c, "heartbeat", [op |-> "invite", heartbeat |-> h, at |-> now])
             ELSE /\ h.token = None
                  /\ Begin(c, "heartbeat", [op |-> "renew", pubkey |-> h.pubkey,
                               to |-> Renewal(h.pubkey, h), at |-> now])
  BY Zenon DEF ReceiveHeartbeat
<1>2. now \in Nat /\ Tolerance \in Nat /\ Latency \in Nat /\ MaxTime \in Nat
      /\ traffic.urls \subseteq Url
  BY LinkerAssumption DEF Inv, TypeOK
<1>3. h \in Heartbeat
  BY <1>2 DEF Heartbeat
<1>4. h.timestamp \in Nat /\ h.pubkey \in Linker /\ Checked(h.timestamp, now)
      /\ (linkers[h.pubkey] # None => h.timestamp > linkers[h.pubkey].last_heartbeat)
  BY <1>1, <1>2 DEF InOrder, WithinTolerance, Checked
<1>5. CASE linkers[h.pubkey] = None
  <2>1. PICK s \in CallState : s = [op |-> "invite", heartbeat |-> h, at |-> now]
    BY <1>2, <1>3 DEF CallState
  <2>2. h.token \in Token /\ h.secret \in Secret /\ Begin(c, "heartbeat", s)
    BY <1>1, <1>3, <1>5, <2>1 DEF Heartbeat
  <2>3. CallOK(s)
    BY <1>2, <1>4, <1>5, <2>1, <2>2 DEF CallOK, Timely, FirstOK, InviteOK, CopyOK
  <2> QED BY <2>1, <2>2, <2>3, BeginOK
<1>6. CASE linkers[h.pubkey] # None
  <2>1. linkers[h.pubkey] \in RegisteredLinker /\ Issued(linkers[h.pubkey].invite_token)
    BY <1>4, <1>6 DEF Inv, TypeOK, FromInvite
  <2>2. PICK l : l = Renewal(h.pubkey, h)
    OBVIOUS
  <2>3. /\ l \in RegisteredLinker /\ l.last_heartbeat = h.timestamp
        /\ l.invite_token = linkers[h.pubkey].invite_token
    BY <1>3, <1>4, <2>1, <2>2 DEF Renewal, RegisteredLinker, Heartbeat
  <2>4. PICK s \in CallState : s = [op |-> "renew", pubkey |-> h.pubkey, to |-> l, at |-> now]
    BY <1>2, <1>4, <2>3 DEF CallState
  <2>5. Begin(c, "heartbeat", s)
    BY <1>1, <1>6, <2>2, <2>4
  <2>6. linkers[h.pubkey].last_heartbeat \in Nat
    BY <2>1 DEF RegisteredLinker
  <2>7. CallOK(s)
    BY <1>2, <1>4, <1>6, <2>1, <2>3, <2>4, <2>6 DEF CallOK, Timely, FirstOK, InviteOK, CopyOK
  <2> QED BY <2>4, <2>5, <2>7, BeginOK
<1> QED BY <1>5, <1>6

\* PatchLinker reads the registration it will write back.
LEMMA PatchLinkerOK ==
    ASSUME Inv, NEW c \in Call, PatchLinker(c)
    PROVE  Inv'
<1>1. PICK k \in Linker, cs \in SUBSET Capability :
          /\ linkers[k] # None
          /\ Begin(c, "patchLinker", [op |-> "patch", pubkey |-> k, at |-> now,
                       to |-> [linkers[k] EXCEPT !.capabilities = cs]])
  BY Zenon DEF PatchLinker
<1>2. linkers[k] \in RegisteredLinker /\ Issued(linkers[k].invite_token) /\ now \in Nat
      /\ Latency \in Nat
  BY <1>1, LinkerAssumption DEF Inv, TypeOK, FromInvite
<1>3. PICK l : l = [linkers[k] EXCEPT !.capabilities = cs]
  OBVIOUS
<1>4. /\ l \in RegisteredLinker /\ l.last_heartbeat = linkers[k].last_heartbeat
      /\ l.invite_token = linkers[k].invite_token /\ l.last_heartbeat \in Nat
  BY <1>2, <1>3 DEF RegisteredLinker
<1>5. PICK s \in CallState : s = [op |-> "patch", pubkey |-> k, at |-> now, to |-> l]
  BY <1>2, <1>4 DEF CallState
<1>6. Begin(c, "patchLinker", s)
  BY <1>1, <1>3, <1>5
<1>7. CallOK(s)
  BY <1>1, <1>2, <1>4, <1>5 DEF CallOK, Timely, FirstOK, InviteOK, CopyOK
<1> QED BY <1>5, <1>6, <1>7, BeginOK

\* Calls that hold no copy of an entry when they begin.
LEMMA PlainBeginOK ==
    ASSUME Inv, NEW c \in Call,
           Deregister(c) \/ DeleteLinker(c) \/ DeleteInvite(c) \/ ListLinkers(c)
    PROVE  Inv'
<1>1. now \in Nat /\ Latency \in Nat
  BY LinkerAssumption DEF Inv, TypeOK
<1>2. ASSUME NEW o, NEW s \in CallState, Begin(c, o, s),
             s.op \in {"delete", "revoke", "notify"}, s.at = now
      PROVE  Inv'
  <2>1. CallOK(s)
    BY <1>1, <1>2 DEF CallOK, Timely, FirstOK, InviteOK, CopyOK
  <2> QED BY <1>2, <2>1, BeginOK
<1>3. CASE Deregister(c) \/ DeleteLinker(c)
  <2>1. PICK k \in Linker, o \in {"deregister", "deleteLinker"} :
            Begin(c, o, [op |-> "delete", pubkey |-> k, at |-> now])
    BY <1>3 DEF Deregister, DeleteLinker
  <2>2. PICK s \in CallState : s = [op |-> "delete", pubkey |-> k, at |-> now]
    BY <1>1 DEF CallState
  <2> QED BY <1>2, <2>1, <2>2
<1>4. CASE DeleteInvite(c)
  <2>1. PICK t \in Token : Begin(c, "deleteInvite", [op |-> "revoke", token |-> t, at |-> now])
    BY <1>4 DEF DeleteInvite
  <2>2. PICK s \in CallState : s = [op |-> "revoke", token |-> t, at |-> now]
    BY <1>1 DEF CallState
  <2> QED BY <1>2, <2>1, <2>2
<1>5. CASE ListLinkers(c)
  <2>1. PICK s \in CallState : s = [op |-> "notify", at |-> now, read |-> {},
                                    names |-> {k \in Linker : linkers[k] # None}]
    BY <1>1 DEF CallState
  <2>2. Begin(c, "notify", s)
    BY <1>5, <2>1 DEF ListLinkers
  <2> QED BY <1>2, <2>1, <2>2
<1> QED BY <1>3, <1>4, <1>5

----------------------------------------------------------------------------
(* Calls in flight *)

\* Idle calls hold nothing, so a call may end whenever it writes nothing.
LEMMA EndQuietOK ==
    ASSUME Inv, NEW c \in Call, End(c), UNCHANGED <<traffic, now, invites, linkers>>,
           granted' \in [Linker -> SUBSET Capability],
           disturbed \subseteq disturbed', disturbed' \subseteq Linker \cup Token,
           call[c].op = "count" => call[c].heartbeat.token \in disturbed'
    PROVE  Inv'
BY IdleOK, QuietOK DEF End

\* ReadInvite: what is read is the stored invite, and it has a use left.
LEMMA ReadInviteOK ==
    ASSUME Inv, NEW c \in Call, ReadInvite(c)
    PROVE  Inv'
<1> DEFINE h == call[c].heartbeat
<1>1. call[c] \in CallState /\ call[c].op = "invite" /\ CallOK(call[c]) /\ now \in Nat
      /\ UNCHANGED <<traffic, now, invites, linkers, granted, disturbed>>
  BY DEF ReadInvite, Inv, TypeOK
<1>2. h \in Heartbeat /\ h.token \in Token /\ h.secret \in Secret /\ call[c].at \in Nat
      /\ Timely(call[c]) /\ FirstOK(call[c])
  BY <1>1, CallShape DEF CallOK, FirstOK
<1>3. CASE ~Usable(invites[h.token])
  <2>1. End(c)
    BY <1>3 DEF ReadInvite
  <2> QED BY <1>1, <2>1, EndQuietOK DEF Inv, TypeOK
<1>4. CASE Usable(invites[h.token])
  <2>1. PICK i \in LinkerInvite : i = invites[h.token]
    BY <1>2, <1>4 DEF Inv, TypeOK, Usable
  <2>2. PICK s \in CallState :
            s = [op |-> "register", heartbeat |-> h, invite |-> i, at |-> call[c].at]
    BY <1>2, <2>1 DEF CallState
  <2>3. call' = [call EXCEPT ![c] = s]
    BY <1>4, <2>1, <2>2 DEF ReadInvite
  <2>4. Touches(s) \subseteq Touches(call[c])
    BY <1>1, <2>2, TouchesOf
  <2>5. i.term.expires_at \in Nat /\ Len(i.used_by) < i.term.max_uses
        /\ i.term.expires_at >= now /\ Stands(h.token)
    BY <1>4, <2>1, InviteShape DEF Usable, Stands
  <2>6. CallOK(s)
    <3>1. Timely(s)
      BY <1>2, <2>2 DEF Timely
    <3>2. FirstOK(s) /\ CopyOK(s)
      BY <1>1, <1>2, <2>2 DEF FirstOK, CopyOK
    <3>3. InviteOK(s)
      BY <1>1, <1>2, <2>1, <2>2, <2>5 DEF InviteOK, Stands, Issued, Timely
    <3> QED BY <3>1, <3>2, <3>3 DEF CallOK
  <2>7. CallOK(s)'
    BY <1>1, <2>6 DEF CallOK, Timely, FirstOK, InviteOK, CopyOK, Issued, Stands
  <2> QED BY <1>1, <2>2, <2>3, <2>4, <2>7, QuietOK DEF Inv, TypeOK
<1> QED BY <1>3, <1>4

\* GetListed: a join holds URLs it has read, and no entry.
LEMMA GetListedOK ==
    ASSUME Inv, NEW c \in Call, GetListed(c)
    PROVE  Inv'
<1>1. call[c] \in CallState /\ call[c].op = "notify" /\ CallOK(call[c])
      /\ UNCHANGED <<traffic, now, invites, linkers, granted, disturbed>>
  BY DEF GetListed, Inv, TypeOK
<1>2. PICK k \in call[c].names :
        call' = [call EXCEPT ![c].names = @ \ {k},
                    ![c].read = IF linkers[k] = None THEN @
                                ELSE @ \cup {<<k, linkers[k].url>>}]
  BY DEF GetListed
<1>3. /\ call[c].names \in SUBSET Linker /\ call[c].read \in SUBSET (Linker \X Url)
      /\ call[c].at \in Nat
  BY <1>1, CallShape
<1>4. PICK rd \in SUBSET (Linker \X Url) :
          rd = IF linkers[k] = None THEN call[c].read
               ELSE call[c].read \cup {<<k, linkers[k].url>>}
  <2>1. CASE linkers[k] = None
    BY <1>3, <2>1
  <2>2. CASE linkers[k] # None
    <3>1. k \in Linker /\ linkers[k] \in RegisteredLinker
      BY <1>3, <2>2 DEF Inv, TypeOK
    <3>2. <<k, linkers[k].url>> \in Linker \X Url
      BY <3>1 DEF RegisteredLinker
    <3>3. call[c].read \cup {<<k, linkers[k].url>>} \in SUBSET (Linker \X Url)
      BY <1>3, <3>2
    <3> QED BY <2>2, <3>3
  <2> QED BY <2>1, <2>2
<1>5. PICK s : s = [call[c] EXCEPT !.names = call[c].names \ {k}, !.read = rd]
  OBVIOUS
<1>6. s \in CallState /\ s.op = "notify" /\ s.at = call[c].at
      /\ call' = [call EXCEPT ![c] = s]
  <2>1. call[c] \in [op : {"notify"}, names : SUBSET Linker,
                     read : SUBSET (Linker \X Url), at : Nat]
    BY <1>1 DEF CallState, Idle
  <2>2. /\ s \in [op : {"notify"}, names : SUBSET Linker,
                  read : SUBSET (Linker \X Url), at : Nat]
        /\ s.at = call[c].at
    BY <1>3, <1>5, <2>1
  <2>3. s \in CallState /\ s.op = "notify"
    BY <2>2 DEF CallState
  <2> QED BY <1>2, <1>4, <1>5, <2>2, <2>3 DEF Inv, TypeOK
<1>7. Touches(s) = {}
  BY <1>6, TouchesOf
<1>8. CallOK(s)'
  BY <1>1, <1>6 DEF CallOK, Timely, FirstOK, InviteOK, CopyOK
<1> QED BY <1>1, <1>6, <1>7, <1>8, QuietOK DEF Inv, TypeOK

\* Authorize and Stop end a call and write no entry.
LEMMA AuthorizeOK ==
    ASSUME Inv, NEW c \in Call, Authorize(c)
    PROVE  Inv'
<1>1. PICK ks \in SUBSET {e[1] : e \in Merged(call[c].read)} : Grant(ks, ConfigCapabilities)
  BY DEF Authorize
<1>2. granted' \in [Linker -> SUBSET Capability]
  BY <1>1, LinkerAssumption DEF Grant, Inv, TypeOK
<1> QED BY <1>2, EndQuietOK DEF Authorize, Inv, TypeOK

\* A call that stops keeps the invariant.
LEMMA StopOK ==
    ASSUME Inv, NEW c \in Call, Stop(c)
    PROVE  Inv'
<1>1. call[c].op = "count" => call[c].heartbeat.token \in Token
  BY CallShape DEF Inv, TypeOK, CallOK, FirstOK
<1> QED BY <1>1, EndQuietOK DEF Stop, Inv, TypeOK

----------------------------------------------------------------------------
(* The theorems *)

\* The invariant holds at first.
LEMMA InitOK == Init => Inv
<1> SUFFICES ASSUME Init PROVE Inv
  OBVIOUS
<1>1. \A c \in Call : call[c] = Idle /\ call[c] \in CallState /\ CallOK(call[c])
  BY DEF Init, CallState, CallOK, Idle
<1>2. \A t \in Token : ~Stands(t)
  BY DEF Init, Stands
<1>3. TypeOK
  BY <1>1 DEF Init, TypeOK
<1>4. Alone
  BY <1>1, TouchesOf DEF Alone, Idle
<1> QED BY <1>1, <1>2, <1>3, <1>4 DEF Init, Inv, FromInvite, Counted, LeaseKept

\* Every step keeps the invariant.
LEMMA NextOK == Inv /\ [Next]_vars => Inv'
<1> SUFFICES ASSUME Inv, [Next]_vars PROVE Inv'
  OBVIOUS
<1>1. ASSUME NEW c \in Call, CallStep(c)
      PROVE  Inv'
  BY <1>1, ReceiveHeartbeatOK, ReadInviteOK, RegisterOK, CountUseOK, WriteBackOK,
     PlainBeginOK, RevokeOK, PatchLinkerOK, DeleteOK, GetListedOK, AuthorizeOK, StopOK
     DEF CallStep
<1>2. CASE UNCHANGED vars
  BY <1>2 DEF vars, Inv, TypeOK, CallOK, Timely, FirstOK, InviteOK, CopyOK, Issued, Stands,
     Alone, Touches, FromInvite, Counted, LeaseKept
<1> QED BY <1>1, <1>2, CreateInviteOK, TickOK DEF Next

\* The invariant holds of every behaviour, for any linkers, invites and calls.
THEOREM Invariance == Spec => []Inv
<1> QED BY InitOK, NextOK, PTL DEF Spec

\* Every variable keeps its type: an expiry stays a time, a copy a registration.
THEOREM TypeCorrect == Spec => []TypeOK
<1>1. Inv => TypeOK
  BY DEF Inv
<1> QED BY <1>1, Invariance, PTL

\* A registration ends when its last heartbeat says, whatever calls race on it.
THEOREM LeasesEnd == Spec => []LeaseKept
<1>1. Inv => LeaseKept
  BY DEF Inv
<1> QED BY <1>1, Invariance, PTL

\* Every linker of the pool is counted in its invite, no invite too often.
THEOREM UsesAreCounted == Spec => []UsesCounted
<1>1. Inv => UsesCounted
  BY DEF Inv, Counted, UsesCounted, Stands
<1> QED BY <1>1, Invariance, PTL

\* What a step may write of the pool: a registration by an invite that has a
\* use left, or a copy that was read of it.
PoolStep ==
    \A k \in Linker \ disturbed' : linkers'[k] # None =>
        \/ linkers'[k] = linkers[k]
        \/ /\ linkers[k] # None
           /\ linkers'[k].last_heartbeat >= linkers[k].last_heartbeat
        \/ /\ linkers[k] = None
           /\ LET t == linkers'[k].invite_token IN
                t \in disturbed' \/
                (/\ invites[t] \notin {None, Unissued}
                 /\ invites[t].term.expires_at >= now - Latency
                 /\ Len(invites[t].used_by) < invites[t].term.max_uses)

\* Every step of the service is one the pool allows.
LEMMA PoolStepTaken == Inv /\ [Next]_vars => PoolStep
<1> SUFFICES ASSUME Inv, [Next]_vars PROVE PoolStep
  OBVIOUS
<1>1. ASSUME NEW c \in Call, Register(c)
      PROVE  PoolStep
  <2> DEFINE h == call[c].heartbeat
             i == call[c].invite
  <2>1. call[c] \in CallState /\ call[c].op = "register" /\ CallOK(call[c]) /\ now \in Nat
        /\ invites' = invites /\ disturbed' = disturbed
    BY <1>1 DEF Register, Inv, TypeOK
  <2>2. /\ i \in LinkerInvite /\ h.pubkey \in Linker /\ call[c].at \in Nat
        /\ Timely(call[c]) /\ InviteOK(call[c]) /\ FirstOK(call[c])
    BY <2>1, CallShape DEF CallOK, Heartbeat
  <2>3. /\ linkers'[h.pubkey].invite_token = h.token
        /\ \A k \in Linker : k # h.pubkey => linkers'[k] = linkers[k]
    BY <1>1, <2>2 DEF Register, Put, Inv, TypeOK
  <2>4. i.term.expires_at >= now - Latency
    BY <2>1, <2>2, InviteShape, LinkerAssumption DEF Timely, InviteOK
  <2>5. h.token \notin disturbed => Stands(h.token) /\ invites[h.token] = i
        /\ Len(i.used_by) < i.term.max_uses
    BY <2>1, <2>2 DEF InviteOK
  <2>6. h.pubkey \notin disturbed => linkers[h.pubkey] = None
    BY <2>1, <2>2 DEF FirstOK
  <2> QED BY <2>1, <2>3, <2>4, <2>5, <2>6 DEF PoolStep, Stands
<1>2. ASSUME NEW c \in Call, Renew(c) \/ Patch(c)
      PROVE  PoolStep
  <2>1. call[c] \in CallState /\ call[c].op \in {"renew", "patch"} /\ CallOK(call[c])
        /\ disturbed' = disturbed
    BY <1>2 DEF Renew, Patch, Inv, TypeOK
  <2>2. call[c].to \in RegisteredLinker /\ call[c].pubkey \in Linker
        /\ call[c].to.last_heartbeat \in Nat
    BY <2>1, CallShape DEF RegisteredLinker
  <2>3. PICK e : Put(call[c].pubkey, [call[c].to EXCEPT !.expires = e])
    BY <1>2 DEF Renew, Patch
  <2>4. /\ linkers'[call[c].pubkey].last_heartbeat = call[c].to.last_heartbeat
        /\ \A k \in Linker : k # call[c].pubkey => linkers'[k] = linkers[k]
    BY <2>2, <2>3 DEF Put, Inv, TypeOK, RegisteredLinker
  <2>5. call[c].pubkey \notin disturbed =>
            /\ linkers[call[c].pubkey] # None
            /\ linkers[call[c].pubkey].last_heartbeat <= call[c].to.last_heartbeat
    BY <2>1 DEF CallOK, CopyOK
  <2>6. linkers[call[c].pubkey] # None => linkers[call[c].pubkey].last_heartbeat \in Nat
    BY <2>2 DEF Inv, TypeOK, RegisteredLinker
  <2> QED BY <2>1, <2>2, <2>4, <2>5, <2>6 DEF PoolStep
<1>3. ASSUME NEW c \in Call, Delete(c)
      PROVE  PoolStep
  BY <1>3, CallShape DEF Delete, Put, PoolStep, Inv, TypeOK
<1>4. CASE Tick
  BY <1>4 DEF Tick, PoolStep
<1>5. CASE linkers' = linkers
  BY <1>5 DEF PoolStep
<1>6. ASSUME NEW c \in Call, CallStep(c), linkers' # linkers
      PROVE  Register(c) \/ Renew(c) \/ Patch(c) \/ Delete(c)
  BY <1>6 DEF CallStep, ReceiveHeartbeat, ReadInvite, CountUse, Deregister, DeleteInvite,
     Revoke, PatchLinker, DeleteLinker, ListLinkers, GetListed, Authorize, Stop, Begin
<1> QED BY <1>1, <1>2, <1>3, <1>4, <1>5, <1>6 DEF Next, CreateInvite, vars

\* However late a heartbeat arrives, it never takes a registration back.
THEOREM HeartbeatsMonotonic == Spec => HeartbeatsInOrder
<1>1. Inv /\ [Next]_vars =>
          [\A k \in Linker \ disturbed' :
              linkers[k] # None /\ linkers'[k] # None =>
                  linkers'[k].last_heartbeat >= linkers[k].last_heartbeat]_vars
  <2> SUFFICES ASSUME Inv, [Next]_vars, NEW k \in Linker \ disturbed',
                      linkers[k] # None, linkers'[k] # None
               PROVE  linkers'[k].last_heartbeat >= linkers[k].last_heartbeat
    OBVIOUS
  <2>1. linkers[k].last_heartbeat \in Nat
    BY DEF Inv, TypeOK, RegisteredLinker
  <2> QED BY <2>1, PoolStepTaken DEF PoolStep
<1> QED BY <1>1, Invariance, PTL DEF Spec, HeartbeatsInOrder

\* A linker that left the pool comes back only by an invite with a use left.
THEOREM InviteNeeded == Spec => BackOnlyByInvite
<1>1. Inv /\ [Next]_vars =>
          [\A k \in Linker \ disturbed' :
              linkers[k] = None /\ linkers'[k] # None =>
                  LET t == linkers'[k].invite_token IN
                      t \in disturbed' \/
                      (/\ invites[t] \notin {None, Unissued}
                       /\ invites[t].term.expires_at >= now - Latency
                       /\ Len(invites[t].used_by) < invites[t].term.max_uses)]_vars
  BY PoolStepTaken DEF PoolStep
<1> QED BY <1>1, Invariance, PTL DEF Spec, BackOnlyByInvite

=============================================================================
