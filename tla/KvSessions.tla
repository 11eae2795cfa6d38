---------------------------- MODULE KvSessions ----------------------------
(***************************************************************************)
(* Sessions in Cloudflare Workers KV (KvSessionStore).  A session is       *)
(* several keys: the session, the index entry of its (agent, network), and *)
(* one entry for each link token it has emailed.  A store call reads, and  *)
(* then writes these keys one after the other; other calls act between two *)
(* writes, and a call may stop there.                                      *)
(*                                                                         *)
(* Abstracted: what a call reads it reads at once, when it begins, and the *)
(* end of a key is computed then; a read sees the last write, which        *)
(* Cloudflare does not promise; a session is its status, its times and its *)
(* tokens.  The callers are the handlers of JoinService and LinkChallenge. *)
(***************************************************************************)
EXTENDS Integers, Sequences, FiniteSets, SequencesExt

CONSTANTS
    Scope,       \* pairs of an agent and a network
    Sid,         \* session ids, each used once
    TokenHash,   \* hashes of link tokens, each used once
    LinkConfig,  \* do sessions hold a link challenge: {TRUE}, {FALSE} or both
    KvCall,      \* the store calls that may be in flight together
    PendingTtl,  \* pendingTtlSeconds, and the life of a link challenge
    MinAhead,    \* the 60 seconds KV wants an expiration to be ahead
    MaxSecond    \* bound: the clock stops here

\* What a configuration is.
ASSUME KvAssumption ==
    /\ LinkConfig \subseteq BOOLEAN
    /\ PendingTtl \in Nat \ {0} /\ MinAhead \in Nat /\ MaxSecond \in Nat
    /\ IsFiniteSet(TokenHash)

Key == ({"session"} \X Sid) \cup ({"agent"} \X Scope) \cup ({"link"} \X TokenHash)

SessionData == [id : Sid, scope : Scope, status : {"pending", "ready", "rejected"},
                created_at : 0 .. MaxSecond, hashes : SUBSET TokenHash]

NoKey == [there |-> FALSE]
Forever == MaxSecond + PendingTtl + MinAhead + 1

\* What a key holds, and when KV drops it.
Entry == [value : SessionData \cup Sid, ends : 0 .. Forever]

\* A write yet to be made: NoKey deletes the key.
PendingWrite == [key : Key, entry : Entry \cup {NoKey}]

VARIABLES
    links,   \* whether sessions hold a link challenge, chosen once
    second,  \* the clock
    kv,      \* the KV namespace
    todo,    \* the writes each call in flight has yet to make
    within,  \* the scope each call is about
    issued,  \* the session ids and token hashes that were given out
    mixed    \* ghost: scopes in which two calls overlapped, or one stopped or was slow

kvVars == <<links, second, kv, todo, within, issued, mixed>>

KvTypeOK ==
    /\ links \in LinkConfig /\ second \in 0 .. MaxSecond
    /\ kv \in [Key -> Entry \cup {NoKey}]
    /\ todo \in [KvCall -> Seq(PendingWrite)]
    /\ within \in [KvCall -> Scope]
    /\ issued \subseteq Sid \cup TokenHash
    /\ mixed \subseteq Scope

KvInit ==
    /\ links \in LinkConfig
    /\ second = 0
    /\ kv = [k \in Key |-> NoKey]
    /\ todo = [c \in KvCall |-> <<>>]
    /\ within \in [KvCall -> Scope]
    /\ issued = {} /\ mixed = {}

----------------------------------------------------------------------------
(* The store's reads *)

\* pendingExpiresAt and isExpired.
ExpiresAt(s) == s.created_at + PendingTtl
IsExpired(s) == s.status # "ready" /\ second > ExpiresAt(s)

\* KvSessionStore.get: only a session that holds a link is looked at for its age.
Live(sid) ==
    /\ kv[<<"session", sid>>] # NoKey
    /\ ~(links /\ IsExpired(kv[<<"session", sid>>].value))

Get(sid) == kv[<<"session", sid>>].value

\* findByAgentKey: the session the index entry names, if it is there.
Found(x) ==
    LET i == kv[<<"agent", x>>] IN
        IF i = NoKey THEN {} ELSE {sid \in {i.value} : Live(sid)}

\* findByLinkHash: the session must still hold the hash.
FoundByLink(h) ==
    LET i == kv[<<"link", h>>] IN
        IF i = NoKey THEN {}
        ELSE {sid \in {i.value} : Live(sid) /\ h \in Get(sid).hashes}

----------------------------------------------------------------------------
(* The store's writes *)

Latest(a, b) == IF a > b THEN a ELSE b

\* kvOptions.
Ends(s) ==
    IF s.status = "ready" THEN Forever
    ELSE IF links THEN Latest(ExpiresAt(s), second + MinAhead)
    ELSE second + PendingTtl

Put(k, v, ends) == [key |-> k, entry |-> [value |-> v, ends |-> ends]]
Del(k) == [key |-> k, entry |-> NoKey]

PutHashes(s, hs) == [i \in 1 .. Cardinality(hs) |->
                        Put(<<"link", SetToSeq(hs)[i]>>, s.id, Ends(s))]

CreateWrites(s) ==
    <<Put(<<"session", s.id>>, s, Ends(s)), Put(<<"agent", s.scope>>, s.id, Ends(s))>>
      \o PutHashes(s, s.hashes)

\* Mutant: the index entry is left alone.
UpdateUnindexed(old, new) ==
    <<Put(<<"session", new.id>>, new, Ends(new))>> \o PutHashes(new, new.hashes \ old.hashes)

\* Mutant: the hash of a resent link is not indexed.
UpdateNoHashes(old, new) ==
    <<Put(<<"session", new.id>>, new, Ends(new)), Put(<<"agent", new.scope>>, new.id, Ends(new))>>

\* update: the index entry is written again only when the status is.
UpdateWrites(old, new) ==
    <<Put(<<"session", new.id>>, new, Ends(new))>>
      \o (IF new.status # old.status
          THEN <<Put(<<"agent", new.scope>>, new.id, Ends(new))>> ELSE <<>>)
      \o PutHashes(new, new.hashes \ old.hashes)

DeleteWrites(s) ==
    <<Del(<<"agent", s.scope>>)>>
      \o [i \in 1 .. Cardinality(s.hashes) |-> Del(<<"link", SetToSeq(s.hashes)[i]>>)]
      \o <<Del(<<"session", s.id>>)>>

KvInFlight(x) == {c \in KvCall : todo[c] # <<>> /\ within[c] = x}

Begin(c, x, writes) ==
    /\ todo[c] = <<>>
    /\ todo' = [todo EXCEPT ![c] = writes]
    /\ within' = [within EXCEPT ![c] = x]
    /\ mixed' = mixed \cup {y \in {x} : KvInFlight(x) # {}}
    /\ UNCHANGED <<links, second, kv>>

\* A call makes its next write.
Write(c) ==
    /\ todo[c] # <<>>
    /\ kv' = [kv EXCEPT ![Head(todo[c]).key] = Head(todo[c]).entry]
    /\ todo' = [todo EXCEPT ![c] = Tail(@)]
    /\ UNCHANGED <<links, second, within, issued, mixed>>

\* A call stops between two writes.
StopWriting(c) ==
    /\ todo[c] # <<>>
    /\ todo' = [todo EXCEPT ![c] = <<>>]
    /\ mixed' = mixed \cup {within[c]}
    /\ UNCHANGED <<links, second, kv, within, issued>>

----------------------------------------------------------------------------
(* The handlers that call the store *)

\* A join: refused if the agent's session is ready; another one is replaced.
Join(c) ==
    \E x \in Scope, sid \in Sid, st \in {"pending", "ready"},
       hs \in {s \in SUBSET TokenHash : Cardinality(s) = IF links THEN 1 ELSE 0} :
        /\ ({sid} \cup hs) \cap issued = {}
        /\ \A old \in Found(x) : Get(old).status # "ready"
        /\ LET new == [id |-> sid, scope |-> x, status |-> st,
                       created_at |-> second, hashes |-> hs]
           IN  Begin(c, x, IF Found(x) = {} THEN CreateWrites(new)
                   ELSE DeleteWrites(Get(CHOOSE old \in Found(x) : TRUE))
                          \o CreateWrites(new))
        /\ issued' = issued \cup {sid} \cup hs

\* A join that is refused after it deleted the agent's earlier session: a pending
\* one that holds a link is deleted only when the new one is written.
RefusedJoin(c) ==
    \E x \in Scope : \E old \in Found(x) :
        /\ Get(old).status = "rejected" \/ (Get(old).status = "pending" /\ ~links)
        /\ Begin(c, x, DeleteWrites(Get(old)))
        /\ UNCHANGED issued

\* A handler that has the session's id updates it: an answer that is recorded,
\* a resent link with a new token, a session that becomes ready or rejected, and
\* provision's rejection of a ready session whose agent was blocked.
Update(c) ==
    \E sid \in Sid, st \in {"pending", "ready", "rejected"},
       hs \in {s \in SUBSET TokenHash : Cardinality(s) <= IF links THEN 1 ELSE 0} :
        /\ hs \cap issued = {}
        /\ Live(sid)
        /\ Get(sid).status = "pending" \/ (Get(sid).status = "ready" /\ st = "rejected")
        /\ Begin(c, Get(sid).scope, UpdateWrites(Get(sid),
               [Get(sid) EXCEPT !.status = st, !.hashes = @ \cup hs]))
        /\ issued' = issued \cup hs

\* Time passes and KV drops the keys that have ended.
PassSecond ==
    /\ second < MaxSecond
    /\ second' = second + 1
    /\ kv' = [k \in Key |-> IF kv[k] # NoKey /\ kv[k].ends <= second THEN NoKey ELSE kv[k]]
    /\ mixed' = mixed \cup {x \in Scope : KvInFlight(x) # {}}
    /\ UNCHANGED <<links, todo, within, issued>>

KvNext ==
    \/ \E c \in KvCall : Join(c) \/ RefusedJoin(c) \/ Update(c) \/ Write(c) \/ StopWriting(c)
    \/ PassSecond

KvSpec == KvInit /\ [][KvNext]_kvVars

----------------------------------------------------------------------------
(* Properties, of scopes whose calls were made one after the other and took no
   time: what two overlapping calls leave behind is JoinService's subject *)

Quiet(x) == x \notin mixed /\ KvInFlight(x) = {}

\* An agent's live session is the one its index entry leads to: an agent holds
\* one, and resume and reconnect find it.  A ready session ends no more, and its
\* index entry with it.
LiveIsFound ==
    \A sid \in Sid : links /\ Live(sid) /\ Quiet(Get(sid).scope) =>
        /\ Found(Get(sid).scope) = {sid}
        /\ Get(sid).status = "ready" =>
               kv[<<"session", sid>>].ends = Forever /\ kv[<<"agent", Get(sid).scope>>].ends = Forever

\* Every link emailed for a session that is not ready opens it until it expires,
\* however often the link was resent.
LinksOpen ==
    \A sid \in Sid : links /\ Live(sid) /\ Get(sid).status # "ready"
                     /\ Quiet(Get(sid).scope) =>
        \A h \in Get(sid).hashes : FoundByLink(h) = {sid}

\* store.ts: an agent may hold at most one live session per network.
AgentHoldsOne ==
    \A sid, other \in Sid :
        /\ Live(sid) /\ Live(other) /\ Get(sid).scope = Get(other).scope
        /\ Quiet(Get(sid).scope)
        => sid = other

=============================================================================
