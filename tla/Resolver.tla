------------------------------ MODULE Resolver ------------------------------
(***************************************************************************)
(* The queries of all transports (dns_server.go resolveDNS) and the        *)
(* response cache they share (upstream.go): policy by client, schedule and *)
(* blocklist on one side, answers kept for everybody on the other.         *)
(*                                                                         *)
(* A query holds cfgMu.RLock until it has its reply (ConfigTransactions),  *)
(* so no commit comes between; time passes, though, and queries overlap,   *)
(* also between getCached's look at the clock and its look at the cache.   *)
(* What upstreams answer is Upstreams' matter: here, anything.             *)
(***************************************************************************)
EXTENDS Integers, FiniteSets

CONSTANTS Queries,   \* the goroutines that resolve
          Clients,
          Names,      \* cache keys: a name, a type and the flags of a query
          Addresses,  \* what an answer holds
          SERVFAIL,   \* an answer that is a server failure
          CacheSize,  \* cfg.CacheSize
          CacheTTL,   \* cfg.CacheTTL, in seconds
          MaxTTL,     \* a bound on the TTLs of upstreams
          PerSecond,  \* ticks of the clock in a second
          MaxClock,   \* a bound on the clock
          Uint32      \* how many values a uint32 has: 2^32 (less for TLC)

ASSUME CacheOK == CacheSize \in Nat \ {0} /\ CacheTTL \in Nat \ {0} /\ MaxTTL \in Nat

ASSUME ClockOK == /\ PerSecond \in Nat \ {0} /\ MaxClock \in Nat
                  /\ Uint32 \in Nat /\ MaxTTL < Uint32

ASSUME SERVFAILOK == SERVFAIL \notin Addresses

VARIABLES
  denied,      \* the pairs of client and name that blockDecision blocks now
  blockedIPs,  \* d.cfg.BlockedIPs
  passThrough, \* d.cfg.ResolverDisabled
  clock,       \* what time.Now says, in ticks: it never goes back
  cache,       \* d.cache
  pending,     \* the queries in flight
  replies      \* the queries that have their reply and still hold the lock

policy == <<denied, blockedIPs, passThrough>>
vars == <<policy, clock, cache, pending, replies>>

(* banned is what blockDecision said, or would have; cacheable what        *)
(* cacheKeyForMessage says; now is the clock as getCached has read it, and *)
(* 0 before and after getCached.                                           *)
Query == [id : Queries, name : Names, banned : BOOLEAN, cacheable : BOOLEAN,
          step : {"direct", "getCached", "lookup", "forward"}, now : 0..MaxClock]

(* A reply; its answer is an address for the last three of its actions.    *)
Reply == [id : Queries, banned : BOOLEAN,
          action : {"local", "denied", "blocked", "error", "direct", "cached", "forwarded"},
          answer : Addresses \cup {SERVFAIL}, ttl : 0..MaxTTL]

Entry == [name : Names, answer : Addresses \cup {SERVFAIL}, ttl : 1..MaxTTL,
          storedAt : 0..MaxClock]

TypeOK ==
  /\ denied \subseteq Clients \X Names
  /\ blockedIPs \subseteq Addresses
  /\ passThrough \in BOOLEAN
  /\ clock \in 0..MaxClock
  /\ cache \subseteq Entry
  /\ Cardinality(cache) <= CacheSize
  /\ pending \subseteq Query
  /\ replies \subseteq Reply

Init ==
  /\ denied = {}
  /\ blockedIPs = {}
  /\ passThrough = FALSE
  /\ clock = 0
  /\ cache = {}
  /\ pending = {}
  /\ replies = {}

Free(i) == \A x \in pending \cup replies : x.id # i

-----------------------------------------------------------------------------
(* The order of the decisions.                                             *)

Says(i, banned, action, answer, ttl) ==
  replies' = replies \cup {[id |-> i, banned |-> banned, action |-> action,
                            answer |-> answer, ttl |-> ttl]}

(* A mutant: the cache is read before the policy. *)
CacheFirst(c, n) == IF \E e \in cache : e.name = n THEN "getCached"
                    ELSE IF passThrough THEN "direct"
                    ELSE IF <<c, n>> \in denied THEN "blocked" ELSE "getCached"

(* What becomes of a query that nothing local answers. *)
Decision(c, n) == IF passThrough THEN "direct"
                  ELSE IF <<c, n>> \in denied THEN "blocked" ELSE "getCached"

(* The portal, the rate limit and the access policy come before pass-      *)
(* through, safe search and local records after it.                        *)
AnswerLocally(i, c, n) ==
  /\ Free(i)
  /\ \E action \in {"local", "denied"} :
       Says(i, <<c, n>> \in denied, action, SERVFAIL, 0)
  /\ UNCHANGED <<policy, clock, cache, pending>>

Ask(i, c, n, cacheable) ==
  /\ Free(i)
  /\ LET banned == <<c, n>> \in denied
         step == Decision(c, n) IN
       IF step = "blocked"
       THEN Says(i, banned, "blocked", SERVFAIL, 0) /\ UNCHANGED pending
       ELSE /\ pending' = pending \cup
                 {[id |-> i, name |-> n, banned |-> banned, cacheable |-> cacheable,
                   step |-> IF step = "getCached" /\ ~cacheable THEN "forward" ELSE step,
                   now |-> 0]}
            /\ UNCHANGED replies
  /\ UNCHANGED <<policy, clock, cache>>

Becomes(x, y) == pending' = (pending \ {x}) \cup {y}

(* getCached looks at the clock before it asks for cacheMu: until it has   *)
(* it, time passes, and other queries store what is newer.                 *)
ReadClock(x) ==
  /\ x.step = "getCached"
  /\ Becomes(x, [x EXCEPT !.step = "lookup", !.now = clock])
  /\ UNCHANGED <<policy, clock, cache, replies>>

(* A mutant: an answer is good in the tick it expires in. *)
ExpiresLate(e, now) == now > e.storedAt + e.ttl * PerSecond
                         \/ now > e.storedAt + CacheTTL * PerSecond

(* expiresAt has come: messageCacheTTL caps the TTL of the answer by the   *)
(* configured one.                                                         *)
Expired(e, now) == now >= e.storedAt + e.ttl * PerSecond
                     \/ now >= e.storedAt + CacheTTL * PerSecond

(* Go divides towards zero. *)
Seconds(ticks) == IF ticks >= 0 THEN ticks \div PerSecond ELSE -((-ticks) \div PerSecond)

(* Converted to a uint32, a negative number of seconds is a huge one.      *)
Elapsed(e, now) == Seconds(now - e.storedAt) % Uint32

(* decrementMessageTTL. *)
Aged(ttl, elapsed) == IF ttl > elapsed THEN ttl - elapsed ELSE 0

(* getCached deletes what has expired; a hit is looked at once more for    *)
(* blocked addresses.                                                      *)
Lookup(x) ==
  LET stored == {e \in cache : e.name = x.name}
      hits == {e \in stored : ~Expired(e, x.now)} IN
    /\ x.step = "lookup"
    /\ cache' = cache \ (stored \ hits)
    /\ IF hits = {}
       THEN /\ Becomes(x, [x EXCEPT !.step = "forward", !.now = 0])
            /\ UNCHANGED replies
       ELSE /\ pending' = pending \ {x}
            /\ \E e \in hits :
                 IF e.answer \in blockedIPs
                 THEN Says(x.id, x.banned, "blocked", SERVFAIL, 0)
                 ELSE Says(x.id, x.banned, "cached", e.answer, Aged(e.ttl, Elapsed(e, x.now)))
    /\ UNCHANGED <<policy, clock>>

(* A mutant: room is made for a new key only when the cache is overfull. *)
EvictLate == IF Cardinality(cache) <= CacheSize THEN {cache} ELSE {cache \ {e} : e \in cache}

(* setCache makes room before it knows whether it stores anything. *)
Evict == IF Cardinality(cache) < CacheSize THEN {cache} ELSE {cache \ {e} : e \in cache}

Store(n, answer, ttl) ==
  \E rest \in Evict :
    cache' = IF ttl = 0 THEN rest
             ELSE {e \in rest : e.name # n}
                    \cup {[name |-> n, answer |-> answer, ttl |-> ttl, storedAt |-> clock]}

(* forward has returned what an upstream answered, or a server failure: a  *)
(* ttl of 0 stands for all that messageCacheTTL does not cache.            *)
Answered(x, answer, ttl) ==
  /\ x.step = "forward"
  /\ pending' = pending \ {x}
  /\ IF answer \in blockedIPs
     THEN Says(x.id, x.banned, "blocked", SERVFAIL, 0)
     ELSE Says(x.id, x.banned, IF answer = SERVFAIL THEN "error" ELSE "forwarded", answer, ttl)
  /\ IF answer \in blockedIPs \/ answer = SERVFAIL \/ ~x.cacheable
     THEN UNCHANGED cache
     ELSE Store(x.name, answer, ttl)
  /\ UNCHANGED <<policy, clock>>

PassedThrough(x, answer, ttl) ==
  /\ x.step = "direct"
  /\ pending' = pending \ {x}
  /\ Says(x.id, x.banned, "direct", answer, ttl)
  /\ UNCHANGED <<policy, clock, cache>>

(* The lock is released and the reply written. *)
Release(r) ==
  /\ replies' = replies \ {r}
  /\ UNCHANGED <<policy, clock, cache, pending>>

-----------------------------------------------------------------------------
(* The surroundings.                                                       *)

(* A committed request (configGuard): no query is under way, and the cache *)
(* is cleared.                                                             *)
Commit ==
  /\ pending = {} /\ replies = {}
  /\ blockedIPs' \in SUBSET Addresses
  /\ passThrough' \in BOOLEAN
  /\ denied' \in SUBSET (Clients \X Names)
  /\ cache' = {}
  /\ UNCHANGED <<clock, pending, replies>>

(* A scheduled rule begins or ends at any moment, and a gravity run loads  *)
(* other lists: the cache stays.                                           *)
PolicyTurns ==
  /\ denied' \in SUBSET (Clients \X Names)
  /\ UNCHANGED <<blockedIPs, passThrough, clock, cache, pending, replies>>

Tick ==
  /\ clock < MaxClock
  /\ clock' = clock + 1
  /\ UNCHANGED <<policy, cache, pending, replies>>

Resolve == \/ \E i \in Queries, c \in Clients, n \in Names :
                AnswerLocally(i, c, n) \/ \E cacheable \in BOOLEAN : Ask(i, c, n, cacheable)
           \/ \E x \in pending :
                \/ ReadClock(x) \/ Lookup(x)
                \/ \E answer \in Addresses \cup {SERVFAIL}, ttl \in 0..MaxTTL :
                     Answered(x, answer, ttl) \/ PassedThrough(x, answer, ttl)
           \/ \E r \in replies : Release(r)

Next == Resolve \/ Commit \/ PolicyTurns \/ Tick

Spec == Init /\ [][Next]_vars

-----------------------------------------------------------------------------
(* Properties.                                                             *)

(* Whatever another client was answered and the cache has kept, a client   *)
(* gets no answer for a name that was blocked for it when it asked, and    *)
(* none that holds a blocked address.                                      *)
BlockedNeverAnswered ==
  \A r \in replies : r.action \in {"cached", "forwarded"} =>
                       ~r.banned /\ r.answer \notin blockedIPs

(* The lookup x answers with r what is cached as e. *)
Serves(x, r, e) == /\ Lookup(x)
                   /\ r.action = "cached" /\ r.id = x.id
                   /\ e.name = x.name /\ e.answer = r.answer

(* The TTL of r is what e's was, less e's age at most. *)
ReducedByAge(r, e) == (e.ttl - r.ttl) * PerSecond <= clock - e.storedAt

(* Another query stored e a second or more after x had read the clock.     *)
Overtaken(x, e) == e.storedAt - x.now >= PerSecond

(* A cached reply tells the client to keep it for some time yet, and its   *)
(* TTL has lost no more than its age, however long the query waited for    *)
(* cacheMu and whatever was stored meanwhile: but for an answer that was   *)
(* stored a second or more after the query had read the clock, whose age   *)
(* is negative and wraps (upstream.go:32).                                 *)
CachedRepliesAreAlive ==
  [][\A x \in pending, r \in replies' \ replies, e \in cache :
       Serves(x, r, e) => Overtaken(x, e) \/ (r.ttl > 0 /\ ReducedByAge(r, e))]_vars

(* The exception is no slack of the property: docs/CONFIGURATION.md:50 says *)
(* "Cached responses are returned with TTLs reduced by their age.", and    *)
(* what was overtaken is returned with none left, since the seconds by     *)
(* which it was wrap to more than any TTL.                                 *)
OvertakenRepliesAreDead ==
  [][\A x \in pending, r \in replies' \ replies, e \in cache :
       Serves(x, r, e) /\ Overtaken(x, e) /\ e.ttl - Seconds(x.now - e.storedAt) <= Uint32
         => r.ttl = 0]_vars

(* The cache holds no address that is blocked and no failure, pass-through *)
(* and commits included: the second look of Lookup never finds one.        *)
CacheIsChecked == \A e \in cache : e.answer \in Addresses \ blockedIPs
=============================================================================
