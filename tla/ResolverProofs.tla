--------------------------- MODULE ResolverProofs ---------------------------
(***************************************************************************)
(* What Resolver promises of replies and of the cache, for any number of   *)
(* queries and clients, any names, addresses, size of the cache and TTLs,  *)
(* however fine and far the clock counts.                                  *)
(***************************************************************************)
EXTENDS Resolver, FiniteSetTheorems, TLAPS

(***************************************************************************)
(* Types.                                                                  *)
(***************************************************************************)

Typed ==
  /\ denied \subseteq Clients \X Names
  /\ blockedIPs \subseteq Addresses
  /\ passThrough \in BOOLEAN
  /\ clock \in 0..MaxClock
  /\ cache \subseteq Entry
  /\ pending \subseteq Query
  /\ replies \subseteq Reply

SmallCache == IsFiniteSet(cache) /\ Cardinality(cache) <= CacheSize

(* What is left of the cache is no larger. *)
LEMMA FewerAnswers ==
  ASSUME SmallCache, cache' \subseteq cache PROVE SmallCache'
<1>1. IsFiniteSet(cache') /\ Cardinality(cache') <= Cardinality(cache)
  BY FS_Subset DEF SmallCache
<1> QED
  BY <1>1, FS_CardinalityType, CacheOK DEF CacheOK, SmallCache

(* setCache makes room for the answer it stores. *)
LEMMA StoreKeepsSize ==
  ASSUME SmallCache, NEW n, NEW answer, NEW ttl, Store(n, answer, ttl)
  PROVE  SmallCache'
<1> DEFINE new == [name |-> n, answer |-> answer, ttl |-> ttl, storedAt |-> clock]
<1>1. PICK rest \in Evict : cache' \subseteq rest \cup {new}
  BY DEF Store
<1>2. IsFiniteSet(rest) /\ Cardinality(rest) < CacheSize
  <2>1. CASE Cardinality(cache) < CacheSize
    BY <1>1, <2>1 DEF Evict, SmallCache
  <2>2. CASE ~(Cardinality(cache) < CacheSize)
    <3>1. PICK e \in cache : rest = cache \ {e}
      BY <1>1, <2>2 DEF Evict
    <3>2. IsFiniteSet(rest) /\ Cardinality(rest) = Cardinality(cache) - 1
      BY <3>1, FS_RemoveElement DEF SmallCache
    <3> QED
      BY <3>2, FS_CardinalityType, CacheOK DEF CacheOK, SmallCache
  <2> QED
    BY <2>1, <2>2
<1>3. /\ IsFiniteSet(rest \cup {new})
      /\ Cardinality(rest \cup {new}) <= CacheSize
  <2>1. /\ IsFiniteSet(rest \cup {new})
        /\ Cardinality(rest \cup {new}) \in {Cardinality(rest), Cardinality(rest) + 1}
    BY <1>2, FS_AddElement
  <2>2. Cardinality(rest) \in Nat
    BY <1>2, FS_CardinalityType
  <2> QED
    BY <1>2, <2>1, <2>2, CacheOK DEF CacheOK
<1>4. IsFiniteSet(cache') /\ Cardinality(cache') <= Cardinality(rest \cup {new})
  BY <1>1, <1>3, FS_Subset
<1> QED
  BY <1>3, <1>4, FS_CardinalityType, CacheOK DEF CacheOK, SmallCache

(* d.cache is a map. *)
OneEach == \A e, f \in cache : e.name = f.name => e = f

(* setCache stores an entry or nothing. *)
LEMMA StoreKeepsEntries ==
  ASSUME cache \subseteq Entry, clock \in 0..MaxClock, NEW n \in Names, NEW answer \in Addresses \cup {SERVFAIL},
         NEW ttl \in 0..MaxTTL, Store(n, answer, ttl)
  PROVE  /\ cache' \subseteq Entry
         /\ \A e \in cache' : e \in cache \/ (e.answer = answer /\ e.storedAt = clock)
         /\ OneEach => OneEach'
<1>1. PICK rest \in Evict :
        cache' = IF ttl = 0 THEN rest
                 ELSE {e \in rest : e.name # n}
                        \cup {[name |-> n, answer |-> answer, ttl |-> ttl, storedAt |-> clock]}
  BY DEF Store
<1>2. rest \subseteq cache
  BY DEF Evict
<1>3. ttl # 0 => [name |-> n, answer |-> answer, ttl |-> ttl, storedAt |-> clock] \in Entry
  BY CacheOK DEF CacheOK, Entry
<1> QED
  BY <1>1, <1>2, <1>3 DEF OneEach

LEMMA ReplyTyped ==
  ASSUME Typed, NEW i \in Queries, NEW banned \in BOOLEAN,
         NEW action \in {"local", "denied", "blocked", "error", "direct", "cached", "forwarded"},
         NEW answer \in Addresses \cup {SERVFAIL}, NEW ttl \in 0..MaxTTL,
         Says(i, banned, action, answer, ttl)
  PROVE  replies' \subseteq Reply
<1>1. [id |-> i, banned |-> banned, action |-> action, answer |-> answer, ttl |-> ttl] \in Reply
  BY DEF Reply
<1> QED
  BY <1>1 DEF Typed, Says

LEMMA AskTyped ==
  ASSUME Typed, NEW i \in Queries, NEW c \in Clients, NEW n \in Names,
         NEW cacheable \in BOOLEAN, Ask(i, c, n, cacheable)
  PROVE  Typed'
<1> DEFINE banned == <<c, n>> \in denied
           step == Decision(c, n)
           query == [id |-> i, name |-> n, banned |-> banned, cacheable |-> cacheable,
                     step |-> IF step = "getCached" /\ ~cacheable THEN "forward" ELSE step,
                     now |-> 0]
<1>0. banned \in BOOLEAN
  OBVIOUS
<1>1. 0 \in 0..MaxTTL
  BY CacheOK DEF CacheOK
<1>2. CASE step = "blocked"
  <2>1. Says(i, banned, "blocked", SERVFAIL, 0) /\ UNCHANGED pending
    BY <1>2 DEF Ask
  <2>2. replies' \subseteq Reply
    BY <1>0, <1>1, <2>1, ReplyTyped
  <2> QED
    BY <2>1, <2>2 DEF Ask, Typed, policy
<1>3. CASE step # "blocked"
  <2>1. pending' = pending \cup {query} /\ UNCHANGED replies
    BY <1>3 DEF Ask
  <2>2. step \in {"direct", "getCached"} /\ 0 \in 0..MaxClock
    BY <1>3, ClockOK DEF ClockOK, Decision
  <2>3. query \in Query
    BY <1>0, <2>2 DEF Query
  <2> QED
    BY <2>1, <2>3 DEF Ask, Typed, policy
<1> QED
  BY <1>2, <1>3

(***************************************************************************)
(* The arithmetic of ages.                                                 *)
(***************************************************************************)

LEMMA ProductsGrow ==
  ASSUME NEW a \in Nat, NEW b \in Nat, NEW c \in Nat, a <= b PROVE a * c <= b * c
<1>1. b - a \in Nat /\ b = a + (b - a)
  OBVIOUS
<1>2. PICK k \in Nat : b = a + k
  BY <1>1
<1>3. (a + k) * c = a * c + k * c
  OBVIOUS
<1>4. k * c \in Nat /\ a * c \in Nat
  OBVIOUS
<1> QED
  BY <1>2, <1>3, <1>4

(* What has lasted some time has lasted its whole seconds, and fewer of    *)
(* them than it ends before.                                               *)
LEMMA WholeSeconds ==
  ASSUME NEW ticks \in Nat
  PROVE  /\ Seconds(ticks) \in Nat
         /\ Seconds(ticks) * PerSecond <= ticks
         /\ \A ttl \in Nat : ticks < ttl * PerSecond => Seconds(ticks) < ttl
<1>1. /\ Seconds(ticks) \in Nat /\ PerSecond \in Nat
      /\ Seconds(ticks) * PerSecond <= ticks
  BY ClockOK DEF ClockOK, Seconds
<1>2. ASSUME NEW ttl \in Nat, ticks < ttl * PerSecond, ttl <= Seconds(ticks) PROVE FALSE
  <2>1. ttl * PerSecond <= Seconds(ticks) * PerSecond
    BY <1>1, <1>2, ProductsGrow
  <2>2. ttl * PerSecond \in Nat /\ Seconds(ticks) * PerSecond \in Nat
    BY <1>1
  <2> QED
    BY <1>1, <1>2, <2>1, <2>2
<1> QED
  BY <1>1, <1>2

(* Less than a second ahead is no second. *)
LEMMA PartOfASecond ==
  ASSUME NEW ticks \in Int, ticks < 0, -ticks < PerSecond PROVE Seconds(ticks) = 0
<1>1. -ticks \in Nat /\ PerSecond \in Nat \ {0}
  BY ClockOK DEF ClockOK
<1>2. (-ticks) \div PerSecond = 0
  BY <1>1
<1> QED
  BY <1>2 DEF Seconds

(* What a uint32 can hold, it holds. *)
LEMMA Converted ==
  ASSUME NEW n \in Int
  PROVE  /\ n % Uint32 \in Nat
         /\ n >= 0 /\ n < Uint32 => n % Uint32 = n
BY ClockOK, CacheOK DEF ClockOK, CacheOK

(* A few seconds ahead are as many short of what a uint32 can hold. *)
LEMMA Wrapped ==
  ASSUME NEW n \in Nat, n > 0, n < Uint32 PROVE (-n) % Uint32 = Uint32 - n
BY ClockOK DEF ClockOK

LEMMA ElapsedTyped ==
  ASSUME NEW e, NEW now, now - e.storedAt \in Int PROVE Elapsed(e, now) \in Nat
<1>1. \A ticks \in Int : Seconds(ticks) \in Int
  BY ClockOK DEF ClockOK, Seconds
<1> QED
  BY <1>1, Converted DEF Elapsed

LEMMA ReadClockTyped ==
  ASSUME Typed, NEW x \in pending, ReadClock(x) PROVE Typed'
<1>1. [x EXCEPT !.step = "lookup", !.now = clock] \in Query
  BY DEF Typed, Query
<1> QED
  BY <1>1 DEF ReadClock, Becomes, Typed, policy

LEMMA LookupTyped ==
  ASSUME Typed, NEW x \in pending, Lookup(x) PROVE Typed'
<1> DEFINE hits == {e \in cache : e.name = x.name /\ ~Expired(e, x.now)}
<1>1. x \in Query /\ cache' \subseteq cache
  BY DEF Typed, Lookup
<1>2. CASE hits = {}
  <2>1. /\ pending' = (pending \ {x}) \cup {[x EXCEPT !.step = "forward", !.now = 0]}
        /\ UNCHANGED replies
    BY <1>2 DEF Lookup, Becomes
  <2>2. 0 \in 0..MaxClock
    BY ClockOK DEF ClockOK
  <2>3. [x EXCEPT !.step = "forward", !.now = 0] \in Query
    BY <1>1, <2>2 DEF Query
  <2> QED
    BY <1>1, <2>1, <2>3 DEF Lookup, Typed, policy
<1>3. CASE hits # {}
  <2>1. pending' \subseteq pending
    BY <1>3 DEF Lookup
  <2>2. PICK e \in hits :
          IF e.answer \in blockedIPs
          THEN Says(x.id, x.banned, "blocked", SERVFAIL, 0)
          ELSE Says(x.id, x.banned, "cached", e.answer, Aged(e.ttl, Elapsed(e, x.now)))
    BY <1>3 DEF Lookup
  <2>3. /\ e \in Entry /\ 0 \in 0..MaxTTL
        /\ Aged(e.ttl, Elapsed(e, x.now)) \in 0..MaxTTL
    <3>1. x.now - e.storedAt \in Int /\ e.ttl \in 1..MaxTTL /\ e \in Entry
      BY <1>1, ClockOK DEF ClockOK, Typed, Entry, Query
    <3>2. Elapsed(e, x.now) \in Nat
      BY <3>1, ElapsedTyped
    <3> QED
      BY <3>1, <3>2, CacheOK DEF CacheOK, Aged
  <2>4. x.id \in Queries /\ e.answer \in Addresses \cup {SERVFAIL}
    BY <1>1, <2>3 DEF Query, Entry
  <2>5. x.banned \in BOOLEAN
    BY <1>1 DEF Query
  <2>6. replies' \subseteq Reply
    BY <2>2, <2>3, <2>4, <2>5, ReplyTyped
  <2> QED
    BY <1>1, <2>1, <2>6 DEF Lookup, Typed, policy
<1> QED
  BY <1>2, <1>3

LEMMA AnsweredTyped ==
  ASSUME Typed, NEW x \in pending, NEW answer \in Addresses \cup {SERVFAIL},
         NEW ttl \in 0..MaxTTL, Answered(x, answer, ttl)
  PROVE  Typed'
<1>0. x.banned \in BOOLEAN
  BY DEF Typed, Query
<1>1. x.id \in Queries /\ x.name \in Names /\ 0 \in 0..MaxTTL
  BY CacheOK DEF CacheOK, Typed, Query
<1>2. replies' \subseteq Reply
  BY <1>0, <1>1, ReplyTyped DEF Answered
<1>3. cache' \subseteq Entry
  <2>1. CASE UNCHANGED cache
    BY <2>1 DEF Typed
  <2>2. CASE Store(x.name, answer, ttl)
    BY <1>1, <2>2, StoreKeepsEntries DEF Typed
  <2> QED
    BY <2>1, <2>2 DEF Answered
<1>4. pending' \subseteq pending /\ UNCHANGED <<policy, clock>>
  BY DEF Answered
<1> QED
  BY <1>2, <1>3, <1>4 DEF Typed, policy

LEMMA TypedStep ==
  ASSUME Typed, [Next]_vars PROVE Typed'
<1>1. ASSUME NEW i \in Queries, NEW c \in Clients, NEW n \in Names, AnswerLocally(i, c, n)
      PROVE  Typed'
  <2>1. 0 \in 0..MaxTTL
    BY CacheOK DEF CacheOK
  <2>0. (<<c, n>> \in denied) \in BOOLEAN
    OBVIOUS
  <2>2. replies' \subseteq Reply
    BY <1>1, <2>0, <2>1, ReplyTyped DEF AnswerLocally
  <2> QED
    BY <1>1, <2>2 DEF AnswerLocally, Typed, policy
<1>2. ASSUME NEW i \in Queries, NEW c \in Clients, NEW n \in Names,
             NEW cacheable \in BOOLEAN, Ask(i, c, n, cacheable)
      PROVE  Typed'
  BY <1>2, AskTyped
<1>3. ASSUME NEW x \in pending, ReadClock(x) \/ Lookup(x) PROVE Typed'
  BY <1>3, ReadClockTyped, LookupTyped
<1>4. ASSUME NEW x \in pending, NEW answer \in Addresses \cup {SERVFAIL},
             NEW ttl \in 0..MaxTTL, Answered(x, answer, ttl)
      PROVE  Typed'
  BY <1>4, AnsweredTyped
<1>5. ASSUME NEW x \in pending, NEW answer \in Addresses \cup {SERVFAIL},
             NEW ttl \in 0..MaxTTL, PassedThrough(x, answer, ttl)
      PROVE  Typed'
  <2>0. x.banned \in BOOLEAN
    BY DEF Typed, Query
  <2>1. x.id \in Queries
    BY DEF Typed, Query
  <2>2. replies' \subseteq Reply
    BY <1>5, <2>0, <2>1, ReplyTyped DEF PassedThrough
  <2> QED
    BY <1>5, <2>2 DEF PassedThrough, Typed, policy
<1>6. ASSUME NEW r \in replies, Release(r) PROVE Typed'
  BY <1>6 DEF Release, Typed, policy
<1>7. CASE Commit
  BY <1>7 DEF Commit, Typed
<1>8. CASE PolicyTurns
  BY <1>8 DEF PolicyTurns, Typed
<1>9. CASE Tick
  BY <1>9, ClockOK DEF ClockOK, Tick, Typed, policy
<1>10. CASE UNCHANGED vars
  BY <1>10 DEF vars, policy, Typed
<1> QED
  BY <1>1, <1>2, <1>3, <1>4, <1>5, <1>6, <1>7, <1>8, <1>9, <1>10 DEF Next, Resolve

LEMMA SizeStep ==
  ASSUME SmallCache, [Next]_vars PROVE SmallCache'
<1>1. CASE cache' \subseteq cache
  BY <1>1, FewerAnswers
<1>2. ASSUME NEW n, NEW answer, NEW ttl, Store(n, answer, ttl) PROVE SmallCache'
  BY <1>2, StoreKeepsSize
<1>3. cache' \subseteq cache \/ \E n, answer, ttl : Store(n, answer, ttl)
  BY DEF Next, Resolve, AnswerLocally, Ask, ReadClock, Lookup, Answered, PassedThrough, Release,
         Commit, PolicyTurns, Tick, vars
<1> QED
  BY <1>1, <1>2, <1>3

LEMMA InitTyped == Init => Typed
<1>1. 0 \in 0..MaxClock
  BY ClockOK DEF ClockOK
<1> QED
  BY <1>1 DEF Init, Typed

(* Every variable has its type, and the cache never outgrows CacheSize. *)
THEOREM TypeCorrect == Spec => []TypeOK
<1>1. Init => Typed /\ SmallCache
  <2>1. Init => Typed
    BY InitTyped
  <2>2. Init => SmallCache
    BY FS_EmptySet, CacheOK DEF CacheOK, Init, SmallCache
  <2> QED
    BY <2>1, <2>2
<1>2. Typed /\ SmallCache /\ [Next]_vars => (Typed /\ SmallCache)'
  BY TypedStep, SizeStep
<1>3. Typed /\ SmallCache => TypeOK
  BY DEF Typed, SmallCache, TypeOK
<1> QED
  BY <1>1, <1>2, <1>3, PTL DEF Spec

(***************************************************************************)
(* Replies.                                                                *)
(***************************************************************************)

(* Only in pass-through does a query go on that the policy would block. *)
PendingAllowed == \A x \in pending : x.step # "direct" => ~x.banned

(* Whatever was stored, and every look at the clock, is past. *)
Past == /\ \A e \in cache : e.storedAt <= clock
        /\ \A x \in pending : x.now <= clock

Good == /\ PendingAllowed
        /\ CacheIsChecked
        /\ BlockedNeverAnswered
        /\ OneEach
        /\ Past

IInv == Typed /\ Good

(* One more reply is as good as it says. *)
LEMMA GoodReply ==
  ASSUME IInv, NEW i, NEW banned, NEW action, NEW answer, NEW ttl,
         Says(i, banned, action, answer, ttl), UNCHANGED blockedIPs,
         action \in {"cached", "forwarded"} => ~banned /\ answer \notin blockedIPs
  PROVE  BlockedNeverAnswered'
BY DEF IInv, Good, Says, BlockedNeverAnswered

(* Nothing is stored, and no query looks at the clock. *)
LEMMA OlderCache ==
  ASSUME IInv, cache' \subseteq cache, UNCHANGED <<clock, blockedIPs>>
  PROVE  /\ CacheIsChecked' /\ OneEach'
         /\ (\A x \in pending' : x \in pending \/ x.now = 0) => Past'
BY ClockOK DEF ClockOK, IInv, Good, Typed, CacheIsChecked, OneEach, Past

LEMMA AskStep ==
  ASSUME IInv, NEW i \in Queries, NEW c \in Clients, NEW n \in Names,
         NEW cacheable \in BOOLEAN, Ask(i, c, n, cacheable)
  PROVE  Good'
<1>1. CASE Decision(c, n) = "blocked"
  <2>1. /\ Says(i, <<c, n>> \in denied, "blocked", SERVFAIL, 0)
        /\ UNCHANGED <<policy, clock, cache, pending>>
    BY <1>1 DEF Ask
  <2>2. BlockedNeverAnswered'
    BY <2>1, GoodReply DEF policy
  <2> QED
    BY <2>1, <2>2, OlderCache DEF IInv, Good, PendingAllowed, policy
<1>2. CASE Decision(c, n) # "blocked"
  <2>1. UNCHANGED <<policy, clock, cache, replies>>
    BY <1>2 DEF Ask
  <2>2. Decision(c, n) # "direct" => <<c, n>> \notin denied
    BY <1>2 DEF Decision
  <2> DEFINE step == Decision(c, n)
             query == [id |-> i, name |-> n, banned |-> <<c, n>> \in denied,
                       cacheable |-> cacheable,
                       step |-> IF step = "getCached" /\ ~cacheable THEN "forward" ELSE step,
                       now |-> 0]
  <2>3. pending' = pending \cup {query}
    BY <1>2 DEF Ask
  <2>4. (query.step # "direct" => ~query.banned) /\ query.now = 0
    BY <2>2, <2>3
  <2> HIDE DEF query
  <2>5. PendingAllowed'
    BY <2>3, <2>4 DEF IInv, Good, PendingAllowed
  <2>6. CacheIsChecked' /\ OneEach' /\ Past'
    BY <2>1, <2>3, <2>4, OlderCache DEF policy
  <2> QED
    BY <2>1, <2>5, <2>6 DEF IInv, Good, policy, BlockedNeverAnswered
<1> QED
  BY <1>1, <1>2

LEMMA ReadClockStep ==
  ASSUME IInv, NEW x \in pending, ReadClock(x) PROVE Good'
<1> DEFINE y == [x EXCEPT !.step = "lookup", !.now = clock]
<1>1. y.banned = x.banned /\ y.now = clock /\ x.step # "direct"
  BY DEF ReadClock, IInv, Typed, Query
<1>2. pending' = (pending \ {x}) \cup {y} /\ UNCHANGED <<policy, clock, cache, replies>>
  BY DEF ReadClock, Becomes
<1> HIDE DEF y
<1>3. PendingAllowed' /\ BlockedNeverAnswered' /\ CacheIsChecked' /\ OneEach'
  BY <1>1, <1>2 DEF IInv, Good, PendingAllowed, BlockedNeverAnswered, CacheIsChecked, OneEach,
                    policy
<1>4. Past'
  BY <1>1, <1>2 DEF IInv, Good, Typed, Past
<1> QED
  BY <1>3, <1>4 DEF Good

LEMMA LookupStep ==
  ASSUME IInv, NEW x \in pending, Lookup(x) PROVE Good'
<1> DEFINE hits == {e \in cache : e.name = x.name /\ ~Expired(e, x.now)}
<1>1. /\ ~x.banned /\ x \in Query /\ UNCHANGED <<policy, clock, blockedIPs>>
      /\ cache' \subseteq cache
  BY DEF Lookup, IInv, Good, Typed, PendingAllowed, policy
<1>2. CASE hits = {}
  <2> DEFINE y == [x EXCEPT !.step = "forward", !.now = 0]
  <2>1. pending' = (pending \ {x}) \cup {y} /\ UNCHANGED replies
    BY <1>2 DEF Lookup, Becomes
  <2>2. y.banned = x.banned /\ y.now = 0
    BY <1>1 DEF Query
  <2> HIDE DEF y
  <2>3. PendingAllowed'
    BY <1>1, <2>1, <2>2 DEF IInv, Good, PendingAllowed
  <2>4. CacheIsChecked' /\ OneEach' /\ Past'
    BY <1>1, <2>1, <2>2, OlderCache
  <2> QED
    BY <1>1, <2>1, <2>3, <2>4 DEF IInv, Good, BlockedNeverAnswered
<1>3. CASE hits # {}
  <2>1. PICK e \in hits :
          IF e.answer \in blockedIPs
          THEN Says(x.id, x.banned, "blocked", SERVFAIL, 0)
          ELSE Says(x.id, x.banned, "cached", e.answer, Aged(e.ttl, Elapsed(e, x.now)))
    BY <1>3 DEF Lookup
  <2>2. pending' \subseteq pending
    BY <1>3 DEF Lookup
  <2>3. PendingAllowed'
    BY <2>2 DEF IInv, Good, PendingAllowed
  <2>4. CacheIsChecked' /\ OneEach' /\ Past'
    BY <1>1, <2>2, OlderCache
  <2>5. CASE e.answer \in blockedIPs
    BY <1>1, <2>1, <2>3, <2>4, <2>5, GoodReply DEF Good
  <2>6. CASE e.answer \notin blockedIPs
    BY <1>1, <2>1, <2>3, <2>4, <2>6, GoodReply DEF Good
  <2> QED
    BY <2>5, <2>6
<1> QED
  BY <1>2, <1>3

LEMMA AnsweredStep ==
  ASSUME IInv, NEW x \in pending, NEW answer \in Addresses \cup {SERVFAIL},
         NEW ttl \in 0..MaxTTL, Answered(x, answer, ttl)
  PROVE  Good'
<1>1. /\ ~x.banned /\ x.name \in Names /\ UNCHANGED <<clock, blockedIPs>>
      /\ pending' \subseteq pending
  BY DEF Answered, IInv, Good, Typed, Query, PendingAllowed, policy
<1>2. BlockedNeverAnswered'
  <2>1. CASE answer \in blockedIPs
    BY <1>1, <2>1, GoodReply DEF Answered
  <2>2. CASE answer \notin blockedIPs
    <3>1. PICK action \in {"error", "forwarded"} : Says(x.id, x.banned, action, answer, ttl)
      BY <2>2 DEF Answered
    <3> QED
      BY <1>1, <2>2, <3>1, GoodReply
  <2> QED
    BY <2>1, <2>2
<1>3. CacheIsChecked' /\ OneEach' /\ Past'
  <2>1. CASE UNCHANGED cache
    BY <1>1, <2>1, OlderCache
  <2>2. CASE Store(x.name, answer, ttl) /\ answer \notin blockedIPs /\ answer # SERVFAIL
    <3>1. /\ \A e \in cache' : e \in cache \/ (e.answer = answer /\ e.storedAt = clock)
          /\ OneEach'
      BY <1>1, <2>2, StoreKeepsEntries DEF IInv, Good, Typed
    <3>2. CacheIsChecked'
      BY <1>1, <2>2, <3>1 DEF IInv, Good, CacheIsChecked
    <3>3. Past'
      BY <1>1, <3>1 DEF IInv, Good, Typed, Past
    <3> QED
      BY <3>1, <3>2, <3>3
  <2> QED
    BY <2>1, <2>2 DEF Answered
<1>4. PendingAllowed'
  BY <1>1 DEF IInv, Good, PendingAllowed
<1> QED
  BY <1>2, <1>3, <1>4 DEF Good

LEMMA InvariantStep ==
  ASSUME IInv, [Next]_vars
  PROVE  Good'
<1> USE DEF policy, Good
<1>1. ASSUME NEW i \in Queries, NEW c \in Clients, NEW n \in Names, AnswerLocally(i, c, n)
      PROVE  Good'
  <2>1. PICK action \in {"local", "denied"} :
          Says(i, <<c, n>> \in denied, action, SERVFAIL, 0)
    BY <1>1 DEF AnswerLocally
  <2>2. BlockedNeverAnswered'
    BY <1>1, <2>1, GoodReply DEF AnswerLocally
  <2> QED
    BY <1>1, <2>2, OlderCache DEF AnswerLocally, IInv, PendingAllowed
<1>2. ASSUME NEW i \in Queries, NEW c \in Clients, NEW n \in Names,
             NEW cacheable \in BOOLEAN, Ask(i, c, n, cacheable)
      PROVE  Good'
  BY <1>2, AskStep
<1>3. ASSUME NEW x \in pending, ReadClock(x) \/ Lookup(x)
      PROVE  Good'
  BY <1>3, ReadClockStep, LookupStep
<1>4. ASSUME NEW x \in pending, NEW answer \in Addresses \cup {SERVFAIL},
             NEW ttl \in 0..MaxTTL, Answered(x, answer, ttl)
      PROVE  Good'
  BY <1>4, AnsweredStep
<1>5. ASSUME NEW x \in pending, NEW answer \in Addresses \cup {SERVFAIL},
             NEW ttl \in 0..MaxTTL, PassedThrough(x, answer, ttl)
      PROVE  Good'
  <2>1. BlockedNeverAnswered'
    BY <1>5, GoodReply DEF PassedThrough
  <2> QED
    BY <1>5, <2>1, OlderCache DEF PassedThrough, IInv, PendingAllowed
<1>6. ASSUME NEW r \in replies, Release(r)
      PROVE  Good'
  BY <1>6, OlderCache DEF Release, IInv, PendingAllowed, BlockedNeverAnswered
<1>7. CASE Commit
  BY <1>7 DEF Commit, PendingAllowed, CacheIsChecked, BlockedNeverAnswered, OneEach, Past
<1>8. CASE PolicyTurns
  BY <1>8, OlderCache DEF PolicyTurns, IInv, PendingAllowed, BlockedNeverAnswered
<1>9. CASE Tick
  <2>1. Past'
    BY <1>9 DEF Tick, IInv, Typed, Entry, Query, Past
  <2> QED
    BY <1>9, <2>1 DEF Tick, IInv, PendingAllowed, CacheIsChecked, BlockedNeverAnswered, OneEach
<1>10. CASE UNCHANGED vars
  BY <1>10, OlderCache DEF vars, IInv, PendingAllowed, BlockedNeverAnswered
<1> QED
  BY <1>1, <1>2, <1>3, <1>4, <1>5, <1>6, <1>7, <1>8, <1>9, <1>10 DEF Next, Resolve

THEOREM Invariance == Spec => []IInv
<1>1. Init => IInv
  BY InitTyped DEF Init, IInv, Good, PendingAllowed, CacheIsChecked, BlockedNeverAnswered,
                   OneEach, Past
<1>2. IInv /\ [Next]_vars => IInv'
  BY InvariantStep, TypedStep DEF IInv
<1> QED
  BY <1>1, <1>2, PTL DEF Spec

(* A client is answered nothing the policy blocks for it, from the cache   *)
(* and from upstreams, and no blocked address.                             *)
THEOREM PolicyPrevails == Spec => []BlockedNeverAnswered
<1>1. IInv => BlockedNeverAnswered
  BY DEF IInv, Good
<1> QED
  BY <1>1, Invariance, PTL

(* The cache holds no blocked address and no failure. *)
THEOREM CacheStaysChecked == Spec => []CacheIsChecked
<1>1. IInv => CacheIsChecked
  BY DEF IInv, Good
<1> QED
  BY <1>1, Invariance, PTL

(***************************************************************************)
(* What a cached reply makes of the answer's age.                          *)
(***************************************************************************)

(* What a lookup serves has not expired for it, and its TTL is computed    *)
(* from the difference of the two looks at the clock.                      *)
LEMMA Served ==
  ASSUME IInv, NEW x \in pending, NEW r \in replies' \ replies, NEW e \in cache,
         Serves(x, r, e)
  PROVE  /\ ~Expired(e, x.now)
         /\ r.ttl = Aged(e.ttl, Elapsed(e, x.now))
<1> DEFINE hits == {f \in cache : f.name = x.name /\ ~Expired(f, x.now)}
<1>1. Lookup(x) /\ r.action = "cached" /\ e.name = x.name
  BY DEF Serves
<1>2. hits # {}
  BY <1>1 DEF Lookup
<1>3. PICK f \in hits :
        IF f.answer \in blockedIPs
        THEN Says(x.id, x.banned, "blocked", SERVFAIL, 0)
        ELSE Says(x.id, x.banned, "cached", f.answer, Aged(f.ttl, Elapsed(f, x.now)))
  BY <1>1, <1>2 DEF Lookup
<1>4. f = e
  BY <1>1, <1>3 DEF IInv, Good, OneEach
<1>5. Says(x.id, x.banned, "cached", e.answer, Aged(e.ttl, Elapsed(e, x.now)))
  BY <1>1, <1>3, <1>4 DEF Says
<1> QED
  BY <1>3, <1>4, <1>5 DEF Says

(* The types of the two looks at the clock. *)
LEMMA Looked ==
  ASSUME IInv, NEW x \in pending, NEW e \in cache
  PROVE  /\ x.now \in Nat /\ e.storedAt \in Nat /\ clock \in Nat
         /\ e.ttl \in Nat /\ e.ttl > 0 /\ e.ttl <= MaxTTL
         /\ e.storedAt <= clock /\ x.now <= clock
BY CacheOK, ClockOK DEF CacheOK, ClockOK, IInv, Good, Typed, Past, Entry, Query

(* A cached answer has a TTL above zero, reduced by its age at most, unless*)
(* it was stored a second or more after the query had read the clock: for  *)
(* any clock, any TTLs and any number of queries.                          *)
THEOREM RepliesAreAlive == Spec => CachedRepliesAreAlive
<1>1. ASSUME IInv, NEW x \in pending, NEW r \in replies' \ replies, NEW e \in cache,
             Serves(x, r, e), ~Overtaken(x, e)
      PROVE  r.ttl > 0 /\ ReducedByAge(r, e)
  <2> DEFINE age == x.now - e.storedAt
  <2>1. /\ x.now \in Nat /\ e.storedAt \in Nat /\ clock \in Nat
        /\ e.ttl \in Nat /\ e.ttl > 0 /\ e.ttl <= MaxTTL
        /\ e.storedAt <= clock /\ x.now <= clock
    BY <1>1, Looked
  <2>2. ~Expired(e, x.now) /\ r.ttl = Aged(e.ttl, Elapsed(e, x.now))
    BY <1>1, Served
  <2>3. PerSecond \in Nat /\ Uint32 \in Nat /\ MaxTTL \in Nat /\ MaxTTL < Uint32
    BY ClockOK, CacheOK DEF ClockOK, CacheOK
  <2>4. CASE age >= 0
    <3>1. age \in Nat /\ age < e.ttl * PerSecond
      <4>1. e.ttl * PerSecond \in Nat
        BY <2>1, <2>3
      <4> QED
        BY <2>1, <2>2, <2>4, <4>1 DEF Expired
    <3>2. /\ Seconds(age) \in Nat /\ Seconds(age) < e.ttl
          /\ Seconds(age) * PerSecond <= age
      BY <2>1, <3>1, WholeSeconds
    <3>3. Elapsed(e, x.now) = Seconds(age)
      BY <2>1, <2>3, <3>2, Converted DEF Elapsed
    <3>4. r.ttl > 0 /\ e.ttl - r.ttl = Seconds(age)
      BY <2>1, <2>2, <3>2, <3>3 DEF Aged
    <3> QED
      BY <2>1, <2>3, <3>2, <3>4 DEF ReducedByAge
  <2>5. CASE age < 0
    <3>1. -age \in Nat /\ -age < PerSecond
      BY <1>1, <2>1, <2>3, <2>5 DEF Overtaken
    <3>2. Seconds(age) = 0
      <4>1. age \in Int
        BY <2>1
      <4> QED
        BY <2>5, <3>1, <4>1, PartOfASecond
    <3>3. Elapsed(e, x.now) = 0
      BY <2>1, <2>3, <3>2, Converted DEF Elapsed
    <3>4. r.ttl = e.ttl
      BY <2>1, <2>2, <3>3 DEF Aged
    <3> QED
      BY <2>1, <2>3, <3>4 DEF ReducedByAge
  <2> QED
    BY <2>1, <2>4, <2>5
<1>2. IInv => [\A x \in pending, r \in replies' \ replies, e \in cache :
                 Serves(x, r, e) => Overtaken(x, e) \/ (r.ttl > 0 /\ ReducedByAge(r, e))]_vars
  BY <1>1
<1> QED
  BY <1>2, Invariance, PTL DEF CachedRepliesAreAlive

(* An answer stored a second or more after the query had read the clock is *)
(* served with no TTL left, whatever TTL it had: the only bound is that    *)
(* seconds and TTL together fit a uint32.                                  *)
THEOREM OvertakenAreServedDead == Spec => OvertakenRepliesAreDead
<1>1. ASSUME IInv, NEW x \in pending, NEW r \in replies' \ replies, NEW e \in cache,
             Serves(x, r, e), Overtaken(x, e),
             e.ttl - Seconds(x.now - e.storedAt) <= Uint32
      PROVE  r.ttl = 0
  <2> DEFINE ahead == e.storedAt - x.now
             k == ahead \div PerSecond
  <2>1. x.now \in Nat /\ e.storedAt \in Nat /\ e.ttl \in Nat /\ e.ttl > 0
    BY <1>1, Looked
  <2>2. r.ttl = Aged(e.ttl, Elapsed(e, x.now))
    BY <1>1, Served
  <2>3. PerSecond \in Nat \ {0} /\ Uint32 \in Nat
    BY ClockOK DEF ClockOK
  <2>4. ahead \in Nat /\ ahead >= PerSecond /\ x.now - e.storedAt = -ahead
    BY <1>1, <2>1, <2>3 DEF Overtaken
  <2> HIDE DEF ahead
  <2>5. k \in Nat /\ k > 0
    BY <2>3, <2>4
  <2>6. Seconds(-ahead) = -k
    BY <2>3, <2>4 DEF Seconds
  <2> HIDE DEF k
  <2>7. k < Uint32 /\ e.ttl <= Uint32 - k
    BY <1>1, <2>1, <2>3, <2>4, <2>5, <2>6
  <2>8. Elapsed(e, x.now) = Uint32 - k
    BY <2>4, <2>5, <2>6, <2>7, Wrapped DEF Elapsed
  <2> QED
    BY <2>1, <2>2, <2>3, <2>5, <2>7, <2>8 DEF Aged
<1>2. IInv => [\A x \in pending, r \in replies' \ replies, e \in cache :
                 Serves(x, r, e) /\ Overtaken(x, e)
                   /\ e.ttl - Seconds(x.now - e.storedAt) <= Uint32 => r.ttl = 0]_vars
  BY <1>1
<1> QED
  BY <1>2, Invariance, PTL DEF OvertakenRepliesAreDead
=============================================================================
