-------------------------- MODULE UpstreamsProofs --------------------------
(***************************************************************************)
(* The safety of Upstreams for any addresses, any threshold and any number *)
(* of queries.  Where a query stands, each address that was enabled all    *)
(* along is still to be read, still to be tried, or was tried.             *)
(***************************************************************************)
EXTENDS Upstreams, TLAPS

QueryTyped(x) ==
  /\ x.unread \in Bag /\ x.left \in Bag
  /\ x.tried \subseteq Addresses /\ x.spared \subseteq Addresses
  /\ \A a \in Addresses : x.unread[a] + x.left[a] <= MaxListed

(* What was enabled all along is not lost on the way. *)
Accounted(x) ==
  /\ \A a \in x.spared : ~disabledUpstream(a)
  /\ x.step = "collect" => \A a \in x.spared \ x.tried : x.unread[a] > 0 \/ x.left[a] > 0
  /\ x.step = "try" => \A a \in x.spared \ x.tried : x.left[a] > 0
  /\ x.step = "failed" => x.spared \subseteq x.tried

IInv == /\ TypeOK
        /\ \A x \in queries : QueryTyped(x) /\ Accounted(x)
        /\ ExcludedHaveFailed
        /\ \A a \in Endpoints : toProbe[a] = 0

(***************************************************************************)
(* Bags.                                                                   *)
(***************************************************************************)

LEMMA LessIsBag ==
  ASSUME NEW bag \in Bag, NEW a \in Addresses, bag[a] > 0
  PROVE  /\ Less(bag, a) \in Bag
         /\ Less(bag, a)[a] = bag[a] - 1
         /\ \A b \in Addresses \ {a} : Less(bag, a)[b] = bag[b]
<1>1. bag[a] - 1 \in 0..MaxListed
  BY BoundsOK DEF BoundsOK, Bag
<1> QED
  BY <1>1 DEF Bag, Less

LEMMA PlusIsBag ==
  ASSUME NEW bag \in Bag, NEW a \in Addresses, bag[a] < MaxListed
  PROVE  /\ Plus(bag, a) \in Bag
         /\ Plus(bag, a)[a] = bag[a] + 1
         /\ \A b \in Addresses \ {a} : Plus(bag, a)[b] = bag[b]
<1>1. bag[a] + 1 \in 0..MaxListed
  BY BoundsOK DEF BoundsOK, Bag
<1> QED
  BY <1>1 DEF Bag, Plus

LEMMA NothingIsBag == Nothing \in Bag /\ Nothing \in [Addresses -> 0..FailuresNeeded]
BY BoundsOK DEF BoundsOK, Bag, Nothing

LEMMA ConfiguredIsBag ==
  ASSUME TypeOK, NEW ruled \in BOOLEAN PROVE Configured(ruled) \in Bag
BY BoundsOK DEF BoundsOK, TypeOK, Bag, Configured

(***************************************************************************)
(* Queries.                                                                *)
(***************************************************************************)

LEMMA ForwardStep ==
  ASSUME IInv, NEW i \in Queries, NEW ruled \in BOOLEAN, Forward(i, ruled) PROVE IInv'
<1> DEFINE want == Configured(ruled)
           x == [id |-> i, step |-> "collect", unread |-> want, left |-> Nothing,
                 tried |-> {},
                 spared |-> {a \in Addresses : want[a] > 0 /\ ~disabledUpstream(a)}]
<1>1. want \in Bag /\ Nothing \in Bag
  BY ConfiguredIsBag, NothingIsBag DEF IInv
<1>2. /\ queries' = queries \cup {x}
      /\ UNCHANGED <<config, health, stopping, up>>
  BY DEF Forward
<1>3. x \in Query
  BY <1>1 DEF Query
<1>4. TypeOK'
  BY <1>2, <1>3 DEF IInv, TypeOK, config, health
<1>5. QueryTyped(x)
  BY <1>1, BoundsOK DEF BoundsOK, QueryTyped, Bag, Nothing
<1>6. Accounted(x)
  BY DEF Accounted
<1>7. \A y \in queries' : QueryTyped(y)' /\ Accounted(y)'
  BY <1>2, <1>5, <1>6 DEF IInv, QueryTyped, Accounted, disabledUpstream, config, health
<1> QED
  BY <1>2, <1>4, <1>7 DEF IInv, ExcludedHaveFailed, health

(* A query that goes on replaces what it was. *)
LEMMA Replaced ==
  ASSUME IInv, NEW x \in queries, NEW y \in Query, Becomes(x, y),
         UNCHANGED <<config, health, stopping, up>>,
         QueryTyped(y), Accounted(y)
  PROVE  IInv'
<1>1. TypeOK'
  BY DEF Becomes, IInv, TypeOK, config, health
<1>2. \A z \in queries' : QueryTyped(z)' /\ Accounted(z)'
  BY DEF Becomes, IInv, QueryTyped, Accounted, disabledUpstream, config, health
<1> QED
  BY <1>1, <1>2 DEF IInv, ExcludedHaveFailed, health

LEMMA CollectStep ==
  ASSUME IInv, NEW x \in queries, Collect(x) PROVE IInv'
<1>1. x \in Query /\ QueryTyped(x) /\ Accounted(x) /\ x.step = "collect"
  BY DEF Collect, IInv, TypeOK
<1>2. UNCHANGED <<config, health, stopping, up>>
  BY DEF Collect
<1>3. CASE x.unread = Nothing
  <2> DEFINE y == [x EXCEPT !.step = "try"]
  <2>1. Becomes(x, y)
    BY <1>3 DEF Collect
  <2>2. /\ y \in Query /\ y.step = "try"
        /\ y.unread = x.unread /\ y.left = x.left /\ y.tried = x.tried /\ y.spared = x.spared
    BY <1>1 DEF Query
  <2>3. QueryTyped(y)
    BY <1>1, <2>2 DEF QueryTyped
  <2>4. Accounted(y)
    BY <1>1, <1>3, <2>2 DEF Accounted, QueryTyped, Nothing
  <2> QED
    BY <1>2, <2>1, <2>2, <2>3, <2>4, Replaced
<1>4. CASE x.unread # Nothing
  <2> DEFINE y(a) == [x EXCEPT !.unread = Less(@, a),
                               !.left = IF disabledUpstream(a) THEN @ ELSE Plus(@, a)]
  <2>1. PICK a \in Addresses : x.unread[a] > 0 /\ Becomes(x, y(a))
    BY <1>4 DEF Collect
  <2>2. /\ Less(x.unread, a) \in Bag
        /\ Less(x.unread, a)[a] = x.unread[a] - 1
        /\ \A b \in Addresses \ {a} : Less(x.unread, a)[b] = x.unread[b]
    BY <1>1, <2>1, LessIsBag DEF QueryTyped
  <2>3. x.left[a] < MaxListed /\ x.left \in Bag
    BY <1>1, <2>1, BoundsOK DEF BoundsOK, QueryTyped, Bag
  <2>4. /\ Plus(x.left, a) \in Bag
        /\ Plus(x.left, a)[a] = x.left[a] + 1
        /\ \A b \in Addresses \ {a} : Plus(x.left, a)[b] = x.left[b]
    BY <2>3, PlusIsBag
  <2>5. /\ y(a).unread = Less(x.unread, a)
        /\ y(a).left = IF disabledUpstream(a) THEN x.left ELSE Plus(x.left, a)
        /\ y(a).step = x.step /\ y(a).tried = x.tried /\ y(a).spared = x.spared
        /\ y(a).id = x.id
    BY <1>1 DEF Query
  <2>6. y(a).left \in Bag
    BY <2>3, <2>4, <2>5
  <2>7. y(a) \in Query
    BY <1>1, <2>2, <2>5, <2>6 DEF Query
  <2>8. QueryTyped(y(a))
    BY <1>1, <2>1, <2>2, <2>3, <2>4, <2>5, <2>6, BoundsOK DEF BoundsOK, QueryTyped, Bag
  <2>9. Accounted(y(a))
    BY <1>1, <2>1, <2>2, <2>3, <2>4, <2>5, BoundsOK
    DEF BoundsOK, Accounted, QueryTyped, Bag
  <2> QED
    BY <1>2, <2>1, <2>7, <2>8, <2>9, Replaced
<1> QED
  BY <1>3, <1>4

LEMMA TryStep ==
  ASSUME IInv, NEW x \in queries, Try(x) PROVE IInv'
<1>1. x \in Query /\ QueryTyped(x) /\ Accounted(x) /\ x.step = "try"
  BY DEF Try, IInv, TypeOK
<1>2. UNCHANGED <<config, health, stopping, up>>
  BY DEF Try
<1>3. ASSUME NEW step \in {"answered", "failed"}, Becomes(x, [x EXCEPT !.step = step]),
             step = "failed" => x.left = Nothing
      PROVE  IInv'
  <2> DEFINE y == [x EXCEPT !.step = step]
  <2>1. /\ y \in Query /\ y.step = step
        /\ y.unread = x.unread /\ y.left = x.left /\ y.tried = x.tried /\ y.spared = x.spared
    BY <1>1 DEF Query
  <2>2. QueryTyped(y)
    BY <1>1, <2>1 DEF QueryTyped
  <2>3. Accounted(y)
    BY <1>1, <1>3, <2>1 DEF Accounted, QueryTyped, Nothing
  <2> QED
    BY <1>2, <1>3, <2>1, <2>2, <2>3, Replaced
<1>4. ASSUME NEW a \in Addresses, x.left[a] > 0, TargetFails(x, a) PROVE IInv'
  <2> DEFINE y == [x EXCEPT !.left = Less(@, a), !.tried = @ \cup {a}]
  <2>1. /\ Less(x.left, a) \in Bag
        /\ Less(x.left, a)[a] = x.left[a] - 1
        /\ \A b \in Addresses \ {a} : Less(x.left, a)[b] = x.left[b]
    BY <1>1, <1>4, LessIsBag DEF QueryTyped
  <2>2. /\ y.left = Less(x.left, a) /\ y.tried = x.tried \cup {a}
        /\ y.step = x.step /\ y.unread = x.unread /\ y.spared = x.spared
        /\ y.id = x.id
    BY <1>1 DEF Query
  <2>3. y \in Query
    BY <1>1, <2>1, <2>2 DEF Query
  <2>4. QueryTyped(y)
    BY <1>1, <2>1, <2>2, BoundsOK DEF BoundsOK, QueryTyped, Bag
  <2>5. Accounted(y)
    BY <1>1, <2>1, <2>2 DEF Accounted, QueryTyped
  <2> QED
    BY <1>2, <1>4, <2>3, <2>4, <2>5, Replaced DEF TargetFails
<1> QED
  BY <1>3, <1>4 DEF Try

(***************************************************************************)
(* The monitor.                                                            *)
(***************************************************************************)

LEMMA ProbeStep ==
  ASSUME IInv, NEW a \in Addresses, Probe(a) PROVE IInv'
<1>0. a \in Addresses \ Endpoints
  BY DEF Probe, IInv
<1>1. toProbe' \in Bag /\ \A b \in Endpoints : toProbe'[b] = 0
  BY <1>0, LessIsBag, AddressesOK DEF AddressesOK, Probe, IInv, TypeOK
<1>2. CASE ProbeAnswered(a)
  <2>1. TypeOK'
    BY <1>0, <1>1, <1>2, BoundsOK DEF BoundsOK, Probe, ProbeAnswered, IInv, TypeOK, config
  <2>2. ExcludedHaveFailed'
    BY <1>2, BoundsOK DEF BoundsOK, ProbeAnswered, IInv, TypeOK, ExcludedHaveFailed
  <2>3. \A x \in queries' : QueryTyped(x)' /\ Accounted(x)'
    BY <1>2 DEF Probe, ProbeAnswered, IInv, QueryTyped, Accounted, disabledUpstream, config
  <2> QED
    BY <1>1, <2>1, <2>2, <2>3 DEF IInv
<1>3. CASE ProbeFailed(a)
  <2> DEFINE count == IF failures[a] < FailuresNeeded THEN failures[a] + 1 ELSE failures[a]
  <2>1. failures' = [failures EXCEPT ![a] = count] /\ count \in 0..FailuresNeeded
    BY <1>3, BoundsOK DEF BoundsOK, ProbeFailed, IInv, TypeOK
  <2>2. CASE count >= FailuresNeeded
    <3> DEFINE less(x) == [x EXCEPT !.spared = @ \ {a}]
    <3>1. unhealthy' = unhealthy \cup {a} /\ queries' = {less(x) : x \in queries}
      BY <1>3, <2>2 DEF ProbeFailed
    <3>2. ASSUME NEW x \in queries
          PROVE  /\ less(x) \in Query /\ less(x).spared = x.spared \ {a}
                 /\ less(x).step = x.step /\ less(x).tried = x.tried
                 /\ less(x).unread = x.unread /\ less(x).left = x.left
      BY DEF IInv, TypeOK, Query
    <3>3. TypeOK'
      BY <1>0, <1>1, <2>1, <3>1, <3>2 DEF Probe, IInv, TypeOK, config
    <3>4. ExcludedHaveFailed'
      BY <2>1, <2>2, <3>1, BoundsOK DEF BoundsOK, IInv, TypeOK, ExcludedHaveFailed
    <3>5. ASSUME NEW x \in queries PROVE QueryTyped(less(x))' /\ Accounted(less(x))'
      BY <3>1, <3>2 DEF Probe, IInv, QueryTyped, Accounted, disabledUpstream, config
    <3> QED
      BY <1>1, <3>1, <3>3, <3>4, <3>5 DEF IInv
  <2>3. CASE ~(count >= FailuresNeeded)
    <3>1. UNCHANGED <<unhealthy, queries>>
      BY <1>3, <2>3 DEF ProbeFailed
    <3>2. TypeOK'
      BY <1>1, <2>1, <3>1 DEF Probe, IInv, TypeOK, config
    <3>3. ExcludedHaveFailed'
      BY <2>1, <2>3, <3>1, BoundsOK DEF BoundsOK, IInv, TypeOK, ExcludedHaveFailed
    <3>4. \A x \in queries' : QueryTyped(x)' /\ Accounted(x)'
      BY <3>1 DEF Probe, IInv, QueryTyped, Accounted, disabledUpstream, config
    <3> QED
      BY <1>1, <3>2, <3>3, <3>4 DEF IInv
  <2> QED
    BY <2>2, <2>3
<1> QED
  BY <1>2, <1>3 DEF Probe

LEMMA ReadStep ==
  ASSUME IInv, ReadList PROVE IInv'
<1>1. toProbe' \in Bag /\ \A a \in Endpoints : toProbe'[a] = 0
  BY BoundsOK, AddressesOK DEF BoundsOK, AddressesOK, ReadList, IInv, TypeOK, Bag
<1>2. TypeOK'
  BY <1>1 DEF ReadList, IInv, TypeOK, config
<1>3. \A x \in queries' : QueryTyped(x)' /\ Accounted(x)'
  BY DEF ReadList, IInv, QueryTyped, Accounted, disabledUpstream, config
<1> QED
  BY <1>1, <1>2, <1>3 DEF IInv, ReadList, ExcludedHaveFailed

(***************************************************************************)
(* Requests.  They find no query under way, so only the types are at stake.*)
(***************************************************************************)

LEMMA EditStep ==
  ASSUME IInv, NEW a \in Addresses, handleUpstreams(a) PROVE IInv'
<1>1. /\ queries = {}
      /\ UNCHANGED <<health, stopping, up, queries>>
  BY DEF handleUpstreams, Commits
<1>2. listed' \in Bag
  <2>1. CASE Post(a)
    BY <2>1, PlusIsBag DEF Post, IInv, TypeOK
  <2>2. CASE Patch(a, TRUE) \/ Patch(a, FALSE)
    BY <2>2 DEF Patch, IInv, TypeOK
  <2>3. CASE Delete(a)
    BY <2>3, BoundsOK DEF BoundsOK, Delete, IInv, TypeOK, Bag
  <2> QED
    BY <2>1, <2>2, <2>3 DEF handleUpstreams
<1>3. disabled' \subseteq Addresses
  BY DEF handleUpstreams, Post, Patch, Delete, IInv, TypeOK
<1>4. TypeOK'
  BY <1>1, <1>2, <1>3 DEF IInv, TypeOK, health
<1> QED
  BY <1>1, <1>4 DEF IInv, ExcludedHaveFailed, health

-----------------------------------------------------------------------------
(* Every reachable state satisfies the inductive invariant.                *)
THEOREM Invariance == Spec => []IInv
<1>1. Init => IInv
  BY NothingIsBag, BoundsOK, AddressesOK
  DEF BoundsOK, AddressesOK, Init, IInv, TypeOK, ExcludedHaveFailed, Nothing
<1>2. IInv /\ [Next]_vars => IInv'
  <2> SUFFICES ASSUME IInv, [Next]_vars PROVE IInv'
    OBVIOUS
  <2>1. ASSUME NEW i \in Queries, Answer(i) PROVE IInv'
    <3>1. ASSUME NEW x \in queries, Release(x) PROVE IInv'
      <4>1. queries' \subseteq queries /\ UNCHANGED <<config, health, stopping, up>>
        BY <3>1 DEF Release
      <4>2. TypeOK'
        BY <4>1 DEF IInv, TypeOK, config, health
      <4>3. \A y \in queries' : QueryTyped(y)' /\ Accounted(y)'
        BY <4>1 DEF IInv, QueryTyped, Accounted, disabledUpstream, config, health
      <4> QED
        BY <4>1, <4>2, <4>3 DEF IInv, ExcludedHaveFailed, health
    <3> QED
      BY <2>1, <3>1, CollectStep, TryStep DEF Answer
  <2>2. ASSUME NEW i \in Queries, NEW ruled \in BOOLEAN, Forward(i, ruled) PROVE IInv'
    BY <2>2, ForwardStep
  <2>3. CASE Monitor
    <3>1. CASE RoundEnds
      <4>1. TypeOK'
        BY <3>1 DEF RoundEnds, IInv, TypeOK, config
      <4>2. \A x \in queries' : QueryTyped(x)' /\ Accounted(x)'
        BY <3>1 DEF RoundEnds, IInv, QueryTyped, Accounted, disabledUpstream, config
      <4> QED
        BY <3>1, <4>1, <4>2 DEF RoundEnds, IInv, ExcludedHaveFailed
    <3> QED
      BY <2>3, <3>1, ReadStep, ProbeStep DEF Monitor
  <2>4. ASSUME NEW a \in Addresses, handleUpstreams(a) PROVE IInv'
    BY <2>4, EditStep
  <2>5. ASSUME NEW a \in Addresses, Toggle(a) PROVE IInv'
    <3>1. up' \subseteq Addresses
      BY <2>5 DEF Toggle, IInv, TypeOK
    <3>2. TypeOK'
      BY <2>5, <3>1 DEF Toggle, IInv, TypeOK, config, health
    <3>3. \A x \in queries' : QueryTyped(x)' /\ Accounted(x)'
      BY <2>5 DEF Toggle, IInv, QueryTyped, Accounted, disabledUpstream, config, health
    <3> QED
      BY <2>5, <3>2, <3>3 DEF Toggle, IInv, ExcludedHaveFailed, health
  <2>6. CASE Stop
    <3>1. TypeOK'
      BY <2>6 DEF Stop, IInv, TypeOK, config, health
    <3>2. \A x \in queries' : QueryTyped(x)' /\ Accounted(x)'
      BY <2>6 DEF Stop, IInv, QueryTyped, Accounted, disabledUpstream, config, health
    <3> QED
      BY <2>6, <3>1, <3>2 DEF Stop, IInv, ExcludedHaveFailed, health
  <2>7. CASE UNCHANGED vars
    <3>1. TypeOK'
      BY <2>7 DEF IInv, TypeOK, vars, config, health
    <3>2. \A x \in queries' : QueryTyped(x)' /\ Accounted(x)'
      BY <2>7 DEF IInv, QueryTyped, Accounted, disabledUpstream, vars, config, health
    <3> QED
      BY <2>7, <3>1, <3>2 DEF IInv, ExcludedHaveFailed, vars, config, health
  <2> QED
    BY <2>1, <2>2, <2>3, <2>4, <2>5, <2>6, <2>7 DEF Next
<1> QED
  BY <1>1, <1>2, PTL DEF Spec

(* The bags of a query and of the monitor never go below zero or over the  *)
(* bound, and an endpoint is never excluded.                               *)
THEOREM TypeCorrect == Spec => []TypeOK
<1>1. IInv => TypeOK
  BY DEF IInv
<1> QED
  BY <1>1, Invariance, PTL

(* A query that fails has tried every upstream that was enabled while it   *)
(* was forwarded.                                                          *)
THEOREM FailuresAreUnanimous == Spec => []FailsOnlyWhenAllFail
<1>1. IInv => FailsOnlyWhenAllFail
  BY DEF IInv, Accounted, FailsOnlyWhenAllFail
<1> QED
  BY <1>1, Invariance, PTL

(* The monitor excludes an upstream exactly while its failures in a row    *)
(* have reached the threshold.                                             *)
THEOREM ExclusionIsEarned == Spec => []ExcludedHaveFailed
<1>1. IInv => ExcludedHaveFailed
  BY DEF IInv
<1> QED
  BY <1>1, Invariance, PTL

-----------------------------------------------------------------------------
(* What QueriesEnd rests on: the way of a query is finite.                 *)

OneEach == \A x, y \in queries : x.id = y.id => x = y

(* How much is ahead of a query: its step, what it has to read, and what it *)
(* has to read or to try.                                                   *)
Ahead == [collect |-> 2, try |-> 1, answered |-> 0, failed |-> 0]

InHand(x, a) == x.unread[a] + x.left[a]

Nearer(x, y) ==
  /\ \A a \in Addresses : y.unread[a] <= x.unread[a] /\ InHand(y, a) <= InHand(x, a)
  /\ Ahead[y.step] <= Ahead[x.step]
  /\ \/ Ahead[y.step] < Ahead[x.step]
     \/ \E a \in Addresses : y.unread[a] < x.unread[a] \/ InHand(y, a) < InHand(x, a)

AsNear(x, y) == y.step = x.step /\ y.unread = x.unread /\ y.left = x.left

(* The query of goroutine i ends, or is nearer to its end, if the step is   *)
(* its own, and where it was, if it is not.                                 *)
ComesNearer(i) ==
  \A x \in queries : x.id = i =>
    \/ \A y \in queries' : y.id # i
    \/ \E y \in queries' : y.id = i /\ (Nearer(x, y) \/ (~Answer(i) /\ AsNear(x, y)))

(* A step of a query's own goroutine. *)
LEMMA OwnStep ==
  ASSUME IInv, NEW x \in queries, Collect(x) \/ Try(x)
  PROVE  \E y : Becomes(x, y) /\ y.id = x.id /\ Nearer(x, y)
<1>1. x \in Query /\ QueryTyped(x)
  BY DEF IInv, TypeOK
<1>2. \A a \in Addresses : x.unread[a] \in Nat /\ x.left[a] \in Nat
  BY <1>1, BoundsOK DEF BoundsOK, QueryTyped, Bag
<1>3. ASSUME NEW step \in {"try", "answered", "failed"}, Ahead[step] < Ahead[x.step],
             Becomes(x, [x EXCEPT !.step = step])
      PROVE  \E y : Becomes(x, y) /\ y.id = x.id /\ Nearer(x, y)
  <2> DEFINE y == [x EXCEPT !.step = step]
  <2>1. y.step = step /\ y.unread = x.unread /\ y.left = x.left /\ y.id = x.id
    BY <1>1 DEF Query
  <2>2. Ahead[x.step] \in Nat /\ Ahead[step] \in Nat
    BY <1>1 DEF Query, Ahead
  <2>3. Nearer(x, y)
    BY <1>2, <1>3, <2>1, <2>2 DEF Nearer, InHand
  <2> QED
    BY <1>3, <2>1, <2>3
<1>4. CASE Collect(x) /\ x.unread = Nothing
  BY <1>3, <1>4 DEF Collect, Ahead
<1>5. CASE Collect(x) /\ x.unread # Nothing
  <2> DEFINE y(a) == [x EXCEPT !.unread = Less(@, a),
                               !.left = IF disabledUpstream(a) THEN @ ELSE Plus(@, a)]
  <2>1. PICK a \in Addresses : x.unread[a] > 0 /\ Becomes(x, y(a))
    BY <1>5 DEF Collect
  <2>2. /\ Less(x.unread, a)[a] = x.unread[a] - 1
        /\ \A b \in Addresses \ {a} : Less(x.unread, a)[b] = x.unread[b]
    BY <1>1, <2>1, LessIsBag DEF QueryTyped
  <2>3. x.left[a] < MaxListed /\ x.left \in Bag
    BY <1>1, <2>1, BoundsOK DEF BoundsOK, QueryTyped, Bag
  <2>4. /\ Plus(x.left, a)[a] = x.left[a] + 1
        /\ \A b \in Addresses \ {a} : Plus(x.left, a)[b] = x.left[b]
    BY <2>3, PlusIsBag
  <2>5. /\ y(a).unread = Less(x.unread, a)
        /\ y(a).left = IF disabledUpstream(a) THEN x.left ELSE Plus(x.left, a)
        /\ y(a).step = x.step /\ y(a).id = x.id
    BY <1>1 DEF Query
  <2>6. \A b \in Addresses :
          y(a).unread[b] <= x.unread[b] /\ InHand(y(a), b) <= InHand(x, b)
    BY <1>2, <2>1, <2>2, <2>4, <2>5 DEF InHand
  <2>7. y(a).unread[a] < x.unread[a]
    BY <1>2, <2>2, <2>5
  <2>8. Ahead[x.step] \in Nat
    BY <1>1 DEF Query, Ahead
  <2>9. Nearer(x, y(a))
    BY <2>5, <2>6, <2>7, <2>8 DEF Nearer
  <2> QED
    BY <2>1, <2>5, <2>9
<1>6. CASE Try(x) /\ \E a \in Addresses : x.left[a] > 0 /\ TargetFails(x, a)
  <2> DEFINE y(a) == [x EXCEPT !.left = Less(@, a), !.tried = @ \cup {a}]
  <2>1. PICK a \in Addresses : x.left[a] > 0 /\ Becomes(x, y(a))
    BY <1>6 DEF TargetFails
  <2>2. /\ Less(x.left, a)[a] = x.left[a] - 1
        /\ \A b \in Addresses \ {a} : Less(x.left, a)[b] = x.left[b]
    BY <1>1, <2>1, LessIsBag DEF QueryTyped
  <2>3. /\ y(a).unread = x.unread /\ y(a).left = Less(x.left, a)
        /\ y(a).step = x.step /\ y(a).id = x.id
    BY <1>1 DEF Query
  <2>4. \A b \in Addresses :
          y(a).unread[b] <= x.unread[b] /\ InHand(y(a), b) <= InHand(x, b)
    BY <1>2, <2>2, <2>3 DEF InHand
  <2>5. InHand(y(a), a) < InHand(x, a)
    BY <1>2, <2>2, <2>3 DEF InHand
  <2>6. Ahead[x.step] \in Nat
    BY <1>1 DEF Query, Ahead
  <2>7. Nearer(x, y(a))
    BY <2>3, <2>4, <2>5, <2>6 DEF Nearer
  <2> QED
    BY <2>1, <2>3, <2>7
<1>7. CASE Try(x) /\ \E step \in {"answered", "failed"} : Becomes(x, [x EXCEPT !.step = step])
  BY <1>3, <1>7 DEF Try, Ahead
<1> QED
  BY <1>4, <1>5, <1>6, <1>7 DEF Try

(* A step that is not the query's own takes at most from what it was spared.*)
LEMMA OthersStep ==
  ASSUME IInv, [Next]_vars, NEW x \in queries, ~Answer(x.id)
  PROVE  \E y \in queries' : y.id = x.id /\ AsNear(x, y)
<1>1. CASE x \in queries'
  BY <1>1 DEF AsNear
<1>2. ASSUME NEW i \in Queries, Answer(i) PROVE x \in queries'
  BY <1>2, Zenon DEF Answer, Collect, Try, Release, TargetFails, Becomes
<1>3. ASSUME NEW a \in Addresses, Probe(a)
      PROVE  \E y \in queries' : y.id = x.id /\ AsNear(x, y)
  <2> DEFINE y == [x EXCEPT !.spared = @ \ {a}]
  <2>1. y.id = x.id /\ AsNear(x, y)
    BY DEF IInv, TypeOK, Query, AsNear
  <2>2. CASE UNCHANGED queries
    BY <1>1, <2>2
  <2>3. CASE queries' = {[z EXCEPT !.spared = @ \ {a}] : z \in queries}
    BY <2>1, <2>3
  <2> QED
    BY <1>3, <2>2, <2>3 DEF Probe, ProbeAnswered, ProbeFailed
<1>4. CASE \E i \in Queries, ruled \in BOOLEAN : Forward(i, ruled)
  BY <1>1, <1>4 DEF Forward
<1>5. CASE ReadList \/ RoundEnds \/ Stop \/ \E a \in Addresses : handleUpstreams(a) \/ Toggle(a)
  BY <1>1, <1>5 DEF ReadList, RoundEnds, Stop, handleUpstreams, Toggle
<1>6. CASE UNCHANGED vars
  BY <1>1, <1>6 DEF vars
<1> QED
  BY <1>1, <1>2, <1>3, <1>4, <1>5, <1>6 DEF Next, Monitor

(* No goroutine forwards two queries at once. *)
LEMMA OneEachStep == ASSUME IInv, OneEach, [Next]_vars PROVE OneEach'
<1> USE DEF OneEach
<1>1. ASSUME NEW i \in Queries, Answer(i) PROVE OneEach'
  <2>1. PICK x \in queries : x.id = i /\ (Collect(x) \/ Try(x) \/ Release(x))
    BY <1>1 DEF Answer
  <2>2. CASE Release(x)
    BY <2>2 DEF Release
  <2>3. CASE Collect(x) \/ Try(x)
    <3>1. PICK y : queries' = (queries \ {x}) \cup {y} /\ y.id = x.id
      BY <2>3, OwnStep DEF Becomes
    <3> QED
      BY <3>1
  <2> QED
    BY <2>1, <2>2, <2>3
<1>2. ASSUME NEW i \in Queries, NEW ruled \in BOOLEAN, Forward(i, ruled) PROVE OneEach'
  <2> DEFINE y == [id |-> i, step |-> "collect", unread |-> Configured(ruled), left |-> Nothing,
                   tried |-> {}, spared |-> {a \in Addresses : Configured(ruled)[a] > 0
                                                              /\ ~disabledUpstream(a)}]
  <2>1. queries' = queries \cup {y} /\ y.id = i
    BY <1>2 DEF Forward
  <2> HIDE DEF y
  <2>2. \A x \in queries : x.id # i
    BY <1>2 DEF Forward
  <2> QED
    BY <2>1, <2>2
<1>3. ASSUME NEW a \in Addresses, Probe(a) PROVE OneEach'
  <2>1. CASE UNCHANGED queries
    BY <2>1
  <2>2. CASE queries' = {[z EXCEPT !.spared = @ \ {a}] : z \in queries}
    <3> DEFINE less(z) == [z EXCEPT !.spared = @ \ {a}]
    <3>1. \A z \in queries : less(z).id = z.id
      BY DEF IInv, TypeOK, Query
    <3>2. ASSUME NEW u \in queries, NEW v \in queries, less(u).id = less(v).id
          PROVE  less(u) = less(v)
      <4>1. u = v
        BY <3>1, <3>2
      <4> QED
        BY <4>1, Zenon
    <3>3. queries' = {less(z) : z \in queries}
      BY <2>2
    <3> HIDE DEF less
    <3> QED
      BY <3>2, <3>3
  <2> QED
    BY <1>3, <2>1, <2>2 DEF Probe, ProbeAnswered, ProbeFailed
<1>4. CASE ReadList \/ RoundEnds \/ Stop \/ \E a \in Addresses : handleUpstreams(a) \/ Toggle(a)
  BY <1>4 DEF ReadList, RoundEnds, Stop, handleUpstreams, Toggle
<1>5. CASE UNCHANGED vars
  BY <1>5 DEF vars
<1> QED
  BY <1>1, <1>2, <1>3, <1>4, <1>5 DEF Next, Monitor

(* Every step of a query's goroutine brings it nearer to its end, and       *)
(* nothing the monitor, requests and other queries do takes it back: with   *)
(* finitely many upstreams it has finitely many steps ahead.                *)
QueriesComeNearer == \A i \in Queries : ComesNearer(i)

THEOREM QueriesAdvance == Spec => [][QueriesComeNearer]_vars
<1>1. Init => OneEach
  BY DEF Init, OneEach
<1>2. IInv /\ OneEach /\ [Next]_vars => OneEach'
  BY OneEachStep
<1>3. ASSUME IInv, OneEach, [Next]_vars PROVE QueriesComeNearer
  <2> SUFFICES ASSUME NEW i \in Queries, NEW x \in queries, x.id = i,
                      ~\A y \in queries' : y.id # i
               PROVE  \E y \in queries' :
                        y.id = i /\ (Nearer(x, y) \/ (~Answer(i) /\ AsNear(x, y)))
    BY DEF QueriesComeNearer, ComesNearer
  <2>1. CASE Answer(i)
    <3>1. Collect(x) \/ Try(x) \/ Release(x)
      BY <1>3, <2>1 DEF Answer, OneEach
    <3>2. CASE Release(x)
      BY <1>3, <3>2 DEF Release, OneEach
    <3>3. CASE Collect(x) \/ Try(x)
      BY <1>3, <3>3, OwnStep DEF Becomes
    <3> QED
      BY <3>1, <3>2, <3>3
  <2>2. CASE ~Answer(i)
    BY <1>3, <2>2, OthersStep
  <2> QED
    BY <2>1, <2>2
<1>4. IInv /\ OneEach /\ [Next]_vars => [QueriesComeNearer]_vars
  BY <1>3
<1> QED
  BY <1>1, <1>2, <1>4, Invariance, PTL DEF Spec

-----------------------------------------------------------------------------
(* What ListedRecover rests on: every round reaches every listed upstream, *)
(* and ends.                                                               *)

Owed(a) == toProbe[a] > 0

(* Between two rounds nothing is owed. *)
Rested == monitor # "probing" => \A a \in Addresses : ~Owed(a)

(* A probe decides: who answers the last one of a round is not excluded,    *)
(* and nothing but a probe that fails excludes.                             *)
Judged(a) == /\ Owed(a) /\ ~Owed(a)' /\ a \in up => a \notin unhealthy'
             /\ a \in unhealthy' => a \in unhealthy \/ a \notin up

(* A round begins with a probe owed to each listed upstream, each step of   *)
(* it pays one, requests and queries that come between pay none, and it is  *)
(* over when none is owed.                                                  *)
RoundsComeNearer ==
  /\ monitor = "waiting" /\ monitor' # "waiting" =>
       \A a \in Addresses \ Endpoints : listed[a] > 0 => Owed(a)'
  /\ monitor = "probing" /\ monitor' = "probing" =>
       IF Monitor THEN /\ \A a \in Addresses : toProbe'[a] <= toProbe[a]
                       /\ \E a \in Addresses : toProbe'[a] < toProbe[a]
                  ELSE UNCHANGED toProbe
  /\ monitor = "probing" /\ monitor' # "probing" => \A a \in Addresses : ~Owed(a)
  /\ \A a \in Addresses : Judged(a)

THEOREM RoundsAdvance == Spec => [][RoundsComeNearer]_vars
<1>1. ASSUME IInv, Rested, [Next]_vars PROVE RoundsComeNearer /\ Rested'
  <2> USE DEF RoundsComeNearer, Judged, Owed, Rested
  <2>1. ASSUME NEW a \in Addresses, Probe(a) PROVE RoundsComeNearer /\ Rested'
    <3>1. toProbe \in Bag /\ \A b \in Addresses : toProbe[b] \in Nat
      BY <1>1, BoundsOK DEF BoundsOK, IInv, TypeOK, Bag
    <3>2. /\ monitor = "probing" /\ monitor' = "probing"
          /\ toProbe'[a] = toProbe[a] - 1
          /\ \A b \in Addresses \ {a} : toProbe'[b] = toProbe[b]
      BY <2>1, <3>1, LessIsBag DEF Probe
    <3>3. /\ \A b \in Addresses : toProbe'[b] <= toProbe[b]
          /\ toProbe'[a] < toProbe[a]
      BY <3>1, <3>2
    <3>4. \A b \in Addresses : Judged(b)
      <4>1. CASE a \in up
        BY <2>1, <3>2, <4>1 DEF Probe, ProbeAnswered
      <4>2. CASE a \notin up
        BY <2>1, <3>2, <4>2 DEF Probe, ProbeFailed
      <4> QED
        BY <4>1, <4>2
    <3>5. Monitor
      BY <2>1 DEF Monitor
    <3> QED
      BY <3>2, <3>3, <3>4, <3>5, Zenon
  <2>2. CASE ReadList
    BY <1>1, <2>2 DEF ReadList
  <2>3. CASE RoundEnds
    BY <1>1, <2>3 DEF RoundEnds, Nothing
  <2>4. CASE UNCHANGED health
    <3>1. Monitor /\ monitor = "probing" => monitor' # "probing"
      <4>1. ASSUME NEW a \in Addresses, Probe(a) PROVE FALSE
        <5>1. toProbe'[a] = toProbe[a] - 1 /\ toProbe[a] \in Nat
          BY <1>1, <4>1, LessIsBag, BoundsOK DEF BoundsOK, Probe, IInv, TypeOK, Bag
        <5> QED
          BY <2>4, <5>1 DEF health
      <4>2. RoundEnds => monitor' # "probing"
        BY DEF RoundEnds
      <4> QED
        BY <4>1, <4>2 DEF Monitor, ReadList
    <3> QED
      BY <1>1, <2>4, <3>1 DEF health
  <2>5. (\E i \in Queries : Answer(i) \/ \E ruled \in BOOLEAN : Forward(i, ruled))
          => UNCHANGED health
    BY DEF Answer, Collect, Try, Release, Forward
  <2>6. Stop \/ (\E a \in Addresses : handleUpstreams(a) \/ Toggle(a)) => UNCHANGED health
    BY DEF Stop, handleUpstreams, Toggle
  <2>7. UNCHANGED vars => UNCHANGED health
    BY DEF vars
  <2> QED
    BY <1>1, <2>1, <2>2, <2>3, <2>4, <2>5, <2>6, <2>7 DEF Next, Monitor
<1>2. Init => Rested
  BY DEF Init, Rested, Owed, Nothing
<1>3. IInv /\ Rested /\ [Next]_vars => Rested' /\ [RoundsComeNearer]_vars
  BY <1>1
<1> QED
  BY <1>2, <1>3, Invariance, PTL DEF Spec

-----------------------------------------------------------------------------
(* Why ListedRecover asks that the upstream be listed.                     *)

(* Excluded, and not on the list nor on the monitor's copy of it. *)
Forgotten(a) == a \in unhealthy /\ listed[a] = 0 /\ toProbe[a] = 0

(* An upstream that left the list while it was excluded stays excluded,     *)
(* though it answers and a conditional-forwarding rule names it, until a    *)
(* request lists it again.                                                  *)
ForgottenStay == \A a \in Addresses : Forgotten(a) => Forgotten(a)' \/ listed'[a] > 0

THEOREM ForgottenUpstreamsStay == Spec => [][ForgottenStay]_vars
<1>1. ASSUME IInv, IInv', [Next]_vars PROVE ForgottenStay
  <2> SUFFICES ASSUME NEW a \in Addresses, Forgotten(a), ~(listed'[a] > 0)
               PROVE  Forgotten(a)'
    BY DEF ForgottenStay
  <2>0. listed'[a] = 0
    BY <1>1, BoundsOK DEF BoundsOK, IInv, TypeOK, Bag
  <2> USE <2>0 DEF Forgotten
  <2>1. ASSUME NEW b \in Addresses, Probe(b) PROVE Forgotten(a)'
    <3>1. b # a
      BY <2>1 DEF Probe
    <3>2. toProbe'[a] = toProbe[a]
      BY <1>1, <2>1, <3>1, LessIsBag DEF Probe, IInv, TypeOK
    <3>3. a \in unhealthy'
      BY <2>1, <3>1 DEF Probe, ProbeAnswered, ProbeFailed
    <3> QED
      BY <3>2, <3>3
  <2>2. CASE ReadList
    BY <2>2 DEF ReadList, config
  <2>3. CASE RoundEnds \/ Stop \/ \E b \in Addresses : handleUpstreams(b) \/ Toggle(b)
    BY <2>3 DEF RoundEnds, Stop, handleUpstreams, Toggle, health
  <2>4. CASE \E i \in Queries : Answer(i) \/ \E ruled \in BOOLEAN : Forward(i, ruled)
    BY <2>4 DEF Answer, Collect, Try, Release, Forward, health
  <2>5. CASE UNCHANGED vars
    BY <2>5 DEF vars, health
  <2> QED
    BY <1>1, <2>1, <2>2, <2>3, <2>4, <2>5 DEF Next, Monitor
<1>2. IInv /\ IInv' /\ [Next]_vars => [ForgottenStay]_vars
  BY <1>1
<1> QED
  BY <1>2, Invariance, PTL DEF Spec
=============================================================================
