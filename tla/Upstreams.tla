------------------------------ MODULE Upstreams ------------------------------
(***************************************************************************)
(* Forwarding (upstream.go forward) against the health monitor             *)
(* (monitorUpstreams) and the requests that edit the upstreams             *)
(* (clients_api.go).  A query collects its targets one by one under        *)
(* healthMu, then tries them in any order; meanwhile the monitor probes    *)
(* the list it copied, which a request may have changed since.             *)
(***************************************************************************)
EXTENDS Naturals, FiniteSets

CONSTANTS Queries,        \* the goroutines that resolve
          Addresses,      \* what the upstreams and rules may name
          Endpoints,      \* those that are UpstreamEndpoints: never probed
          Rule,           \* the upstreams of an enabled conditional-forwarding rule
          FailuresNeeded, \* UpstreamHealth.Failures when the monitor started
          MaxListed       \* a bound on how often an address is listed

ASSUME AddressesOK == Endpoints \subseteq Addresses /\ Rule \subseteq Addresses \ Endpoints

ASSUME BoundsOK == FailuresNeeded \in Nat \ {0} /\ MaxListed \in Nat \ {0}

VARIABLES
  listed,    \* how often cfg.Upstreams or cfg.UpstreamEndpoints has an address
  disabled,  \* cfg.DisabledUpstreams
  unhealthy, \* d.unhealthyUpstreams
  failures,  \* the monitor's counts; beyond FailuresNeeded they are alike
  monitor,   \* where monitorUpstreams is
  toProbe,   \* what is left of its copy of cfg.Upstreams
  stopping,  \* stopCh is closed
  up,        \* the upstreams that answer now
  queries    \* the calls of forward

config == <<listed, disabled>>
health == <<unhealthy, failures, monitor, toProbe>>
vars == <<config, health, stopping, up, queries>>

Bag == [Addresses -> 0..MaxListed]

Nothing == [a \in Addresses |-> 0]

Less(bag, a) == [bag EXCEPT ![a] = @ - 1]

Plus(bag, a) == [bag EXCEPT ![a] = @ + 1]

(* unread is what is left of the configured list, left the targets not     *)
(* tried yet, tried those that failed.  spared is a history variable: the  *)
(* addresses that were enabled for the whole of the call.                  *)
Query == [id : Queries, step : {"collect", "try", "answered", "failed"},
          unread : Bag, left : Bag, tried : SUBSET Addresses, spared : SUBSET Addresses]

TypeOK ==
  /\ listed \in Bag
  /\ disabled \subseteq Addresses
  /\ unhealthy \subseteq Addresses \ Endpoints
  /\ failures \in [Addresses -> 0..FailuresNeeded]
  /\ monitor \in {"waiting", "probing", "ended"}
  /\ toProbe \in Bag
  /\ stopping \in BOOLEAN
  /\ up \subseteq Addresses
  /\ queries \subseteq Query

Init ==
  /\ listed \in Bag
  /\ listed # Nothing
  /\ disabled = {}
  /\ unhealthy = {}
  /\ failures = Nothing
  /\ monitor = "waiting"
  /\ toProbe = Nothing
  /\ stopping = FALSE
  /\ up \in SUBSET Addresses
  /\ queries = {}

-----------------------------------------------------------------------------
(* A query.                                                                *)

disabledUpstream(a) == a \in unhealthy \cup disabled

(* upstreamsForQuery, and the endpoints: a rule replaces the former only.  *)
Configured(ruled) ==
  [a \in Addresses |-> IF ~ruled \/ a \in Endpoints THEN listed[a]
                       ELSE IF a \in Rule THEN 1 ELSE 0]

Forward(i, ruled) ==
  /\ \A x \in queries : x.id # i
  /\ queries' = queries \cup
       {[id |-> i, step |-> "collect", unread |-> Configured(ruled), left |-> Nothing,
         tried |-> {},
         spared |-> {a \in Addresses : Configured(ruled)[a] > 0 /\ ~disabledUpstream(a)}]}
  /\ UNCHANGED <<config, health, stopping, up>>

Becomes(x, y) == queries' = (queries \ {x}) \cup {y}

Collect(x) ==
  /\ x.step = "collect"
  /\ IF x.unread = Nothing
     THEN Becomes(x, [x EXCEPT !.step = "try"])
     ELSE \E a \in Addresses :
            /\ x.unread[a] > 0
            /\ Becomes(x, [x EXCEPT !.unread = Less(@, a),
                                    !.left = IF disabledUpstream(a) THEN @ ELSE Plus(@, a)])
  /\ UNCHANGED <<config, health, stopping, up>>

(* A mutant: the first failure is the reply. *)
GivesUp(x, a) == Becomes(x, [x EXCEPT !.step = "failed", !.tried = @ \cup {a}])

(* A mutant: the failed target is tried again. *)
Retries(x, a) == Becomes(x, [x EXCEPT !.tried = @ \cup {a}])

TargetFails(x, a) == Becomes(x, [x EXCEPT !.left = Less(@, a), !.tried = @ \cup {a}])

(* An exchange gets a valid reply or an error, which a reply to another    *)
(* question is too; an upstream that does not answer gives the latter.     *)
Try(x) ==
  /\ x.step = "try"
  /\ IF x.left = Nothing
     THEN Becomes(x, [x EXCEPT !.step = "failed"])
     ELSE \E a \in Addresses :
            /\ x.left[a] > 0
            /\ \/ a \in up /\ Becomes(x, [x EXCEPT !.step = "answered"])
               \/ TargetFails(x, a)
  /\ UNCHANGED <<config, health, stopping, up>>

(* The reply is written and cfgMu released. *)
Release(x) ==
  /\ x.step \in {"answered", "failed"}
  /\ queries' = queries \ {x}
  /\ UNCHANGED <<config, health, stopping, up>>

-----------------------------------------------------------------------------
(* The monitor.                                                            *)

(* A mutant: what is excluded is not probed. *)
ReadEnabled ==
  /\ monitor = "waiting"
  /\ monitor' = "probing"
  /\ toProbe' = [a \in Addresses |->
                   IF a \in Endpoints \/ disabledUpstream(a) THEN 0 ELSE listed[a]]
  /\ UNCHANGED <<config, unhealthy, failures, stopping, up, queries>>

(* The copy made under cfgMu.RLock; endpoints are not in it, and neither   *)
(* is what only a rule names.                                              *)
ReadList ==
  /\ monitor = "waiting"
  /\ monitor' = "probing"
  /\ toProbe' = [a \in Addresses |-> IF a \in Endpoints THEN 0 ELSE listed[a]]
  /\ UNCHANGED <<config, unhealthy, failures, stopping, up, queries>>

(* A mutant: good again, but for the count. *)
ProbeForgiven(a) ==
  /\ unhealthy' = unhealthy \ {a}
  /\ UNCHANGED <<failures, queries>>

ProbeAnswered(a) ==
  /\ failures' = [failures EXCEPT ![a] = 0]
  /\ unhealthy' = unhealthy \ {a}
  /\ UNCHANGED queries

ProbeFailed(a) ==
  LET count == IF failures[a] < FailuresNeeded THEN failures[a] + 1 ELSE failures[a] IN
    /\ failures' = [failures EXCEPT ![a] = count]
    /\ IF count >= FailuresNeeded
       THEN /\ unhealthy' = unhealthy \cup {a}
            /\ queries' = {[x EXCEPT !.spared = @ \ {a}] : x \in queries}
       ELSE UNCHANGED <<unhealthy, queries>>

Probe(a) ==
  /\ monitor = "probing"
  /\ toProbe[a] > 0
  /\ toProbe' = Less(toProbe, a)
  /\ IF a \in up THEN ProbeAnswered(a) ELSE ProbeFailed(a)
  /\ UNCHANGED <<config, monitor, stopping, up>>

(* The ticker fires only after the last probe; stopCh ends the wait, and   *)
(* when both are ready either is taken.                                    *)
RoundEnds ==
  /\ monitor = "probing"
  /\ toProbe = Nothing
  /\ \/ monitor' = "waiting"
     \/ stopping /\ monitor' = "ended"
  /\ UNCHANGED <<config, unhealthy, failures, toProbe, stopping, up, queries>>

-----------------------------------------------------------------------------
(* Requests: they hold cfgMu, so no query is under way (configGuard), and  *)
(* they keep what validateConfig wants, an upstream or an endpoint.        *)

Commits == queries = {} /\ listed' # Nothing

Post(a) ==
  /\ listed[a] < MaxListed
  /\ listed' = Plus(listed, a)
  /\ UNCHANGED disabled

Patch(a, enabled) ==
  /\ disabled' = IF enabled THEN disabled \ {a} ELSE disabled \cup {a}
  /\ UNCHANGED listed

(* A mutant: the first entry is removed without a look. *)
DeleteUnseen(a) ==
  /\ listed' = Less(listed, a)
  /\ disabled' = disabled \ {a}

(* The first entry goes, of endpoints every one; the health stays.         *)
Delete(a) ==
  /\ listed' = [listed EXCEPT ![a] = IF @ = 0 \/ a \in Endpoints THEN 0 ELSE @ - 1]
  /\ disabled' = disabled \ {a}

handleUpstreams(a) ==
  /\ Post(a) \/ Patch(a, TRUE) \/ Patch(a, FALSE) \/ Delete(a)
  /\ Commits
  /\ UNCHANGED <<health, stopping, up, queries>>

(* The network's doing. *)
Toggle(a) ==
  /\ up' = IF a \in up THEN up \ {a} ELSE up \cup {a}
  /\ UNCHANGED <<config, health, stopping, queries>>

Stop ==
  /\ ~stopping
  /\ stopping' = TRUE
  /\ UNCHANGED <<config, health, up, queries>>

-----------------------------------------------------------------------------
Answer(i) == \E x \in queries : x.id = i /\ (Collect(x) \/ Try(x) \/ Release(x))

Monitor == ReadList \/ (\E a \in Addresses : Probe(a)) \/ RoundEnds

Next == \/ \E i \in Queries : Answer(i) \/ \E ruled \in BOOLEAN : Forward(i, ruled)
        \/ Monitor
        \/ \E a \in Addresses : handleUpstreams(a) \/ Toggle(a)
        \/ Stop

Spec == Init /\ [][Next]_vars

(* Exchanges and probes have timeouts, and the ticker goes on.             *)
FairSpec == Spec /\ WF_vars(Monitor) /\ \A i \in Queries : WF_vars(Answer(i))

-----------------------------------------------------------------------------
(* Properties.                                                             *)

(* A query is answered with a server failure only when it has tried in     *)
(* vain every configured upstream that was enabled while it was forwarded, *)
(* whatever the monitor decided meanwhile.                                 *)
FailsOnlyWhenAllFail == \A x \in queries : x.step = "failed" => x.spared \subseteq x.tried

(* The excluded are those that failed FailuresNeeded probes in a row, the  *)
(* last of them included: one answer and they are back.                    *)
ExcludedHaveFailed == unhealthy = {a \in Addresses : failures[a] = FailuresNeeded}

(* Every query is answered, however many upstreams are silent.             *)
QueriesEnd == \A i \in Queries : (\E x \in queries : x.id = i) ~> (\A x \in queries : x.id # i)

(* docs/CONFIGURATION.md:37 says failing servers are excluded temporarily: *)
(* an upstream that stays listed and answers is used again, whatever was   *)
(* edited and excluded before.  It takes being listed: one that only a     *)
(* conditional-forwarding rule names is not probed, and stays excluded if  *)
(* it was when it left the list.                                           *)
ListedRecover ==
  \A a \in Addresses : <>[](listed[a] > 0 /\ a \in up /\ ~stopping) => <>[](a \notin unhealthy)
=============================================================================
