------------------------- MODULE ConfigTransactions -------------------------
(***************************************************************************)
(* Who reads and who changes the configuration, and under what lock        *)
(* (auth.go configGuard, dns_server.go resolveDNS, main.go startGravity,   *)
(* lifecycle.go Start, console.go runCommand, api_core.go handleReadyz).   *)
(*                                                                         *)
(* A query holds the read lock from its first look at the policy to its    *)
(* answer, forwarding included.  A mutating request holds the write lock   *)
(* while its handler edits the configuration and, for some handlers, the   *)
(* block index beside it; a 2xx reply is then validated and written to     *)
(* config.json, and undone when either fails; any other reply is sent as   *)
(* it is.  The goroutines that load blocklists hold the write lock too.    *)
(*                                                                         *)
(* The configuration is abstracted to the set of entries it lists: manual  *)
(* block rules, which the block index repeats, and others (a client's      *)
(* name, a whitelist item, a record).  The bookkeeping fields a blocklist  *)
(* load stamps are left out: nothing decides by them.                      *)
(***************************************************************************)
EXTENDS RWMutex

CONSTANTS Queries,    \* DNS queries, GET requests and other readers
          Probes,     \* GET /api/readyz
          Requests,   \* mutating requests with the request header
          Gravity,    \* the goroutine of startGravity
          Loader,     \* the goroutine of Start that loads remote blocklists
          Consoles,   \* the command line of the local console, if there is one
          Rules,      \* manual block rules
          Others,     \* other entries
          Invalid     \* entries validateConfig refuses

Writers == Requests \cup Consoles \cup {Gravity, Loader}
Readers == Queries \cup Probes

ASSUME GoroutinesOK ==
  /\ Goroutines = Readers \cup Writers
  /\ Queries \cap Probes = {}
  /\ Readers \cap Writers = {}
  /\ Requests \cap Consoles = {}
  /\ Gravity # Loader
  /\ {Gravity, Loader} \cap (Requests \cup Consoles) = {}

ASSUME EntriesOK == /\ Rules \cap Others = {}
                    /\ Invalid \subseteq Others

Entries == Rules \cup Others

VARIABLES
  pc,        \* where each goroutine stands
  cfg,       \* d.cfg
  index,     \* the manual rules in d.blocked
  disk,      \* config.json
  before,    \* the clone configGuard took for the request being served
  cache,     \* the configurations under which the answers in d.cache were made
  seen,      \* seen[q]: the configuration and index query q began under
  progress,  \* d.gravityProgress.Running
  leaked,    \* history: entries that an error reply or an unsaved change left edited
  stale      \* history: rules an undone request left edited in the index

configVars == <<cfg, disk, before, cache, leaked>>
indexVars == <<index, stale>>
vars == <<lockVars, pc, configVars, indexVars, seen, progress>>

Pc == {"idle", "rlock", "reading", "nested", "lock", "announced",
       "handling", "commit", "save", "saving", "report"}

DataTypeOK ==
  /\ pc \in [Goroutines -> Pc]
  /\ cfg \subseteq Entries
  /\ index \subseteq Rules
  /\ disk \subseteq Entries
  /\ before \subseteq Entries
  /\ cache \subseteq SUBSET Entries
  /\ seen \in [Queries -> (SUBSET Entries) \X (SUBSET Rules)]
  /\ progress \in {"idle", "running"}
  /\ leaked \subseteq Entries
  /\ stale \subseteq Rules

TypeOK == LockTypeOK /\ DataTypeOK

(* Start has loaded a saved configuration and built the index from it; the *)
(* loader runs if the configuration subscribes to a remote blocklist.      *)
Init ==
  /\ LockInit
  /\ \E p \in {"idle", "lock"} :
       pc = [g \in Goroutines |-> IF g = Loader THEN p ELSE "idle"]
  /\ cfg = {}
  /\ index = {}
  /\ disk = {}
  /\ before = {}
  /\ cache = {}
  /\ seen = [q \in Queries |-> <<{}, {}>>]
  /\ progress = "idle"
  /\ leaked = {}
  /\ stale = {}

Steps(g, from, to) == pc[g] = from /\ pc' = [pc EXCEPT ![g] = to]

Delta(a, b) == (a \ b) \cup (b \ a)

Valid == cfg \cap Invalid = {}

-----------------------------------------------------------------------------
(* Readers.                                                                *)

QueryArrives(q) ==
  /\ Steps(q, "idle", "rlock")
  /\ RLock(q)
  /\ UNCHANGED <<writer, configVars, indexVars, seen, progress>>

(* The policy is decided and the upstreams chosen. *)
QueryReads(q) ==
  /\ HasRead(q, 1)
  /\ Steps(q, "rlock", "reading")
  /\ seen' = [seen EXCEPT ![q] = <<cfg, index>>]
  /\ UNCHANGED <<lockVars, configVars, indexVars, progress>>

(* The upstream has answered: the answer is checked, perhaps cached, and   *)
(* sent.                                                                   *)
QueryAnswers(q) ==
  /\ Steps(q, "reading", "idle")
  /\ RUnlock(q)
  /\ cache' \in {cache, cache \cup {seen[q][1]}}
  /\ seen' = [seen EXCEPT ![q] = <<{}, {}>>]
  /\ UNCHANGED <<writer, parked, cfg, disk, before, leaked, indexVars, progress>>

ProbeArrives(p) ==
  /\ Steps(p, "idle", "rlock")
  /\ RLock(p)
  /\ UNCHANGED <<writer, configVars, indexVars, seen, progress>>

(* handleReadyz asks for the read lock configGuard already holds for it. *)
ProbeLocksAgain(p) ==
  /\ HasRead(p, 1)
  /\ Steps(p, "rlock", "nested")
  /\ RLock(p)
  /\ UNCHANGED <<writer, configVars, indexVars, seen, progress>>

ProbeUnlocks(p) ==
  /\ \/ HasRead(p, 2) /\ Steps(p, "nested", "reading")
     \/ HasRead(p, 1) /\ Steps(p, "reading", "idle")
  /\ RUnlock(p)
  /\ UNCHANGED <<writer, parked, configVars, indexVars, seen, progress>>

Read == \/ \E q \in Queries : QueryArrives(q) \/ QueryReads(q) \/ QueryAnswers(q)
        \/ \E p \in Probes : ProbeArrives(p) \/ ProbeLocksAgain(p) \/ ProbeUnlocks(p)

-----------------------------------------------------------------------------
(* Mutating requests.                                                      *)

RequestArrives(m) ==
  /\ Steps(m, "idle", "lock")
  /\ UNCHANGED <<lockVars, configVars, indexVars, seen, progress>>

(* The first half of cfgMu.Lock, for whoever called it. *)
WriterAnnounces(g) ==
  /\ Steps(g, "lock", "announced")
  /\ Announce(g)
  /\ UNCHANGED <<holds, parked, configVars, indexVars, seen, progress>>

(* configGuard has the lock and clones the configuration. *)
RequestBegins(m) ==
  /\ Writing(m)
  /\ Steps(m, "announced", "handling")
  /\ before' = cfg
  /\ UNCHANGED <<lockVars, cfg, disk, cache, leaked, indexVars, seen, progress>>

(* A handler that edits manual rules: the index follows at once. *)
HandleRule(m, r) ==
  /\ Steps(m, "handling", "commit")
  /\ \/ cfg' = cfg \cup {r} /\ index' = index \cup {r}
     \/ cfg' = cfg \ {r} /\ index' = index \ {r}
  /\ UNCHANGED <<lockVars, disk, before, cache, leaked, stale, seen, progress>>

(* A handler that edits something else. *)
HandleOther(m, e) ==
  /\ Steps(m, "handling", "commit")
  /\ cfg' = Delta(cfg, {e})
  /\ UNCHANGED <<lockVars, disk, before, cache, leaked, indexVars, seen, progress>>

(* A mutant: the manual rules are not put back into the emptied index. *)
ClearIndex == index' = {} /\ stale' = {}

(* A mutant: every entry of the configuration goes into the index. *)
IndexEverything == index' = cfg /\ stale' = {}

(* resetBlocked and initBlocked, before the lists are loaded. *)
RebuildIndex == index' = cfg \cap Rules /\ stale' = {}

(* A handler that rebuilds the index: a blocklist edit, or /api/reload. *)
HandleReload(m) ==
  /\ Steps(m, "handling", "commit")
  /\ RebuildIndex
  /\ UNCHANGED <<lockVars, configVars, seen, progress>>

(* /api/gravity/start, with no load running. *)
HandleGravityStart(m) ==
  /\ progress = "idle"
  /\ pc[m] = "handling"
  /\ pc' = [pc EXCEPT ![m] = "commit", ![Gravity] = "lock"]
  /\ progress' = "running"
  /\ UNCHANGED <<lockVars, configVars, indexVars, seen>>

(* Any refusal before an edit: 401, 403, 404, 405, 409, most of 400. *)
HandleRefuses(m) ==
  /\ Steps(m, "handling", "idle")
  /\ Unlock
  /\ before' = {}
  /\ UNCHANGED <<cfg, disk, cache, leaked, indexVars, seen, progress>>

(* A refusal after an edit: a client is named and whitelisted before its   *)
(* profile is found missing; records are imported up to the bad line.      *)
HandleEditsThenRefuses(m, e) ==
  /\ Steps(m, "handling", "idle")
  /\ cfg' = Delta(cfg, {e})
  /\ leaked' = leaked \cup {e}
  /\ Unlock
  /\ before' = {}
  /\ UNCHANGED <<disk, cache, indexVars, seen, progress>>

(* A mutant: the clone is taken and never put back. *)
UndoNothing(m) ==
  /\ Steps(m, "commit", "idle")
  /\ Unlock
  /\ before' = {}
  /\ UNCHANGED <<cfg, disk, cache, leaked, indexVars, seen, progress>>

(* A mutant: the failed save returns with the lock held. *)
UndoLocked(m) ==
  /\ Steps(m, "commit", "idle")
  /\ cfg' = before
  /\ before' = {}
  /\ stale' = stale \cup Delta(index, before \cap Rules)
  /\ UNCHANGED <<lockVars, disk, cache, leaked, index, seen, progress>>

(* A 2xx reply that does not validate (400), or whose write to config.json *)
(* fails (500): the configuration is the clone again, the index is not.    *)
RequestUndone(m) ==
  /\ Steps(m, "commit", "idle")
  /\ cfg' = before
  /\ Unlock
  /\ before' = {}
  /\ stale' = stale \cup Delta(index, before \cap Rules)
  /\ UNCHANGED <<disk, cache, leaked, index, seen, progress>>

(* A mutant: the answers made under the old configuration are kept. *)
CommitKeepingCache(m) ==
  /\ Steps(m, "commit", "idle")
  /\ Valid
  /\ disk' = cfg
  /\ Unlock
  /\ before' = {}
  /\ UNCHANGED <<cfg, cache, leaked, indexVars, seen, progress>>

(* A 2xx reply that validates and is saved; the response cache is cleared. *)
RequestCommits(m) ==
  /\ Steps(m, "commit", "idle")
  /\ Valid
  /\ disk' = cfg
  /\ cache' = {}
  /\ Unlock
  /\ before' = {}
  /\ UNCHANGED <<cfg, leaked, indexVars, seen, progress>>

Serve(m) == \/ RequestArrives(m) \/ WriterAnnounces(m) \/ RequestBegins(m)
            \/ \E r \in Rules : HandleRule(m, r)
            \/ \E e \in Others : HandleOther(m, e) \/ HandleEditsThenRefuses(m, e)
            \/ HandleReload(m) \/ HandleGravityStart(m) \/ HandleRefuses(m)
            \/ RequestUndone(m) \/ RequestCommits(m)

-----------------------------------------------------------------------------
(* The goroutines that load blocklists under the write lock, downloads     *)
(* included.                                                               *)

(* The target is not a blocklist: nothing is loaded. *)
GravityFails ==
  /\ Writing(Gravity)
  /\ Steps(Gravity, "announced", "report")
  /\ Unlock
  /\ UNCHANGED <<configVars, indexVars, seen, progress>>

GravityLoads ==
  /\ Writing(Gravity)
  /\ Steps(Gravity, "announced", "save")
  /\ RebuildIndex
  /\ UNCHANGED <<lockVars, configVars, seen, progress>>

(* A remote list adds to the index the manual rules are already in. *)
LoaderLoads ==
  /\ Writing(Loader)
  /\ Steps(Loader, "announced", "save")
  /\ UNCHANGED <<lockVars, configVars, indexVars, seen, progress>>

(* A mutant: the configuration is written as it is. *)
SaveUnchecked == disk' \in {disk, cfg}

(* saveConfigLocked, which may fail; the configuration is not undone. *)
SaveConfig == \/ UNCHANGED disk
              \/ Valid /\ disk' = cfg

GravitySaves ==
  /\ Steps(Gravity, "save", "report")
  /\ SaveConfig
  /\ Unlock
  /\ UNCHANGED <<cfg, before, cache, leaked, indexVars, seen, progress>>

LoaderSaves ==
  /\ Steps(Loader, "save", "idle")
  /\ SaveConfig
  /\ Unlock
  /\ UNCHANGED <<cfg, before, cache, leaked, indexVars, seen, progress>>

(* A mutant: the goroutine leaves without saying so. *)
ReportNothing ==
  /\ Steps(Gravity, "report", "idle")
  /\ UNCHANGED <<lockVars, configVars, indexVars, seen, progress>>

GravityReports ==
  /\ Steps(Gravity, "report", "idle")
  /\ progress' = "idle"
  /\ UNCHANGED <<lockVars, configVars, indexVars, seen>>

Load == \/ WriterAnnounces(Gravity) \/ GravityFails \/ GravityLoads
        \/ GravitySaves \/ GravityReports
        \/ WriterAnnounces(Loader) \/ LoaderLoads \/ LoaderSaves

-----------------------------------------------------------------------------
(* The command line of the local console.                                  *)

CommandArrives(c) ==
  /\ Steps(c, "idle", "lock")
  /\ UNCHANGED <<lockVars, configVars, indexVars, seen, progress>>

(* A command that only lists something, or is unknown. *)
CommandLists(c) ==
  /\ Writing(c)
  /\ Steps(c, "announced", "idle")
  /\ Unlock
  /\ UNCHANGED <<configVars, indexVars, seen, progress>>

(* reload: the index is rebuilt and nothing is saved. *)
CommandReloads(c) ==
  /\ Writing(c)
  /\ Steps(c, "announced", "idle")
  /\ RebuildIndex
  /\ Unlock
  /\ UNCHANGED <<configVars, seen, progress>>

(* user, blocklist, upstream or whitelist with an argument. *)
CommandEdits(c, e) ==
  /\ Writing(c)
  /\ Steps(c, "announced", "save")
  /\ cfg' = Delta(cfg, {e})
  /\ leaked' = leaked \cup {e}
  /\ UNCHANGED <<lockVars, disk, before, cache, indexVars, seen, progress>>

(* saveConfig asks for the read lock under the write lock; no step follows. *)
CommandSaves(c) ==
  /\ Steps(c, "save", "saving")
  /\ RLock(c)
  /\ UNCHANGED <<writer, configVars, indexVars, seen, progress>>

Command(c) == \/ CommandArrives(c) \/ WriterAnnounces(c)
              \/ CommandLists(c) \/ CommandReloads(c)
              \/ \E e \in Others : CommandEdits(c, e)
              \/ CommandSaves(c)

-----------------------------------------------------------------------------
Next == \/ Read
        \/ \E m \in Requests : Serve(m)
        \/ Load
        \/ \E c \in Consoles : Command(c)

(* Goroutines are scheduled, handlers and file operations return, forwarded *)
(* queries are answered or time out, and Go's mutex, which hands itself to  *)
(* a writer kept waiting, starves nobody.  Queries, requests and commands   *)
(* need not come.                                                           *)
ReadFairness ==
  /\ \A q \in Queries : WF_vars(QueryReads(q) \/ QueryAnswers(q))
  /\ \A p \in Probes : WF_vars(ProbeLocksAgain(p) \/ ProbeUnlocks(p))

WriteFairness ==
  /\ \A g \in Writers : SF_vars(WriterAnnounces(g))
  /\ \A m \in Requests : WF_vars(Serve(m) /\ pc[m] # "idle")
  /\ WF_vars(Load)
  /\ \A c \in Consoles : WF_vars(Command(c) /\ pc[c] # "idle")

Spec == Init /\ [][Next]_vars

FairSpec == Spec /\ ReadFairness /\ WriteFairness

-----------------------------------------------------------------------------
(* Properties.                                                             *)

(* No request is between its edits and its commit. *)
Settled == \A m \in Requests : pc[m] # "commit"

(* A query is decided, forwarded and checked under one configuration and   *)
(* one block index, however long the upstream takes and whoever waits to   *)
(* change them.                                                            *)
QueryStable == \A q \in Queries : pc[q] = "reading" => seen[q] = <<cfg, index>>

(* What the server runs on is what config.json says, except for entries    *)
(* edited by a request that was refused or a command that was not saved:   *)
(* a failed commit is undone, a 2xx reply is durable.                      *)
DiskMatchesConfig == Settled => Delta(cfg, disk) \subseteq leaked

(* config.json is always a configuration the next start accepts, whatever  *)
(* a refused request left in memory.                                       *)
DiskIsValid == disk \cap Invalid = {}

(* The block index repeats the manual rules, except those a request edited *)
(* and could not commit.                                                   *)
IndexMatchesConfig == Delta(index, cfg \cap Rules) \subseteq stale

(* No answer made under a configuration a request has since replaced is    *)
(* served from the cache.                                                  *)
CacheIsCurrent == Settled => \A c \in cache : Delta(c, cfg) \subseteq leaked

(* The configuration in force: the clone, while a request has edited cfg   *)
(* and is not yet committed.                                               *)
CfgInForce == IF Settled THEN cfg ELSE before

(* The queries that hold the read lock and are past their first look.      *)
Underway == {q \in Queries : pc[q] = "reading"}

Store == INSTANCE ConfigStore WITH memory <- CfgInForce, file <- disk,
                                   strayed <- leaked, answers <- cache,
                                   reading <- Underway

(* For whoever holds the read lock, an edit of the configuration, its      *)
(* check, its file, its undoing and the clearing of the cache are one step *)
(* or none, wherever the goroutines stand.                                 *)
ImplementsConfigStore == Store!Spec

(* g waits for the lock, or for itself. *)
Waits(g) == \/ pc[g] = "rlock" /\ ~HasRead(g, 1)
            \/ pc[g] = "nested" /\ ~HasRead(g, 2)
            \/ pc[g] = "lock" /\ writer # NoOne
            \/ pc[g] = "announced" /\ ~Writing(g)
            \/ pc[g] = "saving"

(* g has the lock and is on its way to give it back. *)
Works(g) == ~Waits(g) /\ (holds[g] > 0 \/ writer = g)

(* The two ways to wait for oneself: a probe that asks again behind a      *)
(* writer, and a console that saves under its own lock.                    *)
Knotted == \/ \E g \in parked : pc[g] = "nested"
           \/ \E g \in Goroutines : pc[g] = "saving"

(* Whoever waits for the lock waits for somebody who works: no unlock is   *)
(* forgotten on any path, no reader is left parked behind a writer that    *)
(* went, and no circle of waits arises but the two known ones.             *)
WaitsAreServed ==
  (\E g \in Goroutines : Waits(g)) => Knotted \/ \E g \in Goroutines : Works(g)

(* Every query is answered though writers keep coming. *)
QueriesAnswered == \A q \in Queries : pc[q] = "rlock" ~> pc[q] = "idle"

(* Every mutating request is answered though queries keep coming. *)
RequestsAnswered == \A m \in Requests : pc[m] = "lock" ~> pc[m] = "idle"

(* A blocklist load that is shown as running ends, whatever fails in it. *)
GravityEnds == progress = "running" ~> progress = "idle"

(* docs/API.md:10 has readyz answer 503 or better, always. *)
ProbesAnswered == \A p \in Probes : pc[p] = "rlock" ~> pc[p] = "idle"

(* README.md:61 offers user, blocklist, upstream and whitelist commands:   *)
(* such a command gives the prompt back.                                   *)
CommandsReturn == \A c \in Consoles : pc[c] = "lock" ~> pc[c] = "idle"

(* docs/ARCHITECTURE.md:27: a request is one transaction.  What validation *)
(* finds wrong with it is then its own edit, never what an earlier refused *)
(* request left behind.                                                    *)
JudgedOnItsOwn == \A m \in Requests : pc[m] = "commit" => before \cap Invalid = {}
=============================================================================
