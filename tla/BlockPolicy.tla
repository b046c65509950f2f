---------------------------- MODULE BlockPolicy ----------------------------
(***************************************************************************)
(* What is blocked, and for whom (blocklists.go, policy_api.go).  The      *)
(* configuration holds the rules the administrator typed and the lists     *)
(* subscribed to; from both the server derives an index that blockDecision *)
(* reads: a map of rules with the source each came from, the sorted array  *)
(* of the names of remote lists (gravity), and for every list its          *)
(* positions in that array, so that a client profile may be limited to     *)
(* some lists.  The index is edited in place by some requests, rebuilt by  *)
(* others, filled in two stages at start-up, and not undone with a request *)
(* that fails.                                                             *)
(*                                                                         *)
(* Writers hold cfgMu and queries its read side (ConfigTransactions), so   *)
(* every operation is one step.  A list has one identity for its name and  *)
(* its source, and none is called "config" or "regex".  What the sources   *)
(* yield in one load, read from the file, the network or the copy under    *)
(* gravity/, parsed, freed of each list's own exceptions and joined by its *)
(* groups, is any of Yields; a source that cannot be read yields nothing.  *)
(***************************************************************************)
EXTENDS Naturals, FiniteSets

CONSTANTS Names,     \* domain names, ordered as sort.Strings orders them
          Patterns,  \* wildcard and regular-expression rules
          Matching,  \* the pairs of a pattern and a name it matches
          Local,     \* lists read from files
          Remote,    \* lists fetched over HTTP
          Yields,    \* what the sources of all lists may yield
          Builtin,   \* the manual rules loadConfig adds to any configuration
          Legacy,    \* the list blocklist_file names, if it names one
          Manual,    \* the labels "config" and "regex"
          None       \* no label

Rules == Names \cup Patterns
Lists == Local \cup Remote

ASSUME NamesOK == /\ Names \subseteq Nat
                  /\ IsFiniteSet(Names)
                  /\ Names \cap Patterns = {}
                  /\ Matching \subseteq Patterns \X Names
                  /\ Builtin \subseteq Names

ASSUME ListsOK == /\ Local \cap Remote = {}
                  /\ Legacy \subseteq Local
                  /\ Manual \notin Lists
                  /\ None \notin Lists \cup {Manual}
                  /\ Yields \subseteq [Lists -> SUBSET Rules]

VARIABLES
  manual,   \* d.cfg.Blocked
  lists,    \* d.cfg.Blocklists: absent, enabled or disabled
  blocked,  \* d.blocked; its patterns are d.blockedPat
  label,    \* d.blockedSrc
  gravity,  \* d.gravity
  index,    \* d.gravityByList
  starting, \* is the remote load of start-up still to come?
  loaded,   \* history: the rules each list has in the index
  served,   \* history: the rules of all lists since the index was reset
  lost,     \* history: rules of lists deleted as if they were manual ones
  undone    \* history: has a request been undone since the last rebuild?

cfg == <<manual, lists>>
rules == <<blocked, label>>
names == <<gravity, index>>
vars == <<cfg, rules, names, starting, loaded, served, lost, undone>>

TypeOK ==
  /\ manual \subseteq Rules
  /\ lists \in [Lists -> {"absent", "enabled", "disabled"}]
  /\ blocked \subseteq Rules
  /\ label \in [Rules -> Local \cup {Manual, None}]
  /\ gravity \subseteq Names
  /\ \A l \in Lists : index[l] \subseteq {i \in Nat : i < Cardinality(gravity)}
  /\ starting \in BOOLEAN
  /\ loaded \in [Lists -> SUBSET Rules]
  /\ served \subseteq Rules
  /\ lost \subseteq Rules
  /\ undone \in BOOLEAN

(* loadConfig, and defaultConfig, subscribe to blocklist_file where there  *)
(* is no list at all.                                                      *)
Configured(ls) ==
  IF \A l \in Lists : ls[l] = "absent"
  THEN [l \in Lists |-> IF l \in Legacy THEN "enabled" ELSE "absent"]
  ELSE ls

(* A first process, which found neither a configuration nor a list's file. *)
Init ==
  /\ manual = {}
  /\ lists = Configured([l \in Lists |-> "absent"])
  /\ blocked = {}
  /\ label = [r \in Rules |-> None]
  /\ gravity = {}
  /\ index = [l \in Lists |-> {}]
  /\ starting = TRUE
  /\ loaded = [l \in Lists |-> {}]
  /\ served = {}
  /\ lost = {}
  /\ undone = FALSE

-----------------------------------------------------------------------------
(* The index.                                                              *)

Matches(r, n) == r = n \/ <<r, n>> \in Matching

(* The place of n in a sorted array of the names in G. *)
Position(G, n) == Cardinality({m \in G : m < n})

(* rebuildGravityListIndexesLocked keeps what is in gravity. *)
Positions(G, N) == {Position(G, n) : n \in N \cap G}

(* What the lists of L yield in one load; the others are not read. *)
Readings(L) == {[l \in Lists |-> IF l \in L THEN c[l] ELSE {}] : c \in Yields}

Union(c, L) == UNION {c[l] : l \in L}

(* addBlockedRuleLocked overwrites the label: that of the last local list  *)
(* that has the rule stays.  Lists may be in any order, so for each rule   *)
(* this is any of the local lists that have it.                            *)
LastOwners(c) == {f \in [Union(c, Local) -> Local] : \A r \in DOMAIN f : r \in c[f[r]]}

Labelled(M, last) ==
  [r \in Rules |-> IF r \in DOMAIN last THEN last[r]
                   ELSE IF r \in M THEN Manual ELSE None]

(* A mutant: positions count from one. *)
FillUnsorted(M, c) ==
  /\ blocked' = M \cup Union(c, Local) \cup (Union(c, Remote) \cap Patterns)
  /\ \E last \in LastOwners(c) : label' = Labelled(M, last)
  /\ gravity' = Union(c, Remote) \cap Names
  /\ index' = [l \in Lists |-> {Position(gravity', n) + 1 : n \in c[l] \cap gravity'}]

(* resetBlocked, initBlocked with the manual rules M, and a load of c:     *)
(* exact names of remote lists go to gravity, all else to the map, where   *)
(* patterns of remote lists have no label.                                 *)
Fill(M, c) ==
  /\ blocked' = M \cup Union(c, Local) \cup (Union(c, Remote) \cap Patterns)
  /\ \E last \in LastOwners(c) : label' = Labelled(M, last)
  /\ gravity' = Union(c, Remote) \cap Names
  /\ index' = [l \in Lists |-> Positions(gravity', c[l])]

Enabled(L, ls) == {l \in L : ls[l] = "enabled"}

(* The index is built anew from M and a load of the lists in L. *)
Built(M, L) ==
  \E c \in Readings(L) :
    /\ Fill(M, c)
    /\ loaded' = c
    /\ served' = Union(c, Lists)
    /\ lost' = {}

-----------------------------------------------------------------------------
(* Requests.                                                               *)

(* configGuard commits what the handler made of the configuration, or puts *)
(* the old one back and leaves the index as the handler left it.           *)
Commit(M, ls, stale) ==
  \/ /\ manual' = M
     /\ lists' = ls
     /\ undone' = stale
  \/ /\ UNCHANGED cfg
     /\ undone' = TRUE

(* POST /api/blocked and /api/regex-rules. *)
AddRule(r) ==
  /\ blocked' = blocked \cup {r}
  /\ label' = [label EXCEPT ![r] = Manual]
  /\ lost' = lost \ {r}
  /\ Commit(manual \cup {r}, lists, undone)
  /\ UNCHANGED <<names, starting, loaded, served>>

(* A mutant: the label stays when its rule goes. *)
RemoveRuleOnly(r) ==
  /\ blocked' = blocked \ {r}
  /\ lost' = lost \cup ({r} \cap served)
  /\ Commit(manual \ {r}, lists, undone)
  /\ UNCHANGED <<label, names, starting, loaded, served>>

(* DELETE /api/blocked and /api/regex-rules: removeBlockedRuleLocked does  *)
(* not ask whose rule it is.                                               *)
RemoveRule(r) ==
  /\ blocked' = blocked \ {r}
  /\ label' = [label EXCEPT ![r] = None]
  /\ lost' = lost \cup ({r} \cap served)
  /\ Commit(manual \ {r}, lists, undone)
  /\ UNCHANGED <<names, starting, loaded, served>>

(* rebuildBlocklists for the lists of ls. *)
Rebuild(ls) ==
  /\ Built(manual, Enabled(Lists, ls))
  /\ Commit(manual, ls, FALSE)
  /\ UNCHANGED starting

(* POST, PATCH and DELETE /api/blocklists; PATCH may also leave a list as  *)
(* it is and change its exceptions or groups.                              *)
AddList(l) == lists[l] = "absent" /\ Rebuild([lists EXCEPT ![l] = "enabled"])

PatchList(l) ==
  /\ lists[l] # "absent"
  /\ \E status \in {"enabled", "disabled"} : Rebuild([lists EXCEPT ![l] = status])

RemoveList(l) == lists[l] # "absent" /\ Rebuild([lists EXCEPT ![l] = "absent"])

(* POST and DELETE /api/block-groups, which the contents reflect. *)
EditGroups == Rebuild(lists)

-----------------------------------------------------------------------------
(* Loads that no request waits to commit.                                  *)

(* refreshBlocklistTarget, for all lists or one of them: /api/reload, a    *)
(* gravity run, the console's gravity and reload.                          *)
Refresh ==
  /\ Built(manual, Enabled(Lists, lists))
  /\ undone' = FALSE
  /\ UNCHANGED <<cfg, starting>>

(* A new process: loadConfig, then initBlocked and loadLocalBlocklists. *)
Start ==
  /\ manual' = manual \cup Builtin
  /\ lists' = Configured(lists)
  /\ Built(manual', Enabled(Local, lists'))
  /\ starting' = TRUE
  /\ undone' = FALSE

(* A mutant: positions of lists that were not loaded now stay as they are. *)
KeepPositions(c, G, N) ==
  [l \in Lists |-> IF c[l] = {} THEN index[l] ELSE Positions(G, c[l])]

(* The positions after names N have been merged into G: those of the lists *)
(* just loaded, c, replace all there were.                                 *)
Reindexed(c, G, N) ==
  IF N = {} THEN index ELSE [l \in Lists |-> Positions(G, c[l])]

(* loadRemoteBlocklists, in the background once the server runs: nothing   *)
(* is reset, and the lists may have been loaded by a request before.       *)
LoadRemote ==
  /\ starting
  /\ \E c \in Readings(Enabled(Remote, lists)) :
       LET N == Union(c, Remote) \cap Names IN
         /\ blocked' = blocked \cup (Union(c, Remote) \cap Patterns)
         /\ gravity' = gravity \cup N
         /\ index' = Reindexed(c, gravity', N)
         /\ loaded' = [l \in Lists |-> IF l \in Local THEN loaded[l]
                                       ELSE IF N = {} THEN loaded[l] \cup c[l] ELSE c[l]]
         /\ served' = served \cup Union(c, Remote)
  /\ starting' = FALSE
  /\ UNCHANGED <<cfg, label, lost, undone>>

Next ==
  \/ \E r \in Rules : AddRule(r) \/ RemoveRule(r)
  \/ \E l \in Lists : AddList(l) \/ PatchList(l) \/ RemoveList(l)
  \/ EditGroups \/ Refresh \/ Start \/ LoadRemote

Spec == Init /\ [][Next]_vars

-----------------------------------------------------------------------------
(* Decisions.                                                              *)

(* What rules say of a name: to let it pass, to block it, or nothing.      *)
Verdicts == {"allow", "block", "silent"}

(* profileBlocklistContainsLocked. *)
OnOwnList(P, n) == n \in gravity /\ \E l \in P : Position(gravity, n) \in index[l]

(* A mutant: a limited profile knows its lists and nothing else. *)
AppliesListed(P, s) == P # {} => s \in P

(* sourceIsBlocklistLocked, profileHasBlocklistLocked and the missing      *)
(* label: does a rule labelled s apply to a profile limited to P?          *)
Applies(P, s) ==
  P # {} => s # None /\ (s \in Lists /\ lists[s] # "absent" => s \in P)

(* The part of blockDecision that reads the index; every wildcard its loop *)
(* over parent domains finds is among the patterns.                        *)
Indexed(P, n) ==
  IF label[n] # None THEN Applies(P, label[n])
  ELSE IF n \in blocked THEN P = {}
  ELSE \/ P = {} /\ n \in gravity
       \/ \E r \in blocked \cap Patterns : Matches(r, n) /\ Applies(P, label[r])

(* blockDecision for the name n and a client whose profile is limited to   *)
(* the lists P (none: unlimited).  own is what the profile says itself: to *)
(* let everything pass when it is off, or what its allowed and then its    *)
(* blocked rules say of n.  global is what the allowlist says of n and     *)
(* then the schedule.                                                      *)
BlockDecision(P, own, global, n) ==
  \/ own = "block"
  \/ /\ own = "silent"
     /\ \/ OnOwnList(P, n)
        \/ global = "block"
        \/ global = "silent" /\ Indexed(P, n)

-----------------------------------------------------------------------------
(* Properties.                                                             *)

Blocks(R, n) == \E r \in R : Matches(r, n)

(* For a client without limits the index, after any sequence of edits,     *)
(* rebuilds and restarts, says what the configuration and the lists say:   *)
(* nothing else is blocked, and nothing they name passes, but for what a   *)
(* DELETE took from a list.                                                *)
UnlimitedDecisions ==
  ~undone =>
    \A n \in Names :
      /\ BlockDecision({}, "silent", "silent", n) => Blocks(manual \cup served, n)
      /\ Blocks((manual \cup served) \ lost, n) => BlockDecision({}, "silent", "silent", n)

(* A client limited to some lists is blocked nothing on account of another *)
(* list, however the array and the positions in it have shifted; and what  *)
(* is allowed globally, only by its own rules and lists.                   *)
LimitsHold ==
  ~undone =>
    \A P \in (SUBSET Lists) \ {{}}, own, global \in Verdicts, n \in Names :
      BlockDecision(P, own, global, n) =>
        \/ own = "block"
        \/ Blocks(Union(loaded, P), n)
        \/ global = "block"
        \/ global = "silent" /\ Blocks(manual, n)

(* Such a client is blocked every name of its remote lists, whatever is    *)
(* allowed globally, and, where nothing else decides, what the manual      *)
(* rules and its local lists match, unless a local list it has not chosen  *)
(* names the same.                                                         *)
OwnListsApply ==
  ~undone =>
    \A P \in (SUBSET Lists) \ {{}}, n \in Names :
      LET own == manual \cup Union(loaded, P \cap Local)
          foreign == Union(loaded, Local \ P) IN
        /\ n \in Union(loaded, P \cap Remote) =>
             \A global \in Verdicts : BlockDecision(P, "silent", global, n)
        /\ n \notin foreign /\ Blocks(own \ (foreign \cup lost), n) =>
             BlockDecision(P, "silent", "silent", n)
=============================================================================
