------------------------- MODULE BlockPolicyProofs -------------------------
(***************************************************************************)
(* What BlockPolicy promises of the index and of the decisions read from   *)
(* it, for any names, patterns, lists and contents of lists.               *)
(***************************************************************************)
EXTENDS BlockPolicy, FiniteSetTheorems, TLAPS

Typed ==
  /\ manual \subseteq Rules
  /\ lists \in [Lists -> {"absent", "enabled", "disabled"}]
  /\ blocked \subseteq Rules
  /\ label \in [Rules -> Local \cup {Manual, None}]
  /\ gravity \subseteq Names
  /\ loaded \in [Lists -> SUBSET Rules]
  /\ served \subseteq Rules
  /\ lost \subseteq Rules

Flags == starting \in BOOLEAN /\ undone \in BOOLEAN

(* A list's positions are those of its names in the array as it is now,    *)
(* or there are none, for a local list when a later load replaced them.    *)
IndexRight ==
  \A l \in Lists : \/ index[l] = Positions(gravity, loaded[l])
                   \/ l \in Local /\ index[l] = {}

(* The array holds the names of the remote lists, and no name of a list    *)
(* is elsewhere than in the array or with a local list.                    *)
GravityRight ==
  /\ gravity \subseteq served
  /\ \A l \in Lists : loaded[l] \subseteq served
  /\ \A l \in Remote : loaded[l] \cap Names \subseteq gravity
  /\ \A n \in served \cap Names : n \in gravity \/ \E l \in Local : n \in loaded[l]

(* The map: a rule has a label when a local list or the administrator      *)
(* gives it one, and a label of a list is that of a list which has it.     *)
RulesRight ==
  /\ served \cap Patterns \subseteq blocked \cup lost
  /\ \A r \in Rules : label[r] # None => r \in blocked
  /\ \A r \in Rules : label[r] \in Local => r \in loaded[label[r]]
  /\ \A r \in blocked \cap Names : label[r] # None
  /\ \A l \in Local : \A r \in loaded[l] \ lost : label[r] # None

(* The map is that of the configuration, as long as no request is undone.  *)
RulesCurrent ==
  ~undone =>
    /\ blocked \subseteq manual \cup served
    /\ \A r \in manual : label[r] # None
    /\ \A r \in Rules : label[r] = Manual => r \in manual
    /\ \A r \in Rules : label[r] \in Local => lists[label[r]] # "absent"

IInv == Typed /\ IndexRight /\ GravityRight /\ RulesRight /\ RulesCurrent

-----------------------------------------------------------------------------
(* Positions in a sorted array.                                            *)

LEMMA PositionBound ==
  ASSUME NEW G, G \subseteq Nat, IsFiniteSet(G), NEW n \in G
  PROVE  Position(G, n) \in Nat /\ Position(G, n) < Cardinality(G)
<1> DEFINE below == {m \in G : m < n}
<1>1. below \in SUBSET (G \ {n})
  OBVIOUS
<1>2. IsFiniteSet(G \ {n}) /\ Cardinality(G \ {n}) = Cardinality(G) - 1
  BY FS_RemoveElement
<1>3. IsFiniteSet(below) /\ Cardinality(below) <= Cardinality(G \ {n})
  BY <1>1, <1>2, FS_Subset
<1>4. Cardinality(below) \in Nat /\ Cardinality(G) \in Nat
  BY <1>3, FS_CardinalityType
<1> QED
  BY <1>2, <1>3, <1>4 DEF Position

LEMMA PositionGrows ==
  ASSUME NEW G, G \subseteq Nat, IsFiniteSet(G), NEW m \in G, NEW n \in G, m < n
  PROVE  Position(G, m) # Position(G, n)
<1> DEFINE low == {k \in G : k < m}
           high == {k \in G : k < n}
<1>1. IsFiniteSet(high)
  BY FS_Subset
<1>2. \A k \in G : k \in Int
  OBVIOUS
<1>3. \A k \in low : k < n
  BY <1>2
<1>4. low \in SUBSET high
  BY <1>3
<1>5. m \in high /\ m \notin low
  BY <1>2
<1>6. Cardinality(high) # Cardinality(low)
  BY <1>1, <1>4, <1>5, FS_Subset
<1> QED
  BY <1>6 DEF Position

LEMMA PositionInjective ==
  ASSUME NEW G, G \subseteq Nat, IsFiniteSet(G), NEW m \in G, NEW n \in G,
         Position(G, m) = Position(G, n)
  PROVE  m = n
<1>1. m < n \/ n < m \/ m = n
  OBVIOUS
<1>2. ~(m < n) /\ ~(n < m)
  BY PositionGrows
<1> QED
  BY <1>1, <1>2

LEMMA GravityFinite ==
  ASSUME Typed
  PROVE  gravity \subseteq Nat /\ IsFiniteSet(gravity)
BY NamesOK, FS_Subset DEF NamesOK, Typed

LEMMA InUnion ==
  ASSUME NEW c, NEW L, NEW x
  PROVE  x \in Union(c, L) <=> \E l \in L : x \in c[l]
BY DEF Union

-----------------------------------------------------------------------------
(* The steps.                                                              *)

LEMMA Readable ==
  ASSUME NEW L, NEW c \in Readings(L)
  PROVE  /\ c \in [Lists -> SUBSET Rules]
         /\ \A l \in Lists \ L : c[l] = {}
BY ListsOK DEF ListsOK, Readings

(* What any load of any lists into an empty index makes of it. *)
LEMMA FillRight ==
  ASSUME NEW M, M \subseteq Rules, NEW L, L \subseteq Lists, Built(M, L)
  PROVE  /\ blocked' \subseteq Rules
         /\ label' \in [Rules -> Local \cup {Manual, None}]
         /\ gravity' \subseteq Names
         /\ loaded' \in [Lists -> SUBSET Rules]
         /\ served' \subseteq Rules
         /\ lost' \subseteq Rules
         /\ IndexRight' /\ GravityRight' /\ RulesRight'
         /\ blocked' \subseteq M \cup served'
         /\ \A r \in M : label'[r] # None
         /\ \A r \in Rules : label'[r] = Manual => r \in M
         /\ \A r \in Rules : label'[r] \in Local => label'[r] \in L
<1>1. PICK c \in Readings(L) : Fill(M, c) /\ loaded' = c
                               /\ served' = Union(c, Lists) /\ lost' = {}
  BY DEF Built
<1>2. c \in [Lists -> SUBSET Rules] /\ \A l \in Lists \ L : c[l] = {}
  BY <1>1, Readable
<1>3. PICK last \in LastOwners(c) : label' = Labelled(M, last)
  BY <1>1 DEF Fill
<1>4. /\ last \in [Union(c, Local) -> Local]
      /\ \A r \in Union(c, Local) : r \in c[last[r]]
  BY <1>3 DEF LastOwners
<1>5. \A r \in Rules : label'[r] = IF r \in Union(c, Local) THEN last[r]
                                   ELSE IF r \in M THEN Manual ELSE None
  BY <1>3, <1>4 DEF Labelled
<1>6. /\ blocked' = M \cup Union(c, Local) \cup (Union(c, Remote) \cap Patterns)
      /\ gravity' = Union(c, Remote) \cap Names
      /\ index' = [l \in Lists |-> Positions(gravity', c[l])]
  BY <1>1 DEF Fill
<1>7. Manual \notin Local /\ None \notin Local /\ Manual # None
  BY ListsOK DEF ListsOK, Lists
<1>8. /\ \A r : r \in Union(c, Local) <=> \E l \in Local : r \in c[l]
      /\ \A r : r \in Union(c, Remote) <=> \E l \in Remote : r \in c[l]
      /\ \A r : r \in Union(c, Lists) <=> r \in Union(c, Local) \/ r \in Union(c, Remote)
  BY InUnion DEF Lists
<1>9. Union(c, Local) \subseteq Rules /\ Union(c, Remote) \subseteq Rules
  BY <1>2, <1>8 DEF Lists
<1>10. label' \in [Rules -> Local \cup {Manual, None}]
  <2>1. \A r \in Rules : Labelled(M, last)[r] \in Local \cup {Manual, None}
    BY <1>3, <1>4, <1>5
  <2> QED
    BY <2>1, <1>3 DEF Labelled
<1>11. IndexRight'
  BY <1>1, <1>6 DEF IndexRight, Positions, Position
<1>12. GravityRight'
  BY <1>1, <1>6, <1>8 DEF GravityRight, Lists
<1>13. RulesRight'
  <2>1. (served \cap Patterns \subseteq blocked \cup lost)'
    BY <1>1, <1>6, <1>8
  <2>2. (\A r \in Rules : label[r] # None => r \in blocked)'
    BY <1>5, <1>6
  <2>3. (\A r \in Rules : label[r] \in Local => r \in loaded[label[r]])'
    BY <1>1, <1>4, <1>5, <1>7
  <2>4. (\A r \in blocked \cap Names : label[r] # None)'
    <3>1. Names \cap Patterns = {}
      BY NamesOK DEF NamesOK
    <3> QED
      BY <1>4, <1>5, <1>6, <1>7, <3>1 DEF Rules
  <2>5. (\A l \in Local : \A r \in loaded[l] \ lost : label[r] # None)'
    BY <1>1, <1>4, <1>5, <1>7, <1>8, <1>9
  <2> QED
    BY <2>1, <2>2, <2>3, <2>4, <2>5 DEF RulesRight
<1>14. blocked' \subseteq M \cup served'
  BY <1>1, <1>6, <1>8
<1>15. \A r \in M : label'[r] # None
  BY <1>4, <1>5, <1>7
<1>16. \A r \in Rules : label'[r] = Manual => r \in M
  BY <1>4, <1>5, <1>7
<1>17. \A r \in Rules : label'[r] \in Local => label'[r] \in L
  BY <1>2, <1>4, <1>5, <1>7 DEF Lists
<1>18. blocked' \subseteq Rules /\ gravity' \subseteq Names
  BY <1>6, <1>9 DEF Rules
<1>19. loaded' \in [Lists -> SUBSET Rules] /\ served' \subseteq Rules /\ lost' \subseteq Rules
  BY <1>1, <1>2, <1>8, <1>9
<1> QED
  BY <1>10, <1>11, <1>12, <1>13, <1>14, <1>15, <1>16, <1>17, <1>18, <1>19

(* A load for the lists that ls enables, of all or of some, and the rules  *)
(* of M; both are the configuration afterwards, unless that was undone.    *)
LEMMA LoadKeeps ==
  ASSUME Typed, NEW M, M \subseteq Rules,
         NEW ls \in [Lists -> {"absent", "enabled", "disabled"}],
         NEW K, K \subseteq Lists, Built(M, Enabled(K, ls)),
         \/ manual' = M /\ lists' = ls
         \/ UNCHANGED cfg /\ undone' = TRUE
  PROVE  IInv'
<1>1. \/ manual' = M /\ lists' = ls
      \/ manual' = manual /\ lists' = lists /\ undone' = TRUE
  BY DEF cfg
<1>2. Enabled(K, ls) \subseteq Lists /\ \A l \in Enabled(K, ls) : ls[l] = "enabled"
  BY DEF Enabled
<1>3. /\ blocked' \subseteq Rules
      /\ label' \in [Rules -> Local \cup {Manual, None}]
      /\ gravity' \subseteq Names
      /\ loaded' \in [Lists -> SUBSET Rules]
      /\ served' \subseteq Rules
      /\ lost' \subseteq Rules
      /\ IndexRight' /\ GravityRight' /\ RulesRight'
      /\ blocked' \subseteq M \cup served'
      /\ \A r \in M : label'[r] # None
      /\ \A r \in Rules : label'[r] = Manual => r \in M
      /\ \A r \in Rules : label'[r] \in Local => label'[r] \in Enabled(K, ls)
  BY <1>2, FillRight
<1>4. manual' \subseteq Rules /\ lists' \in [Lists -> {"absent", "enabled", "disabled"}]
  BY <1>1 DEF Typed
<1>5. Typed'
  BY <1>3, <1>4 DEF Typed
<1>6. RulesCurrent'
  BY <1>1, <1>2, <1>3 DEF RulesCurrent
<1> QED
  BY <1>3, <1>5, <1>6 DEF IInv

LEMMA IndexStays ==
  ASSUME IndexRight, UNCHANGED <<gravity, index, loaded>>
  PROVE  IndexRight'
BY DEF IndexRight, Positions, Position

LEMMA AddRuleKeeps ==
  ASSUME IInv, NEW r \in Rules, AddRule(r) PROVE IInv'
<1> USE DEF IInv, Typed
<1>0. (manual' = manual \cup {r} /\ undone' = undone) \/ (manual' = manual /\ undone' = TRUE)
  BY Zenon DEF AddRule, Commit, cfg
<1>1. /\ blocked' = blocked \cup {r}
      /\ label' = [label EXCEPT ![r] = Manual]
      /\ lost' = lost \ {r}
      /\ UNCHANGED <<lists, gravity, index, loaded, served>>
  BY DEF AddRule, Commit, cfg, names
<1>2. label' \in [Rules -> Local \cup {Manual, None}]
  BY <1>1
<1>3. Typed'
  BY <1>0, <1>1, <1>2
<1>4. IndexRight'
  BY <1>1, IndexStays
<1>5. GravityRight'
  BY <1>1 DEF GravityRight
<1>6. Manual # None /\ Manual \notin Local
  BY ListsOK DEF ListsOK, Lists
<1>7. /\ label'[r] = Manual
      /\ \A k \in Rules \ {r} : label'[k] = label[k]
  BY <1>1
<1>8. RulesRight'
  BY <1>1, <1>6, <1>7 DEF RulesRight, Lists, Rules
<1>9. RulesCurrent'
  BY <1>0, <1>1, <1>6, <1>7 DEF RulesCurrent, Lists
<1> QED
  BY <1>3, <1>4, <1>5, <1>8, <1>9

LEMMA RemoveRuleKeeps ==
  ASSUME IInv, NEW r \in Rules, RemoveRule(r) PROVE IInv'
<1> USE DEF IInv, Typed
<1>0. (manual' = manual \ {r} /\ undone' = undone) \/ (manual' = manual /\ undone' = TRUE)
  BY Zenon DEF RemoveRule, Commit, cfg
<1>1. /\ blocked' = blocked \ {r}
      /\ label' = [label EXCEPT ![r] = None]
      /\ lost' = lost \cup ({r} \cap served)
      /\ UNCHANGED <<lists, gravity, index, loaded, served>>
  BY DEF RemoveRule, Commit, cfg, names
<1>2. label' \in [Rules -> Local \cup {Manual, None}]
  BY <1>1
<1>3. Typed'
  BY <1>0, <1>1, <1>2
<1>4. IndexRight'
  BY <1>1, IndexStays
<1>5. GravityRight'
  BY <1>1 DEF GravityRight
<1>6. None \notin Local /\ Manual # None
  BY ListsOK DEF ListsOK, Lists
<1>7. /\ label'[r] = None
      /\ \A k \in Rules \ {r} : label'[k] = label[k]
  BY <1>1
<1>8. \A l \in Local : loaded[l] \subseteq served /\ loaded[l] \subseteq Rules
  BY DEF GravityRight, Lists
<1>9. RulesRight'
  BY <1>1, <1>6, <1>7, <1>8 DEF RulesRight, Rules
<1>10. RulesCurrent'
  BY <1>0, <1>1, <1>6, <1>7 DEF RulesCurrent
<1> QED
  BY <1>3, <1>4, <1>5, <1>9, <1>10

(* The load of start-up's background task, into an index in any state. *)
LEMMA LoadRemoteKeeps ==
  ASSUME IInv, LoadRemote PROVE IInv'
<1> USE DEF IInv, Typed
<1>1. PICK c \in Readings(Enabled(Remote, lists)) :
        LET N == Union(c, Remote) \cap Names IN
          /\ blocked' = blocked \cup (Union(c, Remote) \cap Patterns)
          /\ gravity' = gravity \cup N
          /\ index' = Reindexed(c, gravity', N)
          /\ loaded' = [l \in Lists |-> IF l \in Local THEN loaded[l]
                                        ELSE IF N = {} THEN loaded[l] \cup c[l] ELSE c[l]]
          /\ served' = served \cup Union(c, Remote)
  BY DEF LoadRemote
<1> DEFINE N == Union(c, Remote) \cap Names
<1>2. /\ blocked' = blocked \cup (Union(c, Remote) \cap Patterns)
      /\ gravity' = gravity \cup N
      /\ index' = Reindexed(c, gravity', N)
      /\ loaded' = [l \in Lists |-> IF l \in Local THEN loaded[l]
                                    ELSE IF N = {} THEN loaded[l] \cup c[l] ELSE c[l]]
      /\ served' = served \cup Union(c, Remote)
      /\ UNCHANGED <<manual, lists, label, lost, undone>>
  BY <1>1 DEF LoadRemote, cfg
<1>3. c \in [Lists -> SUBSET Rules] /\ \A l \in Lists \ Remote : c[l] = {}
  BY <1>1, Readable DEF Enabled
<1>4. Local \subseteq Lists \ Remote /\ Remote \subseteq Lists \ Local
  BY ListsOK DEF ListsOK, Lists
<1>5. \A r : r \in Union(c, Remote) <=> \E l \in Remote : r \in c[l]
  BY InUnion
<1>6. Union(c, Remote) \subseteq Rules /\ \A l \in Remote : c[l] \cap Names \subseteq N
  BY <1>3, <1>4, <1>5
<1> HIDE DEF N
<1>7. \A l \in Local : loaded'[l] = loaded[l]
  BY <1>2, <1>4
<1>8. \A l \in Remote : loaded'[l] = IF N = {} THEN loaded[l] \cup c[l] ELSE c[l]
  BY <1>2, <1>4
<1>9. loaded' \in [Lists -> SUBSET Rules] /\ N \subseteq Names
  BY <1>2, <1>3 DEF N
<1>10. Typed'
  BY <1>2, <1>6, <1>9
<1>11. IndexRight'
  <2>1. CASE N = {}
    <3>1. index' = index /\ gravity' = gravity
      BY <1>2, <2>1 DEF Reindexed
    <3>2. \A l \in Lists : loaded'[l] \cap gravity = loaded[l] \cap gravity
      BY <1>4, <1>6, <1>7, <1>8, <2>1 DEF Lists
    <3>3. \A l \in Lists : Positions(gravity', loaded'[l]) = Positions(gravity, loaded[l])
      BY <3>1, <3>2 DEF Positions
    <3>4. \A l \in Lists : \/ index'[l] = Positions(gravity', loaded'[l])
                           \/ l \in Local /\ index'[l] = {}
      BY <3>1, <3>3 DEF IndexRight
    <3> QED
      BY <3>4 DEF IndexRight, Positions, Position
  <2>2. CASE N # {}
    <3>1. \A l \in Lists : index'[l] = Positions(gravity', c[l])
      BY <1>2, <2>2 DEF Reindexed
    <3>2. \A l \in Remote : loaded'[l] = c[l]
      BY <1>8, <2>2
    <3>3. \A l \in Local : index'[l] = {}
      BY <1>3, <1>4, <3>1 DEF Positions
    <3> QED
      BY <3>1, <3>2, <3>3 DEF IndexRight, Lists, Positions, Position
  <2> QED
    BY <2>1, <2>2
<1>12. GravityRight'
  <2>1. (gravity \subseteq served)'
    BY <1>2 DEF N, GravityRight
  <2>2. (\A l \in Lists : loaded[l] \subseteq served)'
    BY <1>2, <1>5, <1>7, <1>8 DEF GravityRight, Lists
  <2>3. (\A l \in Remote : loaded[l] \cap Names \subseteq gravity)'
    <3> SUFFICES ASSUME NEW l \in Remote, NEW n \in Names, n \in loaded'[l]
                 PROVE  n \in gravity'
      OBVIOUS
    <3>1. n \in c[l] => n \in N
      BY <1>6
    <3>2. n \in loaded[l] => n \in gravity
      BY DEF GravityRight
    <3>3. n \in loaded[l] \/ n \in c[l]
      BY <1>8
    <3> QED
      BY <1>2, <3>1, <3>2, <3>3
  <2>4. (\A n \in served \cap Names : n \in gravity \/ \E l \in Local : n \in loaded[l])'
    BY <1>2, <1>7 DEF N, GravityRight
  <2> QED
    BY <2>1, <2>2, <2>3, <2>4 DEF GravityRight
<1>13. RulesRight'
  <2>1. Names \cap Patterns = {}
    BY NamesOK DEF NamesOK
  <2> QED
    BY <1>2, <1>7, <2>1 DEF RulesRight
<1>14. RulesCurrent'
  BY <1>2 DEF RulesCurrent
<1> QED
  BY <1>10, <1>11, <1>12, <1>13, <1>14

LEMMA Initially == Init => IInv
<1> SUFFICES ASSUME Init PROVE IInv
  OBVIOUS
<1> USE DEF Init
<1>1. Typed
  <2>1. lists \in [Lists -> {"absent", "enabled", "disabled"}]
    BY DEF Configured
  <2> QED
    BY <2>1, NamesOK DEF NamesOK, Typed, Rules
<1>2. None \notin Local /\ Manual \notin Local /\ Manual # None
  BY ListsOK DEF ListsOK, Lists
<1>3. IndexRight
  BY DEF IndexRight, Positions
<1>4. GravityRight
  BY DEF GravityRight, Lists
<1>5. RulesRight
  BY <1>2 DEF RulesRight, Lists
<1>6. RulesCurrent
  BY <1>2 DEF RulesCurrent
<1> QED
  BY <1>1, <1>3, <1>4, <1>5, <1>6 DEF IInv

LEMMA RebuildKeeps ==
  ASSUME IInv, NEW ls \in [Lists -> {"absent", "enabled", "disabled"}], Rebuild(ls)
  PROVE  IInv'
<1>1. Built(manual, Enabled(Lists, ls))
  BY DEF Rebuild
<1>2. (manual' = manual /\ lists' = ls) \/ (UNCHANGED cfg /\ undone' = TRUE)
  BY Zenon DEF Rebuild, Commit
<1> QED
  BY <1>1, <1>2, LoadKeeps DEF IInv, Typed

LEMMA StepKeeps == IInv /\ [Next]_vars => IInv'
<1> SUFFICES ASSUME IInv, [Next]_vars PROVE IInv'
  OBVIOUS
<1>1. lists \in [Lists -> {"absent", "enabled", "disabled"}]
  BY DEF IInv, Typed
<1>2. ASSUME NEW r \in Rules, AddRule(r) PROVE IInv'
  BY <1>2, AddRuleKeeps
<1>3. ASSUME NEW r \in Rules, RemoveRule(r) PROVE IInv'
  BY <1>3, RemoveRuleKeeps
<1>4. ASSUME NEW l \in Lists, AddList(l) PROVE IInv'
  <2>1. [lists EXCEPT ![l] = "enabled"] \in [Lists -> {"absent", "enabled", "disabled"}]
    BY <1>1
  <2> QED
    BY <1>4, <2>1, RebuildKeeps DEF AddList
<1>5. ASSUME NEW l \in Lists, PatchList(l) PROVE IInv'
  <2>1. PICK status \in {"enabled", "disabled"} : Rebuild([lists EXCEPT ![l] = status])
    BY <1>5 DEF PatchList
  <2>2. [lists EXCEPT ![l] = status] \in [Lists -> {"absent", "enabled", "disabled"}]
    BY <1>1
  <2> QED
    BY <2>1, <2>2, RebuildKeeps
<1>6. ASSUME NEW l \in Lists, RemoveList(l) PROVE IInv'
  <2>1. [lists EXCEPT ![l] = "absent"] \in [Lists -> {"absent", "enabled", "disabled"}]
    BY <1>1
  <2> QED
    BY <1>6, <2>1, RebuildKeeps DEF RemoveList
<1>7. ASSUME EditGroups PROVE IInv'
  BY <1>1, <1>7, RebuildKeeps DEF EditGroups
<1>8. ASSUME Refresh PROVE IInv'
  <2>1. Built(manual, Enabled(Lists, lists)) /\ manual' = manual /\ lists' = lists
    BY <1>8 DEF Refresh, cfg
  <2> QED
    BY <1>1, <2>1, LoadKeeps DEF IInv, Typed
<1>9. ASSUME Start PROVE IInv'
  <2> DEFINE M == manual \cup Builtin
             ls == Configured(lists)
  <2>1. Built(M, Enabled(Local, ls)) /\ manual' = M /\ lists' = ls
    BY <1>9 DEF Start
  <2>2. Local \subseteq Lists
    BY DEF Lists
  <2>3. M \subseteq Rules
    BY NamesOK DEF NamesOK, IInv, Typed, Rules
  <2>4. ls \in [Lists -> {"absent", "enabled", "disabled"}]
    BY <1>1 DEF Configured
  <2> HIDE DEF M, ls
  <2> QED
    BY <2>1, <2>2, <2>3, <2>4, LoadKeeps DEF IInv
<1>10. ASSUME LoadRemote PROVE IInv'
  BY <1>10, LoadRemoteKeeps
<1>11. ASSUME UNCHANGED vars PROVE IInv'
  <2> USE <1>11 DEF vars, cfg, rules, names, IInv
  <2>1. Typed'
    BY DEF Typed
  <2>2. IndexRight' /\ GravityRight'
    BY DEF IndexRight, GravityRight, Positions, Position
  <2>3. RulesRight' /\ RulesCurrent'
    BY DEF RulesRight, RulesCurrent
  <2> QED
    BY <2>1, <2>2, <2>3
<1> QED
  BY <1>2, <1>3, <1>4, <1>5, <1>6, <1>7, <1>8, <1>9, <1>10, <1>11 DEF Next

(* The invariant holds in every state, whatever was edited, rebuilt,       *)
(* undone or restarted before.                                             *)
THEOREM IndexCorrect == Spec => []IInv
BY Initially, StepKeeps, PTL DEF Spec

-----------------------------------------------------------------------------
(* The properties.                                                         *)

(* Every variable has its type, and no position is beyond the array's end. *)
THEOREM TypeCorrect == Spec => []TypeOK
<1>1. ASSUME IInv, Flags PROVE TypeOK
  <2>1. ASSUME NEW l \in Lists
        PROVE  index[l] \subseteq {i \in Nat : i < Cardinality(gravity)}
    <3>1. ASSUME NEW n \in gravity
          PROVE  Position(gravity, n) \in {i \in Nat : i < Cardinality(gravity)}
      BY <1>1, GravityFinite, PositionBound DEF IInv
    <3>2. Positions(gravity, loaded[l]) \subseteq {i \in Nat : i < Cardinality(gravity)}
      BY <3>1 DEF Positions
    <3> QED
      BY <1>1, <3>2 DEF IInv, IndexRight
  <2> QED
    BY <1>1, <2>1, Zenon DEF TypeOK, IInv, Typed, Flags
<1>2. Init => Flags
  BY Zenon DEF Init, Flags
<1>3. Flags /\ [Next]_vars => Flags'
  <2> SUFFICES ASSUME Flags, [Next]_vars PROVE starting' \in BOOLEAN /\ undone' \in BOOLEAN
    BY DEF Flags
  <2>1. starting' \in {starting, TRUE, FALSE}
    BY Zenon DEF Next, vars, AddRule, RemoveRule, AddList, PatchList, RemoveList, EditGroups,
                 Rebuild, Refresh, Start, LoadRemote
  <2>2. undone' \in {undone, TRUE, FALSE}
    BY Zenon DEF Next, vars, AddRule, RemoveRule, AddList, PatchList, RemoveList, EditGroups,
                 Rebuild, Commit, Refresh, Start, LoadRemote
  <2> QED
    BY <2>1, <2>2, Zenon DEF Flags
<1> QED
  BY <1>1, <1>2, <1>3, IndexCorrect, PTL DEF Spec

(* A name's own entry in the map and the array, or a pattern: that is all  *)
(* a client without limits is judged by.                                   *)
LEMMA Unlimited ==
  ASSUME NEW n \in Names
  PROVE  BlockDecision({}, "silent", "silent", n) <=>
           \/ label[n] # None
           \/ n \in blocked
           \/ n \in gravity
           \/ \E r \in blocked \cap Patterns : Matches(r, n)
<1>1. \A s : Applies({}, s)
  BY DEF Applies
<1>2. Indexed({}, n) <=> \/ label[n] # None
                        \/ n \in blocked
                        \/ n \in gravity
                        \/ \E r \in blocked \cap Patterns : Matches(r, n)
  BY <1>1 DEF Indexed
<1>3. BlockDecision({}, "silent", "silent", n) <=> Indexed({}, n)
  BY DEF BlockDecision, OnOwnList
<1> QED
  BY <1>2, <1>3

(* For a client without limits the index says what the configuration and   *)
(* the lists say, no more and no less.                                     *)
THEOREM UnlimitedCorrect == Spec => []UnlimitedDecisions
<1>1. ASSUME IInv PROVE UnlimitedDecisions
  <2> SUFFICES ASSUME ~undone, NEW n \in Names
               PROVE  /\ BlockDecision({}, "silent", "silent", n) =>
                           Blocks(manual \cup served, n)
                      /\ Blocks((manual \cup served) \ lost, n) =>
                           BlockDecision({}, "silent", "silent", n)
    BY DEF UnlimitedDecisions
  <2> USE <1>1 DEF IInv
  <2>1. n \in Rules
    BY DEF Rules
  <2>2. ASSUME BlockDecision({}, "silent", "silent", n)
        PROVE  Blocks(manual \cup served, n)
    <3>1. CASE label[n] # None \/ n \in blocked
      BY <2>1, <3>1 DEF RulesRight, RulesCurrent, Blocks, Matches
    <3>2. CASE n \in gravity
      BY <3>2 DEF GravityRight, Blocks, Matches
    <3>3. CASE \E r \in blocked \cap Patterns : Matches(r, n)
      BY <3>3 DEF RulesCurrent, Blocks
    <3> QED
      BY <2>2, <3>1, <3>2, <3>3, Unlimited
  <2>3. ASSUME NEW r \in (manual \cup served) \ lost, Matches(r, n)
        PROVE  BlockDecision({}, "silent", "silent", n)
    <3>1. r \in Rules
      BY DEF Typed
    <3>2. CASE r = n
      <4>1. CASE n \in manual
        BY <4>1, Unlimited DEF RulesCurrent
      <4>2. CASE n \in served
        BY <2>3, <3>2, <4>2, Unlimited DEF GravityRight, RulesRight
      <4> QED
        BY <2>3, <3>2, <4>1, <4>2
    <3>3. CASE r \in Patterns
      <4>1. r \in blocked
        BY <2>3, <3>1, <3>3 DEF RulesRight, RulesCurrent
      <4> QED
        BY <2>3, <3>3, <4>1, Unlimited
    <3> QED
      BY <2>3, <3>2, <3>3, NamesOK DEF NamesOK, Matches
  <2> QED
    BY <2>2, <2>3 DEF Blocks
<1> QED
  BY <1>1, IndexCorrect, PTL

(* No list the client has not chosen decides for it. *)
THEOREM LimitsCorrect == Spec => []LimitsHold
<1>1. ASSUME IInv PROVE LimitsHold
  <2> SUFFICES ASSUME ~undone, NEW P \in (SUBSET Lists) \ {{}},
                      NEW own \in Verdicts, NEW global \in Verdicts, NEW n \in Names,
                      BlockDecision(P, own, global, n)
               PROVE  \/ own = "block"
                      \/ Blocks(Union(loaded, P), n)
                      \/ global = "block"
                      \/ global = "silent" /\ Blocks(manual, n)
    BY Zenon DEF LimitsHold
  <2>0. P \subseteq Lists /\ P # {}
    OBVIOUS
  <2> USE <1>1, <2>0 DEF IInv
  <2>1. ASSUME OnOwnList(P, n) PROVE Blocks(Union(loaded, P), n)
    <3>1. PICK l \in P : n \in gravity /\ Position(gravity, n) \in index[l]
      BY <2>1 DEF OnOwnList
    <3>2. PICK m \in loaded[l] \cap gravity : Position(gravity, m) = Position(gravity, n)
      BY <3>1 DEF IndexRight, Positions
    <3>3. m = n
      BY <3>1, <3>2, GravityFinite, PositionInjective
    <3> QED
      BY <3>1, <3>2, <3>3, InUnion DEF Blocks, Matches
  <2>2. ASSUME NEW r \in Rules, Applies(P, label[r]), Matches(r, n)
        PROVE  Blocks(Union(loaded, P), n) \/ Blocks(manual, n)
    <3>1. label[r] = Manual \/ label[r] \in Local
      BY <2>2 DEF Applies, Typed
    <3>2. CASE label[r] = Manual
      BY <2>2, <3>2 DEF RulesCurrent, Blocks
    <3>3. CASE label[r] \in Local
      <4>1. label[r] \in P /\ r \in loaded[label[r]]
        BY <2>2, <3>3 DEF Applies, RulesCurrent, RulesRight, Lists
      <4> QED
        BY <2>2, <4>1, InUnion DEF Blocks
    <3> QED
      BY <3>1, <3>2, <3>3
  <2>3. ASSUME Indexed(P, n) PROVE Blocks(Union(loaded, P), n) \/ Blocks(manual, n)
    <3>1. PICK r \in Rules : Applies(P, label[r]) /\ Matches(r, n)
      BY <2>3 DEF Indexed, Matches, Rules
    <3> QED
      BY <2>2, <3>1
  <2>4. \/ own = "block" \/ global = "block" \/ OnOwnList(P, n)
        \/ global = "silent" /\ Indexed(P, n)
    BY Zenon DEF BlockDecision
  <2> QED
    BY <2>1, <2>3, <2>4
<1> QED
  BY <1>1, IndexCorrect, PTL

(* What the client's own lists and the manual rules say is blocked. *)
THEOREM OwnListsCorrect == Spec => []OwnListsApply
<1>1. ASSUME IInv PROVE OwnListsApply
  <2> SUFFICES ASSUME ~undone, NEW P \in (SUBSET Lists) \ {{}}, NEW n \in Names
               PROVE  LET own == manual \cup Union(loaded, P \cap Local)
                          foreign == Union(loaded, Local \ P) IN
                        /\ n \in Union(loaded, P \cap Remote) =>
                             \A global \in Verdicts : BlockDecision(P, "silent", global, n)
                        /\ n \notin foreign /\ Blocks(own \ (foreign \cup lost), n) =>
                             BlockDecision(P, "silent", "silent", n)
    BY Zenon DEF OwnListsApply
  <2> DEFINE own == manual \cup Union(loaded, P \cap Local)
             foreign == Union(loaded, Local \ P)
  <2>0. P \subseteq Lists /\ P # {}
    OBVIOUS
  <2> USE <1>1, <2>0 DEF IInv
  <2>1. ASSUME n \in Union(loaded, P \cap Remote)
        PROVE  OnOwnList(P, n)
    <3>1. PICK l \in P \cap Remote : n \in loaded[l]
      BY <2>1, InUnion
    <3>2. n \in gravity
      BY <3>1 DEF GravityRight
    <3>3. index[l] = Positions(gravity, loaded[l])
      BY ListsOK DEF ListsOK, IndexRight
    <3> QED
      BY <3>1, <3>2, <3>3 DEF OnOwnList, Positions
  <2>2. ASSUME NEW r \in Rules, label[r] # None, r \notin foreign PROVE Applies(P, label[r])
    <3>1. CASE label[r] = Manual
      BY <2>2, <3>1, ListsOK DEF ListsOK, Applies
    <3>2. CASE label[r] \in Local
      <4>1. r \in loaded[label[r]]
        BY <3>2 DEF RulesRight
      <4>2. label[r] \in P
        BY <2>2, <3>2, <4>1, InUnion
      <4> QED
        BY <2>2, <4>2 DEF Applies
    <3> QED
      BY <2>2, <3>1, <3>2 DEF Typed
  <2>3. ASSUME n \notin foreign, NEW r \in own \ (foreign \cup lost), Matches(r, n)
        PROVE  Indexed(P, n)
    <3>1. r \in Rules /\ n \in Rules
      BY <2>3, InUnion DEF Typed, Rules, Lists
    <3>2. label[r] # None
      BY <2>3, InUnion DEF RulesRight, RulesCurrent
    <3>3. Applies(P, label[r]) /\ r \in blocked
      BY <2>2, <2>3, <3>1, <3>2 DEF RulesRight
    <3>4. r = n \/ r \in Patterns
      BY <2>3, NamesOK DEF NamesOK, Matches
    <3>5. CASE label[n] # None
      BY <2>2, <2>3, <3>1, <3>5 DEF Indexed
    <3>6. CASE label[n] = None
      <4>1. n \notin blocked /\ r \in Patterns
        BY <3>2, <3>4, <3>6 DEF RulesRight
      <4> QED
        BY <2>3, <3>3, <3>6, <4>1 DEF Indexed
    <3> QED
      BY <3>5, <3>6
  <2>4. n \notin foreign /\ Blocks(own \ (foreign \cup lost), n) => Indexed(P, n)
    BY <2>3 DEF Blocks
  <2>5. \A global : OnOwnList(P, n) => BlockDecision(P, "silent", global, n)
    BY DEF BlockDecision
  <2>6. Indexed(P, n) => BlockDecision(P, "silent", "silent", n)
    BY DEF BlockDecision
  <2> HIDE DEF own, foreign
  <2>7. n \in Union(loaded, P \cap Remote) =>
          \A global \in Verdicts : BlockDecision(P, "silent", global, n)
    BY <2>1, <2>5
  <2>8. n \notin foreign /\ Blocks(own \ (foreign \cup lost), n) =>
          BlockDecision(P, "silent", "silent", n)
    BY <2>4, <2>6
  <2> QED
    BY <2>7, <2>8, Zenon DEF own, foreign
<1> QED
  BY <1>1, IndexCorrect, PTL
-----------------------------------------------------------------------------
(* A limit only ever relaxes what is blocked, and a longer one relaxes it   *)
(* less: who is blocked a name under the lists P is blocked it under more   *)
(* lists, and without a limit.  The allowlist is the exception the order of *)
(* blockDecision makes: it lets an unlimited client pass and does not undo  *)
(* what a client's own list says.                                           *)
THEOREM LimitsOnlyRelax ==
  ASSUME NEW P \in SUBSET Lists, P # {},
         NEW Q \in SUBSET Lists, Q = {} \/ P \subseteq Q,
         NEW own \in Verdicts, NEW global \in Verdicts, NEW n \in Names,
         Q = {} => global # "allow",
         BlockDecision(P, own, global, n)
  PROVE  BlockDecision(Q, own, global, n)
  <1>1. \A s : Applies(P, s) => Applies(Q, s)
    BY Zenon DEF Applies
  <1>2. CASE own = "block" \/ (own = "silent" /\ global = "block")
    BY <1>2 DEF BlockDecision
  <1>3. CASE own = "silent" /\ global = "silent" /\ Indexed(P, n)
    <2>1. Indexed(Q, n)
      BY <1>1, <1>3 DEF Indexed
    <2> QED
      BY <1>3, <2>1 DEF BlockDecision
  <1>4. CASE own = "silent" /\ OnOwnList(P, n) /\ global # "block"
    <2>1. CASE Q = {}
      <3>1. Indexed(Q, n)
        BY <1>4, <2>1 DEF OnOwnList, Indexed, Applies
      <3> QED
        BY <1>4, <2>1, <3>1 DEF BlockDecision, Verdicts
    <2>2. CASE P \subseteq Q
      BY <1>4, <2>2 DEF OnOwnList, BlockDecision
    <2> QED
      BY <2>1, <2>2
  <1> QED
    BY <1>2, <1>3, <1>4 DEF BlockDecision, Verdicts
=============================================================================
