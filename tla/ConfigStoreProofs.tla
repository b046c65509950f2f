-------------------------- MODULE ConfigStoreProofs --------------------------
(***************************************************************************)
(* What ConfigStore promises follows from its steps, for any number of     *)
(* queries and entries: whatever implements it inherits the theorem.       *)
(***************************************************************************)
EXTENDS ConfigStore, TLAPS

Typed == /\ memory \subseteq Entries
         /\ strayed \subseteq Entries

IInv == Typed /\ Agreement

LEMMA Initially == Init => IInv
BY DEF Init, IInv, Typed, Agreement, Acceptable, Differ

LEMMA StepAgrees ==
  ASSUME IInv, [Next]_storeVars
  PROVE  IInv'
<1> USE DEF IInv, Typed, Agreement
<1>1. ASSUME NEW q \in Queries, Begin(q) PROVE IInv'
  BY <1>1 DEF Begin
<1>2. ASSUME NEW q \in Queries, End(q) PROVE IInv'
  BY <1>2 DEF End, Differ
<1>3. CASE Commit
  BY <1>3 DEF Commit, Acceptable, Differ
<1>4. ASSUME NEW e \in Entries, Stray(e) PROVE IInv'
  <2>1. Acceptable(file') /\ memory' \subseteq Entries /\ strayed' \subseteq Entries
    BY <1>4 DEF Stray, Differ
  <2>2. \A c : Differ(c, memory) \subseteq strayed => Differ(c, memory') \subseteq strayed'
    BY <1>4 DEF Stray, Differ
  <2>3. Differ(memory, file) \subseteq strayed => Differ(memory', file) \subseteq strayed'
    BY <1>4 DEF Stray, Differ
  <2> QED
    BY <1>4, <2>1, <2>2, <2>3 DEF Stray
<1>5. CASE Persist
  BY <1>5 DEF Persist, Differ
<1>6. CASE UNCHANGED storeVars
  BY <1>6 DEF storeVars
<1> QED
  BY <1>1, <1>2, <1>3, <1>4, <1>5, <1>6 DEF Next

(* The next start accepts the file; file and kept answers agree with the   *)
(* configuration in force but for what was edited and not saved.           *)
THEOREM StoreAgrees == Spec => []Agreement
<1>1. IInv /\ [Next]_storeVars => IInv'
  BY StepAgrees
<1>2. IInv => Agreement
  BY DEF IInv
<1> QED
  BY Initially, <1>1, <1>2, PTL DEF Spec
=============================================================================
