---------------------- MODULE ConfigTransactionsProofs ----------------------
(***************************************************************************)
(* The safety properties of ConfigTransactions, for any number of queries, *)
(* probes, requests, consoles and entries.                                 *)
(*                                                                         *)
(* The argument is the lock.  Locked says what each goroutine holds or is  *)
(* parked for from where it stands, that only one writer is past its       *)
(* announcement, and that while it edits nobody reads.  Committed says     *)
(* what the configuration in force (the clone, while a request is between  *)
(* its edits and its commit) has to do with config.json and with the       *)
(* cache.                                                                  *)
(***************************************************************************)
EXTENDS ConfigTransactions, TLAPS

(* The read locks g has or is parked for. *)
Owed(g) == holds[g] + (IF g \in parked THEN 1 ELSE 0)

Due(p) == IF p \in {"rlock", "reading", "saving"} THEN 1
          ELSE IF p = "nested" THEN 2 ELSE 0

Inside == {"handling", "commit", "save", "saving"}

Locked ==
  /\ \A g \in Goroutines : Owed(g) = Due(pc[g])
  /\ \A g \in Goroutines : pc[g] = "reading" => g \notin parked
  /\ \A g \in Goroutines : pc[g] \in Inside \cup {"announced"} => writer = g
  /\ \A g, r \in Goroutines : pc[g] \in Inside => holds[r] = 0
  /\ progress = "idle" => pc[Gravity] = "idle"

(* c agrees with the file, and with every cached answer, but for what      *)
(* leaked.                                                                 *)
InForce(c) == /\ Delta(c, disk) \subseteq leaked
              /\ \A k \in cache : Delta(k, c) \subseteq leaked

Committed ==
  /\ Settled => InForce(cfg)
  /\ \A m \in Requests : pc[m] = "commit" => InForce(before)
  /\ \A m \in Requests : pc[m] = "handling" => before = cfg

-----------------------------------------------------------------------------
(* The lock. *)

LEMMA RLockOwes ==
  ASSUME LockTypeOK, NEW g \in Goroutines, g \notin parked, holds[g] \in 0..1, RLock(g)
  PROVE  /\ holds' \in [Goroutines -> 0..2]
         /\ parked' \subseteq Goroutines
         /\ Owed(g)' = Owed(g) + 1
         /\ \A r \in Goroutines \ {g} :
              Owed(r)' = Owed(r) /\ (r \in parked' <=> r \in parked)
         /\ writer # NoOne => holds' = holds
<1>1. CASE writer = NoOne
  BY <1>1 DEF LockTypeOK, RLock, Owed
<1>2. CASE writer # NoOne
  BY <1>2 DEF LockTypeOK, RLock, Owed
<1> QED BY <1>1, <1>2

LEMMA RUnlockOwes ==
  ASSUME LockTypeOK, NEW g \in Goroutines, g \notin parked, RUnlock(g), UNCHANGED parked
  PROVE  /\ holds' \in [Goroutines -> 0..2]
         /\ Owed(g)' = Owed(g) - 1
         /\ \A r \in Goroutines \ {g} : Owed(r)' = Owed(r) /\ holds'[r] = holds[r]
         /\ holds[g] > 0
BY DEF LockTypeOK, RUnlock, Owed

LEMMA UnlockOwes ==
  ASSUME LockTypeOK, Unlock, \A g \in Goroutines : Owed(g) \in 0..2
  PROVE  /\ holds' \in [Goroutines -> 0..2]
         /\ parked' = {}
         /\ writer' = NoOne
         /\ \A r \in Goroutines : Owed(r)' = Owed(r)
BY DEF LockTypeOK, Unlock, Owed

-----------------------------------------------------------------------------
(* Steps. *)

LEMMA DataTypeStep ==
  ASSUME DataTypeOK, [Next]_vars
  PROVE  DataTypeOK'
<1> USE GoroutinesOK, EntriesOK DEF DataTypeOK, GoroutinesOK, EntriesOK, Pc, Entries,
    Readers, Writers, Steps, configVars, indexVars
<1>1. ASSUME NEW q \in Queries, QueryArrives(q) PROVE DataTypeOK'
  BY <1>1 DEF QueryArrives
<1>2. ASSUME NEW q \in Queries, QueryReads(q) PROVE DataTypeOK'
  BY <1>2 DEF QueryReads
<1>3. ASSUME NEW q \in Queries, QueryAnswers(q) PROVE DataTypeOK'
  BY <1>3 DEF QueryAnswers
<1>4. ASSUME NEW q \in Probes, ProbeArrives(q) PROVE DataTypeOK'
  BY <1>4 DEF ProbeArrives
<1>5. ASSUME NEW q \in Probes, ProbeLocksAgain(q) PROVE DataTypeOK'
  BY <1>5 DEF ProbeLocksAgain
<1>6. ASSUME NEW q \in Probes, ProbeUnlocks(q) PROVE DataTypeOK'
  BY <1>6 DEF ProbeUnlocks
<1>7. ASSUME NEW g \in Writers, WriterAnnounces(g) PROVE DataTypeOK'
  BY <1>7 DEF WriterAnnounces
<1>8. ASSUME NEW m \in Requests, RequestArrives(m) PROVE DataTypeOK'
  BY <1>8 DEF RequestArrives
<1>9. ASSUME NEW m \in Requests, RequestBegins(m) PROVE DataTypeOK'
  BY <1>9 DEF RequestBegins
<1>10. ASSUME NEW m \in Requests, NEW r \in Rules, HandleRule(m, r) PROVE DataTypeOK'
  BY <1>10 DEF HandleRule
<1>11. ASSUME NEW m \in Requests, NEW e \in Others, HandleOther(m, e) PROVE DataTypeOK'
  BY <1>11 DEF HandleOther, Delta
<1>12. ASSUME NEW m \in Requests, HandleReload(m) PROVE DataTypeOK'
  BY <1>12 DEF HandleReload, RebuildIndex
<1>13. ASSUME NEW m \in Requests, HandleGravityStart(m) PROVE DataTypeOK'
  BY <1>13 DEF HandleGravityStart
<1>14. ASSUME NEW m \in Requests, HandleRefuses(m) PROVE DataTypeOK'
  BY <1>14 DEF HandleRefuses
<1>15. ASSUME NEW m \in Requests, NEW e \in Others, HandleEditsThenRefuses(m, e) PROVE DataTypeOK'
  BY <1>15 DEF HandleEditsThenRefuses, Delta
<1>16. ASSUME NEW m \in Requests, RequestUndone(m) PROVE DataTypeOK'
  BY <1>16 DEF RequestUndone, Delta
<1>17. ASSUME NEW m \in Requests, RequestCommits(m) PROVE DataTypeOK'
  BY <1>17 DEF RequestCommits
<1>18. CASE GravityFails
  BY <1>18 DEF GravityFails
<1>19. CASE GravityLoads
  BY <1>19 DEF GravityLoads, RebuildIndex
<1>20. CASE LoaderLoads
  BY <1>20 DEF LoaderLoads
<1>21. CASE GravitySaves
  BY <1>21 DEF GravitySaves, SaveConfig
<1>22. CASE LoaderSaves
  BY <1>22 DEF LoaderSaves, SaveConfig
<1>23. CASE GravityReports
  BY <1>23 DEF GravityReports
<1>24. ASSUME NEW c \in Consoles, CommandArrives(c) PROVE DataTypeOK'
  BY <1>24 DEF CommandArrives
<1>25. ASSUME NEW c \in Consoles, CommandLists(c) PROVE DataTypeOK'
  BY <1>25 DEF CommandLists
<1>26. ASSUME NEW c \in Consoles, CommandReloads(c) PROVE DataTypeOK'
  BY <1>26 DEF CommandReloads, RebuildIndex
<1>27. ASSUME NEW c \in Consoles, NEW e \in Others, CommandEdits(c, e) PROVE DataTypeOK'
  BY <1>27 DEF CommandEdits, Delta
<1>28. ASSUME NEW c \in Consoles, CommandSaves(c) PROVE DataTypeOK'
  BY <1>28 DEF CommandSaves
<1>29. CASE UNCHANGED vars
  BY <1>29 DEF vars, lockVars
<1> QED
  BY <1>1, <1>2, <1>3, <1>4, <1>5, <1>6, <1>7, <1>8, <1>9, <1>10, <1>11, <1>12, <1>13,
      <1>14, <1>15, <1>16, <1>17, <1>18, <1>19, <1>20, <1>21, <1>22, <1>23, <1>24, <1>25,
      <1>26, <1>27, <1>28, <1>29 DEF Next, Read, Serve, Load, Command, Writers

LEMMA LockStep ==
  ASSUME TypeOK, Locked, [Next]_vars
  PROVE  LockTypeOK' /\ Locked'
<1> USE DEF TypeOK
<1>1. ASSUME NEW q \in Queries, QueryArrives(q) PROVE LockTypeOK' /\ Locked'
  <2>1. /\ q \in Goroutines \ parked
        /\ holds[q] = Due(pc[q])
        /\ holds[q] \in 0..1
    BY <1>1, GoroutinesOK DEF LockTypeOK, DataTypeOK, Pc, Owed, HasRead, Locked, Due,
        Inside, Steps, GoroutinesOK, Readers, Writers, QueryArrives
  <2>2. /\ holds' \in [Goroutines -> 0..2] /\ parked' \subseteq Goroutines
        /\ Owed(q)' = Owed(q) + 1
        /\ \A r \in Goroutines \ {q} :
             Owed(r)' = Owed(r) /\ (r \in parked' <=> r \in parked)
        /\ writer # NoOne => holds' = holds
    BY <1>1, <2>1, RLockOwes DEF QueryArrives
  <2>3. Owed(q) = Due(pc[q])
    BY <2>1 DEF Locked
  <2>4. QED
    BY <1>1, <2>1, <2>2, <2>3, GoroutinesOK, NoOneIsNobody DEF LockTypeOK, DataTypeOK, Pc,
        Locked, Due, Inside, Steps, GoroutinesOK, Readers, Writers, QueryArrives
<1>2. ASSUME NEW q \in Queries, QueryReads(q) PROVE LockTypeOK' /\ Locked'
  BY <1>2, GoroutinesOK, NoOneIsNobody DEF LockTypeOK, DataTypeOK, Pc, Owed, lockVars,
      Locked, Due, Inside, Steps, GoroutinesOK, Readers, Writers, QueryReads, HasRead
<1>3. ASSUME NEW q \in Queries, QueryAnswers(q) PROVE LockTypeOK' /\ Locked'
  <2>1. q \in Goroutines \ parked
    BY <1>3, GoroutinesOK DEF LockTypeOK, DataTypeOK, Pc, Owed, HasRead, Locked, Due,
        Inside, Steps, GoroutinesOK, Readers, Writers, QueryAnswers
  <2>2. QED
    BY <1>3, <2>1, RUnlockOwes, GoroutinesOK, NoOneIsNobody
        DEF LockTypeOK, DataTypeOK, Pc, Locked, Due, Inside, Steps, GoroutinesOK, Readers,
        Writers, QueryAnswers
<1>4. ASSUME NEW q \in Probes, ProbeArrives(q) PROVE LockTypeOK' /\ Locked'
  <2>1. /\ q \in Goroutines \ parked
        /\ holds[q] = Due(pc[q])
        /\ holds[q] \in 0..1
    BY <1>4, GoroutinesOK DEF LockTypeOK, DataTypeOK, Pc, Owed, HasRead, Locked, Due,
        Inside, Steps, GoroutinesOK, Readers, Writers, ProbeArrives
  <2>2. /\ holds' \in [Goroutines -> 0..2] /\ parked' \subseteq Goroutines
        /\ Owed(q)' = Owed(q) + 1
        /\ \A r \in Goroutines \ {q} :
             Owed(r)' = Owed(r) /\ (r \in parked' <=> r \in parked)
        /\ writer # NoOne => holds' = holds
    BY <1>4, <2>1, RLockOwes DEF ProbeArrives
  <2>3. Owed(q) = Due(pc[q])
    BY <2>1 DEF Locked
  <2>4. QED
    BY <1>4, <2>1, <2>2, <2>3, GoroutinesOK, NoOneIsNobody DEF LockTypeOK, DataTypeOK, Pc,
        Locked, Due, Inside, Steps, GoroutinesOK, Readers, Writers, ProbeArrives
<1>5. ASSUME NEW q \in Probes, ProbeLocksAgain(q) PROVE LockTypeOK' /\ Locked'
  <2>1. /\ q \in Goroutines \ parked
        /\ holds[q] = Due(pc[q])
        /\ holds[q] \in 0..1
    BY <1>5, GoroutinesOK DEF LockTypeOK, DataTypeOK, Pc, Owed, HasRead, Locked, Due,
        Inside, Steps, GoroutinesOK, Readers, Writers, ProbeLocksAgain
  <2>2. /\ holds' \in [Goroutines -> 0..2] /\ parked' \subseteq Goroutines
        /\ Owed(q)' = Owed(q) + 1
        /\ \A r \in Goroutines \ {q} :
             Owed(r)' = Owed(r) /\ (r \in parked' <=> r \in parked)
        /\ writer # NoOne => holds' = holds
    BY <1>5, <2>1, RLockOwes DEF ProbeLocksAgain
  <2>3. Owed(q) = Due(pc[q])
    BY <2>1 DEF Locked
  <2>4. QED
    BY <1>5, <2>1, <2>2, <2>3, GoroutinesOK, NoOneIsNobody DEF LockTypeOK, DataTypeOK, Pc,
        Locked, Due, Inside, Steps, GoroutinesOK, Readers, Writers, ProbeLocksAgain
<1>6. ASSUME NEW q \in Probes, ProbeUnlocks(q) PROVE LockTypeOK' /\ Locked'
  <2>1. q \in Goroutines \ parked
    BY <1>6, GoroutinesOK DEF LockTypeOK, DataTypeOK, Pc, Owed, HasRead, Locked, Due,
        Inside, Steps, GoroutinesOK, Readers, Writers, ProbeUnlocks
  <2>2. QED
    BY <1>6, <2>1, RUnlockOwes, GoroutinesOK, NoOneIsNobody
        DEF LockTypeOK, DataTypeOK, Pc, Locked, Due, Inside, Steps, GoroutinesOK, Readers,
        Writers, ProbeUnlocks, HasRead
<1>7. ASSUME NEW g \in Writers, WriterAnnounces(g) PROVE LockTypeOK' /\ Locked'
  BY <1>7, GoroutinesOK, NoOneIsNobody DEF LockTypeOK, DataTypeOK, Pc, Owed, lockVars,
      Locked, Due, Inside, Steps, GoroutinesOK, Readers, Writers, WriterAnnounces, Announce
<1>8. ASSUME NEW m \in Requests, RequestArrives(m) PROVE LockTypeOK' /\ Locked'
  BY <1>8, GoroutinesOK, NoOneIsNobody DEF LockTypeOK, DataTypeOK, Pc, Owed, lockVars,
      Locked, Due, Inside, Steps, GoroutinesOK, Readers, Writers, RequestArrives
<1>9. ASSUME NEW m \in Requests, RequestBegins(m) PROVE LockTypeOK' /\ Locked'
  BY <1>9, GoroutinesOK, NoOneIsNobody DEF LockTypeOK, DataTypeOK, Pc, Owed, lockVars,
      Locked, Due, Inside, Steps, GoroutinesOK, Readers, Writers, RequestBegins, Writing
<1>10. ASSUME NEW m \in Requests, NEW r \in Rules, HandleRule(m, r) PROVE LockTypeOK' /\ Locked'
  BY <1>10, GoroutinesOK, NoOneIsNobody DEF LockTypeOK, DataTypeOK, Pc, Owed, lockVars,
      Locked, Due, Inside, Steps, GoroutinesOK, Readers, Writers, HandleRule
<1>11. ASSUME NEW m \in Requests, NEW e \in Others, HandleOther(m, e) PROVE LockTypeOK' /\ Locked'
  BY <1>11, GoroutinesOK, NoOneIsNobody DEF LockTypeOK, DataTypeOK, Pc, Owed, lockVars,
      Locked, Due, Inside, Steps, GoroutinesOK, Readers, Writers, HandleOther
<1>12. ASSUME NEW m \in Requests, HandleReload(m) PROVE LockTypeOK' /\ Locked'
  BY <1>12, GoroutinesOK, NoOneIsNobody DEF LockTypeOK, DataTypeOK, Pc, Owed, lockVars,
      Locked, Due, Inside, Steps, GoroutinesOK, Readers, Writers, HandleReload
<1>13. ASSUME NEW m \in Requests, HandleGravityStart(m) PROVE LockTypeOK' /\ Locked'
  BY <1>13, GoroutinesOK, NoOneIsNobody DEF LockTypeOK, DataTypeOK, Pc, Owed, lockVars,
      Locked, Due, Inside, Steps, GoroutinesOK, Readers, Writers, HandleGravityStart
<1>14. ASSUME NEW m \in Requests, HandleRefuses(m) PROVE LockTypeOK' /\ Locked'
  <2>1. /\ LockTypeOK' /\ parked' = {}
        /\ \A r \in Goroutines : Owed(r)' = Owed(r)
    BY <1>14, UnlockOwes DEF LockTypeOK, Locked, Due, HandleRefuses
  <2>2. /\ \A h \in Goroutines \ {m} : pc[h] \notin Inside \cup {"announced"}
        /\ pc'[m] \in {"idle", "report"}
    BY <1>14, GoroutinesOK, NoOneIsNobody DEF DataTypeOK, Pc, Writing, Locked, Due,
        Inside, Steps, GoroutinesOK, Readers, Writers, HandleRefuses
  <2>3. QED
    BY <1>14, <2>1, <2>2, GoroutinesOK, NoOneIsNobody DEF DataTypeOK, Pc, Locked, Due,
        Inside, Steps, GoroutinesOK, Readers, Writers, HandleRefuses
<1>15. ASSUME NEW m \in Requests, NEW e \in Others, HandleEditsThenRefuses(m, e)
       PROVE  LockTypeOK' /\ Locked'
  <2>1. /\ LockTypeOK' /\ parked' = {}
        /\ \A r \in Goroutines : Owed(r)' = Owed(r)
    BY <1>15, UnlockOwes DEF LockTypeOK, Locked, Due, HandleEditsThenRefuses
  <2>2. /\ \A h \in Goroutines \ {m} : pc[h] \notin Inside \cup {"announced"}
        /\ pc'[m] \in {"idle", "report"}
    BY <1>15, GoroutinesOK, NoOneIsNobody DEF DataTypeOK, Pc, Writing, Locked, Due,
        Inside, Steps, GoroutinesOK, Readers, Writers, HandleEditsThenRefuses
  <2>3. QED
    BY <1>15, <2>1, <2>2, GoroutinesOK, NoOneIsNobody DEF DataTypeOK, Pc, Locked, Due,
        Inside, Steps, GoroutinesOK, Readers, Writers, HandleEditsThenRefuses
<1>16. ASSUME NEW m \in Requests, RequestUndone(m) PROVE LockTypeOK' /\ Locked'
  <2>1. /\ LockTypeOK' /\ parked' = {}
        /\ \A r \in Goroutines : Owed(r)' = Owed(r)
    BY <1>16, UnlockOwes DEF LockTypeOK, Locked, Due, RequestUndone
  <2>2. /\ \A h \in Goroutines \ {m} : pc[h] \notin Inside \cup {"announced"}
        /\ pc'[m] \in {"idle", "report"}
    BY <1>16, GoroutinesOK, NoOneIsNobody DEF DataTypeOK, Pc, Writing, Locked, Due,
        Inside, Steps, GoroutinesOK, Readers, Writers, RequestUndone
  <2>3. QED
    BY <1>16, <2>1, <2>2, GoroutinesOK, NoOneIsNobody DEF DataTypeOK, Pc, Locked, Due,
        Inside, Steps, GoroutinesOK, Readers, Writers, RequestUndone
<1>17. ASSUME NEW m \in Requests, RequestCommits(m) PROVE LockTypeOK' /\ Locked'
  <2>1. /\ LockTypeOK' /\ parked' = {}
        /\ \A r \in Goroutines : Owed(r)' = Owed(r)
    BY <1>17, UnlockOwes DEF LockTypeOK, Locked, Due, RequestCommits
  <2>2. /\ \A h \in Goroutines \ {m} : pc[h] \notin Inside \cup {"announced"}
        /\ pc'[m] \in {"idle", "report"}
    BY <1>17, GoroutinesOK, NoOneIsNobody DEF DataTypeOK, Pc, Writing, Locked, Due,
        Inside, Steps, GoroutinesOK, Readers, Writers, RequestCommits
  <2>3. QED
    BY <1>17, <2>1, <2>2, GoroutinesOK, NoOneIsNobody DEF DataTypeOK, Pc, Locked, Due,
        Inside, Steps, GoroutinesOK, Readers, Writers, RequestCommits
<1>18. CASE GravityFails
  <2>1. /\ LockTypeOK' /\ parked' = {}
        /\ \A r \in Goroutines : Owed(r)' = Owed(r)
    BY <1>18, UnlockOwes DEF LockTypeOK, Locked, Due, GravityFails
  <2>2. /\ \A h \in Goroutines \ {Gravity} : pc[h] \notin Inside \cup {"announced"}
        /\ pc'[Gravity] \in {"idle", "report"}
    BY <1>18, GoroutinesOK, NoOneIsNobody DEF DataTypeOK, Pc, Writing, Locked, Due,
        Inside, Steps, GoroutinesOK, Readers, Writers, GravityFails
  <2>3. QED
    BY <1>18, <2>1, <2>2, GoroutinesOK, NoOneIsNobody DEF DataTypeOK, Pc, Locked, Due,
        Inside, Steps, GoroutinesOK, Readers, Writers, GravityFails
<1>19. CASE GravityLoads
  BY <1>19, GoroutinesOK, NoOneIsNobody DEF LockTypeOK, DataTypeOK, Pc, Owed, lockVars,
      Locked, Due, Inside, Steps, GoroutinesOK, Readers, Writers, GravityLoads, Writing
<1>20. CASE LoaderLoads
  BY <1>20, GoroutinesOK, NoOneIsNobody DEF LockTypeOK, DataTypeOK, Pc, Owed, lockVars,
      Locked, Due, Inside, Steps, GoroutinesOK, Readers, Writers, LoaderLoads, Writing
<1>21. CASE GravitySaves
  <2>1. /\ LockTypeOK' /\ parked' = {}
        /\ \A r \in Goroutines : Owed(r)' = Owed(r)
    BY <1>21, UnlockOwes DEF LockTypeOK, Locked, Due, GravitySaves
  <2>2. /\ \A h \in Goroutines \ {Gravity} : pc[h] \notin Inside \cup {"announced"}
        /\ pc'[Gravity] \in {"idle", "report"}
    BY <1>21, GoroutinesOK, NoOneIsNobody DEF DataTypeOK, Pc, Writing, Locked, Due,
        Inside, Steps, GoroutinesOK, Readers, Writers, GravitySaves
  <2>3. QED
    BY <1>21, <2>1, <2>2, GoroutinesOK, NoOneIsNobody DEF DataTypeOK, Pc, Locked, Due,
        Inside, Steps, GoroutinesOK, Readers, Writers, GravitySaves
<1>22. CASE LoaderSaves
  <2>1. /\ LockTypeOK' /\ parked' = {}
        /\ \A r \in Goroutines : Owed(r)' = Owed(r)
    BY <1>22, UnlockOwes DEF LockTypeOK, Locked, Due, LoaderSaves
  <2>2. /\ \A h \in Goroutines \ {Loader} : pc[h] \notin Inside \cup {"announced"}
        /\ pc'[Loader] \in {"idle", "report"}
    BY <1>22, GoroutinesOK, NoOneIsNobody DEF DataTypeOK, Pc, Writing, Locked, Due,
        Inside, Steps, GoroutinesOK, Readers, Writers, LoaderSaves
  <2>3. QED
    BY <1>22, <2>1, <2>2, GoroutinesOK, NoOneIsNobody DEF DataTypeOK, Pc, Locked, Due,
        Inside, Steps, GoroutinesOK, Readers, Writers, LoaderSaves
<1>23. CASE GravityReports
  BY <1>23, GoroutinesOK, NoOneIsNobody DEF LockTypeOK, DataTypeOK, Pc, Owed, lockVars,
      Locked, Due, Inside, Steps, GoroutinesOK, Readers, Writers, GravityReports
<1>24. ASSUME NEW c \in Consoles, CommandArrives(c) PROVE LockTypeOK' /\ Locked'
  BY <1>24, GoroutinesOK, NoOneIsNobody DEF LockTypeOK, DataTypeOK, Pc, Owed, lockVars,
      Locked, Due, Inside, Steps, GoroutinesOK, Readers, Writers, CommandArrives
<1>25. ASSUME NEW c \in Consoles, CommandLists(c) PROVE LockTypeOK' /\ Locked'
  <2>1. /\ LockTypeOK' /\ parked' = {}
        /\ \A r \in Goroutines : Owed(r)' = Owed(r)
    BY <1>25, UnlockOwes DEF LockTypeOK, Locked, Due, CommandLists
  <2>2. /\ \A h \in Goroutines \ {c} : pc[h] \notin Inside \cup {"announced"}
        /\ pc'[c] \in {"idle", "report"}
    BY <1>25, GoroutinesOK, NoOneIsNobody DEF DataTypeOK, Pc, Writing, Locked, Due,
        Inside, Steps, GoroutinesOK, Readers, Writers, CommandLists
  <2>3. QED
    BY <1>25, <2>1, <2>2, GoroutinesOK, NoOneIsNobody DEF DataTypeOK, Pc, Locked, Due,
        Inside, Steps, GoroutinesOK, Readers, Writers, CommandLists
<1>26. ASSUME NEW c \in Consoles, CommandReloads(c) PROVE LockTypeOK' /\ Locked'
  <2>1. /\ LockTypeOK' /\ parked' = {}
        /\ \A r \in Goroutines : Owed(r)' = Owed(r)
    BY <1>26, UnlockOwes DEF LockTypeOK, Locked, Due, CommandReloads
  <2>2. /\ \A h \in Goroutines \ {c} : pc[h] \notin Inside \cup {"announced"}
        /\ pc'[c] \in {"idle", "report"}
    BY <1>26, GoroutinesOK, NoOneIsNobody DEF DataTypeOK, Pc, Writing, Locked, Due,
        Inside, Steps, GoroutinesOK, Readers, Writers, CommandReloads
  <2>3. QED
    BY <1>26, <2>1, <2>2, GoroutinesOK, NoOneIsNobody DEF DataTypeOK, Pc, Locked, Due,
        Inside, Steps, GoroutinesOK, Readers, Writers, CommandReloads
<1>27. ASSUME NEW c \in Consoles, NEW e \in Others, CommandEdits(c, e) PROVE LockTypeOK' /\ Locked'
  BY <1>27, GoroutinesOK, NoOneIsNobody DEF LockTypeOK, DataTypeOK, Pc, Owed, lockVars,
      Locked, Due, Inside, Steps, GoroutinesOK, Readers, Writers, CommandEdits, Writing
<1>28. ASSUME NEW c \in Consoles, CommandSaves(c) PROVE LockTypeOK' /\ Locked'
  <2>1. /\ c \in Goroutines \ parked
        /\ holds[c] = Due(pc[c])
        /\ holds[c] \in 0..1
    BY <1>28, GoroutinesOK DEF LockTypeOK, DataTypeOK, Pc, Owed, HasRead, Locked, Due,
        Inside, Steps, GoroutinesOK, Readers, Writers, CommandSaves
  <2>2. /\ holds' \in [Goroutines -> 0..2] /\ parked' \subseteq Goroutines
        /\ Owed(c)' = Owed(c) + 1
        /\ \A r \in Goroutines \ {c} :
             Owed(r)' = Owed(r) /\ (r \in parked' <=> r \in parked)
        /\ writer # NoOne => holds' = holds
    BY <1>28, <2>1, RLockOwes DEF CommandSaves
  <2>3. Owed(c) = Due(pc[c])
    BY <2>1 DEF Locked
  <2>4. QED
    BY <1>28, <2>1, <2>2, <2>3, GoroutinesOK, NoOneIsNobody
        DEF LockTypeOK, DataTypeOK, Pc, Locked, Due, Inside, Steps, GoroutinesOK, Readers,
        Writers, CommandSaves
<1>29. CASE UNCHANGED vars
  BY <1>29 DEF vars, lockVars, configVars, indexVars, LockTypeOK, Locked, Owed
<1> QED
  BY <1>1, <1>2, <1>3, <1>4, <1>5, <1>6, <1>7, <1>8, <1>9, <1>10, <1>11, <1>12, <1>13,
      <1>14, <1>15, <1>16, <1>17, <1>18, <1>19, <1>20, <1>21, <1>22, <1>23, <1>24, <1>25,
      <1>26, <1>27, <1>28, <1>29 DEF Next, Read, Serve, Load, Command, Writers

DataInv == Committed /\ QueryStable /\ DiskIsValid /\ IndexMatchesConfig

LEMMA Alone ==
  ASSUME TypeOK, Locked, NEW g \in Goroutines, pc[g] \in Inside \cup {"announced"}
  PROVE  \A h \in Goroutines \ {g} : pc[h] \notin Inside \cup {"announced"}
BY DEF Locked

(* A reading query holds the lock, so no writer is past waiting for it. *)
LEMMA NobodyReads ==
  ASSUME TypeOK, Locked, NEW g \in Goroutines, Writing(g) \/ pc[g] \in Inside,
         NEW q \in Queries
  PROVE  pc[q] # "reading"
<1>1. holds[q] = 0 /\ q \in Goroutines
  BY GoroutinesOK DEF Locked, Writing, GoroutinesOK, Readers
<1> QED
  BY <1>1 DEF Locked, Owed, Due

LEMMA ReadersExclude ==
  ASSUME TypeOK, Locked, NEW q \in Goroutines, HasRead(q, 1) \/ pc[q] = "reading",
         NEW g \in Goroutines
  PROVE  pc[g] \notin Inside
<1>1. holds[q] # 0
  BY DEF HasRead, Locked, Owed, Due, TypeOK, LockTypeOK
<1> QED
  BY <1>1 DEF Locked

(* A step that moves nobody in or out of a commit, and changes no data. *)
LEMMA Quiet ==
  ASSUME TypeOK, DataInv, UNCHANGED <<configVars, indexVars, seen>>,
         \A q \in Queries : pc'[q] = "reading" => pc[q] = "reading",
         \A m \in Requests : /\ pc'[m] = "commit" <=> pc[m] = "commit"
                             /\ pc'[m] = "handling" => pc[m] = "handling"
  PROVE  DataInv'
BY DEF DataInv, configVars, indexVars, Committed, InForce, Settled, QueryStable,
    DiskIsValid, IndexMatchesConfig

LEMMA DataStep ==
  ASSUME TypeOK, Locked, DataInv, [Next]_vars
  PROVE  DataInv'
<1> USE DEF TypeOK
<1>1. ASSUME NEW q \in Queries, QueryArrives(q) PROVE DataInv'
  BY <1>1, Quiet, GoroutinesOK DEF DataTypeOK, Steps, GoroutinesOK, Readers, Writers, Pc,
      QueryArrives
<1>2. ASSUME NEW q \in Queries, QueryReads(q) PROVE DataInv'
  <2>1. Settled /\ \A m \in Requests : pc[m] # "handling"
    BY <1>2, ReadersExclude, GoroutinesOK DEF DataTypeOK, Steps, GoroutinesOK, Readers,
        Writers, HasRead, Settled, Inside, QueryReads
  <2>2. QueryStable' /\ DiskIsValid' /\ IndexMatchesConfig'
    BY <1>2, GoroutinesOK DEF DataTypeOK, Steps, GoroutinesOK, Readers, Writers, DataInv,
        QueryStable, DiskIsValid, IndexMatchesConfig, Delta, Entries, configVars,
        indexVars, QueryReads
  <2>3. Committed'
    BY <1>2, <2>1, GoroutinesOK DEF DataTypeOK, Steps, GoroutinesOK, Readers, Writers,
        DataInv, QueryStable, Committed, InForce, Settled, Delta, configVars, QueryReads
  <2>4. QED
    BY <2>2, <2>3 DEF DataInv
<1>3. ASSUME NEW q \in Queries, QueryAnswers(q) PROVE DataInv'
  <2>1. Settled /\ \A m \in Requests : pc[m] # "handling"
    BY <1>3, ReadersExclude, GoroutinesOK DEF DataTypeOK, Steps, GoroutinesOK, Readers,
        Writers, HasRead, Settled, Inside, QueryAnswers
  <2>2. QueryStable' /\ DiskIsValid' /\ IndexMatchesConfig'
    BY <1>3, GoroutinesOK DEF DataTypeOK, Steps, GoroutinesOK, Readers, Writers, DataInv,
        QueryStable, DiskIsValid, IndexMatchesConfig, Delta, Entries, configVars,
        indexVars, QueryAnswers
  <2>3. Committed'
    BY <1>3, <2>1, GoroutinesOK DEF DataTypeOK, Steps, GoroutinesOK, Readers, Writers,
        DataInv, QueryStable, Committed, InForce, Settled, Delta, configVars, QueryAnswers
  <2>4. QED
    BY <2>2, <2>3 DEF DataInv
<1>4. ASSUME NEW q \in Probes, ProbeArrives(q) PROVE DataInv'
  BY <1>4, Quiet, GoroutinesOK DEF DataTypeOK, Steps, GoroutinesOK, Readers, Writers, Pc,
      ProbeArrives
<1>5. ASSUME NEW q \in Probes, ProbeLocksAgain(q) PROVE DataInv'
  BY <1>5, Quiet, GoroutinesOK DEF DataTypeOK, Steps, GoroutinesOK, Readers, Writers, Pc,
      ProbeLocksAgain
<1>6. ASSUME NEW q \in Probes, ProbeUnlocks(q) PROVE DataInv'
  BY <1>6, Quiet, GoroutinesOK DEF DataTypeOK, Steps, GoroutinesOK, Readers, Writers, Pc,
      ProbeUnlocks
<1>7. ASSUME NEW g \in Writers, WriterAnnounces(g) PROVE DataInv'
  BY <1>7, Quiet, GoroutinesOK DEF DataTypeOK, Steps, GoroutinesOK, Readers, Writers, Pc,
      WriterAnnounces
<1>8. ASSUME NEW m \in Requests, RequestArrives(m) PROVE DataInv'
  BY <1>8, Quiet, GoroutinesOK DEF DataTypeOK, Steps, GoroutinesOK, Readers, Writers, Pc,
      RequestArrives
<1>9. ASSUME NEW m \in Requests, RequestBegins(m) PROVE DataInv'
  <2>1. /\ m \in Goroutines
        /\ \A h \in Goroutines \ {m} : pc[h] \notin Inside \cup {"announced"}
        /\ \A q \in Queries : pc[q] # "reading" /\ pc'[q] # "reading"
    BY <1>9, Alone, NobodyReads, GoroutinesOK DEF DataTypeOK, Steps, GoroutinesOK,
        Readers, Writers, Inside, Pc, RequestBegins
  <2>2. QueryStable' /\ DiskIsValid'
    BY <1>9, <2>1 DEF DataInv, QueryStable, DiskIsValid, Valid, configVars, indexVars,
        RequestBegins
  <2>3. IndexMatchesConfig'
    BY <1>9, <2>1, EntriesOK DEF DataInv, EntriesOK, IndexMatchesConfig, Delta,
        DataTypeOK, Entries, configVars, indexVars, RequestBegins
  <2>4. Committed'
    BY <1>9, <2>1, GoroutinesOK DEF DataTypeOK, Steps, GoroutinesOK, Readers, Writers,
        DataInv, Inside, Committed, InForce, Settled, Delta, configVars, indexVars,
        RequestBegins
  <2>5. QED
    BY <2>2, <2>3, <2>4 DEF DataInv
<1>10. ASSUME NEW m \in Requests, NEW r \in Rules, HandleRule(m, r) PROVE DataInv'
  <2>1. /\ m \in Goroutines
        /\ \A h \in Goroutines \ {m} : pc[h] \notin Inside \cup {"announced"}
        /\ \A q \in Queries : pc[q] # "reading" /\ pc'[q] # "reading"
    BY <1>10, Alone, NobodyReads, GoroutinesOK DEF DataTypeOK, Steps, GoroutinesOK,
        Readers, Writers, Inside, Pc, HandleRule
  <2>2. QueryStable' /\ DiskIsValid'
    BY <1>10, <2>1 DEF DataInv, QueryStable, DiskIsValid, Valid, configVars, indexVars,
        HandleRule
  <2>3. IndexMatchesConfig'
    BY <1>10, <2>1, EntriesOK DEF DataInv, EntriesOK, IndexMatchesConfig, Delta,
        DataTypeOK, Entries, configVars, indexVars, HandleRule
  <2>4. Committed'
    BY <1>10, <2>1, GoroutinesOK DEF DataTypeOK, Steps, GoroutinesOK, Readers, Writers,
        DataInv, Inside, Committed, InForce, Settled, Delta, configVars, indexVars,
        HandleRule
  <2>5. QED
    BY <2>2, <2>3, <2>4 DEF DataInv
<1>11. ASSUME NEW m \in Requests, NEW e \in Others, HandleOther(m, e) PROVE DataInv'
  <2>1. /\ m \in Goroutines
        /\ \A h \in Goroutines \ {m} : pc[h] \notin Inside \cup {"announced"}
        /\ \A q \in Queries : pc[q] # "reading" /\ pc'[q] # "reading"
    BY <1>11, Alone, NobodyReads, GoroutinesOK DEF DataTypeOK, Steps, GoroutinesOK,
        Readers, Writers, Inside, Pc, HandleOther
  <2>2. QueryStable' /\ DiskIsValid'
    BY <1>11, <2>1 DEF DataInv, QueryStable, DiskIsValid, Valid, configVars, indexVars,
        HandleOther, Delta
  <2>3. IndexMatchesConfig'
    BY <1>11, <2>1, EntriesOK DEF DataInv, EntriesOK, IndexMatchesConfig, Delta,
        DataTypeOK, Entries, configVars, indexVars, HandleOther, Delta
  <2>4. Committed'
    BY <1>11, <2>1, GoroutinesOK DEF DataTypeOK, Steps, GoroutinesOK, Readers, Writers,
        DataInv, Inside, Committed, InForce, Settled, Delta, configVars, indexVars,
        HandleOther, Delta
  <2>5. QED
    BY <2>2, <2>3, <2>4 DEF DataInv
<1>12. ASSUME NEW m \in Requests, HandleReload(m) PROVE DataInv'
  <2>1. /\ m \in Goroutines
        /\ \A h \in Goroutines \ {m} : pc[h] \notin Inside \cup {"announced"}
        /\ \A q \in Queries : pc[q] # "reading" /\ pc'[q] # "reading"
    BY <1>12, Alone, NobodyReads, GoroutinesOK DEF DataTypeOK, Steps, GoroutinesOK,
        Readers, Writers, Inside, Pc, HandleReload
  <2>2. QueryStable' /\ DiskIsValid'
    BY <1>12, <2>1 DEF DataInv, QueryStable, DiskIsValid, Valid, configVars, indexVars,
        HandleReload, RebuildIndex
  <2>3. IndexMatchesConfig'
    BY <1>12, <2>1, EntriesOK DEF DataInv, EntriesOK, IndexMatchesConfig, Delta,
        DataTypeOK, Entries, configVars, indexVars, HandleReload, RebuildIndex
  <2>4. Committed'
    BY <1>12, <2>1, GoroutinesOK DEF DataTypeOK, Steps, GoroutinesOK, Readers, Writers,
        DataInv, Inside, Committed, InForce, Settled, Delta, configVars, indexVars,
        HandleReload, RebuildIndex
  <2>5. QED
    BY <2>2, <2>3, <2>4 DEF DataInv
<1>13. ASSUME NEW m \in Requests, HandleGravityStart(m) PROVE DataInv'
  <2>1. /\ m \in Goroutines
        /\ \A h \in Goroutines \ {m} : pc[h] \notin Inside \cup {"announced"}
        /\ \A q \in Queries : pc[q] # "reading" /\ pc'[q] # "reading"
    BY <1>13, Alone, NobodyReads, GoroutinesOK DEF DataTypeOK, Steps, GoroutinesOK,
        Readers, Writers, Inside, Pc, HandleGravityStart
  <2>2. QueryStable' /\ DiskIsValid'
    BY <1>13, <2>1 DEF DataInv, QueryStable, DiskIsValid, Valid, configVars, indexVars,
        HandleGravityStart
  <2>3. IndexMatchesConfig'
    BY <1>13, <2>1, EntriesOK DEF DataInv, EntriesOK, IndexMatchesConfig, Delta,
        DataTypeOK, Entries, configVars, indexVars, HandleGravityStart
  <2>4. Committed'
    BY <1>13, <2>1, GoroutinesOK DEF DataTypeOK, Steps, GoroutinesOK, Readers, Writers,
        DataInv, Inside, Committed, InForce, Settled, Delta, configVars, indexVars,
        HandleGravityStart
  <2>5. QED
    BY <2>2, <2>3, <2>4 DEF DataInv
<1>14. ASSUME NEW m \in Requests, HandleRefuses(m) PROVE DataInv'
  <2>1. /\ m \in Goroutines
        /\ \A h \in Goroutines \ {m} : pc[h] \notin Inside \cup {"announced"}
        /\ \A q \in Queries : pc[q] # "reading" /\ pc'[q] # "reading"
    BY <1>14, Alone, NobodyReads, GoroutinesOK DEF DataTypeOK, Steps, GoroutinesOK,
        Readers, Writers, Inside, Pc, HandleRefuses
  <2>2. QueryStable' /\ DiskIsValid'
    BY <1>14, <2>1 DEF DataInv, QueryStable, DiskIsValid, Valid, configVars, indexVars,
        HandleRefuses
  <2>3. IndexMatchesConfig'
    BY <1>14, <2>1, EntriesOK DEF DataInv, EntriesOK, IndexMatchesConfig, Delta,
        DataTypeOK, Entries, configVars, indexVars, HandleRefuses
  <2>4. Committed'
    BY <1>14, <2>1, GoroutinesOK DEF DataTypeOK, Steps, GoroutinesOK, Readers, Writers,
        DataInv, Inside, Committed, InForce, Settled, Delta, configVars, indexVars,
        HandleRefuses
  <2>5. QED
    BY <2>2, <2>3, <2>4 DEF DataInv
<1>15. ASSUME NEW m \in Requests, NEW e \in Others, HandleEditsThenRefuses(m, e) PROVE DataInv'
  <2>1. /\ m \in Goroutines
        /\ \A h \in Goroutines \ {m} : pc[h] \notin Inside \cup {"announced"}
        /\ \A q \in Queries : pc[q] # "reading" /\ pc'[q] # "reading"
    BY <1>15, Alone, NobodyReads, GoroutinesOK DEF DataTypeOK, Steps, GoroutinesOK,
        Readers, Writers, Inside, Pc, HandleEditsThenRefuses
  <2>2. QueryStable' /\ DiskIsValid'
    BY <1>15, <2>1 DEF DataInv, QueryStable, DiskIsValid, Valid, configVars, indexVars,
        HandleEditsThenRefuses, Delta
  <2>3. IndexMatchesConfig'
    BY <1>15, <2>1, EntriesOK DEF DataInv, EntriesOK, IndexMatchesConfig, Delta,
        DataTypeOK, Entries, configVars, indexVars, HandleEditsThenRefuses, Delta
  <2>4. Committed'
    BY <1>15, <2>1, GoroutinesOK DEF DataTypeOK, Steps, GoroutinesOK, Readers, Writers,
        DataInv, Inside, Committed, InForce, Settled, Delta, configVars, indexVars,
        HandleEditsThenRefuses, Delta
  <2>5. QED
    BY <2>2, <2>3, <2>4 DEF DataInv
<1>16. ASSUME NEW m \in Requests, RequestUndone(m) PROVE DataInv'
  <2>1. /\ m \in Goroutines
        /\ \A h \in Goroutines \ {m} : pc[h] \notin Inside \cup {"announced"}
        /\ \A q \in Queries : pc[q] # "reading" /\ pc'[q] # "reading"
    BY <1>16, Alone, NobodyReads, GoroutinesOK DEF DataTypeOK, Steps, GoroutinesOK,
        Readers, Writers, Inside, Pc, RequestUndone
  <2>2. QueryStable' /\ DiskIsValid'
    BY <1>16, <2>1 DEF DataInv, QueryStable, DiskIsValid, Valid, configVars, indexVars,
        RequestUndone, Delta
  <2>3. IndexMatchesConfig'
    BY <1>16, <2>1, EntriesOK DEF DataInv, EntriesOK, IndexMatchesConfig, Delta,
        DataTypeOK, Entries, configVars, indexVars, RequestUndone, Delta
  <2>4. Committed'
    BY <1>16, <2>1, GoroutinesOK DEF DataTypeOK, Steps, GoroutinesOK, Readers, Writers,
        DataInv, Inside, Committed, InForce, Settled, Delta, configVars, indexVars,
        RequestUndone, Delta
  <2>5. QED
    BY <2>2, <2>3, <2>4 DEF DataInv
<1>17. ASSUME NEW m \in Requests, RequestCommits(m) PROVE DataInv'
  <2>1. /\ m \in Goroutines
        /\ \A h \in Goroutines \ {m} : pc[h] \notin Inside \cup {"announced"}
        /\ \A q \in Queries : pc[q] # "reading" /\ pc'[q] # "reading"
    BY <1>17, Alone, NobodyReads, GoroutinesOK DEF DataTypeOK, Steps, GoroutinesOK,
        Readers, Writers, Inside, Pc, RequestCommits
  <2>2. QueryStable' /\ DiskIsValid'
    BY <1>17, <2>1 DEF DataInv, QueryStable, DiskIsValid, Valid, configVars, indexVars,
        RequestCommits
  <2>3. IndexMatchesConfig'
    BY <1>17, <2>1, EntriesOK DEF DataInv, EntriesOK, IndexMatchesConfig, Delta,
        DataTypeOK, Entries, configVars, indexVars, RequestCommits
  <2>4. Committed'
    BY <1>17, <2>1, GoroutinesOK DEF DataTypeOK, Steps, GoroutinesOK, Readers, Writers,
        DataInv, Inside, Committed, InForce, Settled, Delta, configVars, indexVars,
        RequestCommits
  <2>5. QED
    BY <2>2, <2>3, <2>4 DEF DataInv
<1>18. CASE GravityFails
  BY <1>18, Quiet, GoroutinesOK DEF DataTypeOK, Steps, GoroutinesOK, Readers, Writers, Pc,
      GravityFails
<1>19. CASE GravityLoads
  <2>1. /\ Gravity \in Goroutines
        /\ \A h \in Goroutines \ {Gravity} : pc[h] \notin Inside \cup {"announced"}
        /\ \A q \in Queries : pc[q] # "reading" /\ pc'[q] # "reading"
    BY <1>19, Alone, NobodyReads, GoroutinesOK DEF DataTypeOK, Steps, GoroutinesOK,
        Readers, Writers, Inside, Pc, GravityLoads
  <2>2. QueryStable' /\ DiskIsValid'
    BY <1>19, <2>1 DEF DataInv, QueryStable, DiskIsValid, Valid, configVars, indexVars,
        GravityLoads, RebuildIndex
  <2>3. IndexMatchesConfig'
    BY <1>19, <2>1, EntriesOK DEF DataInv, EntriesOK, IndexMatchesConfig, Delta,
        DataTypeOK, Entries, configVars, indexVars, GravityLoads, RebuildIndex
  <2>4. Committed'
    BY <1>19, <2>1, GoroutinesOK DEF DataTypeOK, Steps, GoroutinesOK, Readers, Writers,
        DataInv, Inside, Committed, InForce, Settled, Delta, configVars, indexVars,
        GravityLoads, RebuildIndex
  <2>5. QED
    BY <2>2, <2>3, <2>4 DEF DataInv
<1>20. CASE LoaderLoads
  BY <1>20, Quiet, GoroutinesOK DEF DataTypeOK, Steps, GoroutinesOK, Readers, Writers, Pc,
      LoaderLoads
<1>21. CASE GravitySaves
  <2>1. /\ Gravity \in Goroutines
        /\ \A h \in Goroutines \ {Gravity} : pc[h] \notin Inside \cup {"announced"}
        /\ \A q \in Queries : pc[q] # "reading" /\ pc'[q] # "reading"
    BY <1>21, Alone, NobodyReads, GoroutinesOK DEF DataTypeOK, Steps, GoroutinesOK,
        Readers, Writers, Inside, Pc, GravitySaves
  <2>2. QueryStable' /\ DiskIsValid'
    BY <1>21, <2>1 DEF DataInv, QueryStable, DiskIsValid, Valid, configVars, indexVars,
        GravitySaves, SaveConfig
  <2>3. IndexMatchesConfig'
    BY <1>21, <2>1, EntriesOK DEF DataInv, EntriesOK, IndexMatchesConfig, Delta,
        DataTypeOK, Entries, configVars, indexVars, GravitySaves, SaveConfig
  <2>4. Committed'
    BY <1>21, <2>1, GoroutinesOK DEF DataTypeOK, Steps, GoroutinesOK, Readers, Writers,
        DataInv, Inside, Committed, InForce, Settled, Delta, configVars, indexVars,
        GravitySaves, SaveConfig
  <2>5. QED
    BY <2>2, <2>3, <2>4 DEF DataInv
<1>22. CASE LoaderSaves
  <2>1. /\ Loader \in Goroutines
        /\ \A h \in Goroutines \ {Loader} : pc[h] \notin Inside \cup {"announced"}
        /\ \A q \in Queries : pc[q] # "reading" /\ pc'[q] # "reading"
    BY <1>22, Alone, NobodyReads, GoroutinesOK DEF DataTypeOK, Steps, GoroutinesOK,
        Readers, Writers, Inside, Pc, LoaderSaves
  <2>2. QueryStable' /\ DiskIsValid'
    BY <1>22, <2>1 DEF DataInv, QueryStable, DiskIsValid, Valid, configVars, indexVars,
        LoaderSaves, SaveConfig
  <2>3. IndexMatchesConfig'
    BY <1>22, <2>1, EntriesOK DEF DataInv, EntriesOK, IndexMatchesConfig, Delta,
        DataTypeOK, Entries, configVars, indexVars, LoaderSaves, SaveConfig
  <2>4. Committed'
    BY <1>22, <2>1, GoroutinesOK DEF DataTypeOK, Steps, GoroutinesOK, Readers, Writers,
        DataInv, Inside, Committed, InForce, Settled, Delta, configVars, indexVars,
        LoaderSaves, SaveConfig
  <2>5. QED
    BY <2>2, <2>3, <2>4 DEF DataInv
<1>23. CASE GravityReports
  BY <1>23, Quiet, GoroutinesOK DEF DataTypeOK, Steps, GoroutinesOK, Readers, Writers, Pc,
      GravityReports
<1>24. ASSUME NEW c \in Consoles, CommandArrives(c) PROVE DataInv'
  BY <1>24, Quiet, GoroutinesOK DEF DataTypeOK, Steps, GoroutinesOK, Readers, Writers, Pc,
      CommandArrives
<1>25. ASSUME NEW c \in Consoles, CommandLists(c) PROVE DataInv'
  BY <1>25, Quiet, GoroutinesOK DEF DataTypeOK, Steps, GoroutinesOK, Readers, Writers, Pc,
      CommandLists
<1>26. ASSUME NEW c \in Consoles, CommandReloads(c) PROVE DataInv'
  <2>1. /\ c \in Goroutines
        /\ \A h \in Goroutines \ {c} : pc[h] \notin Inside \cup {"announced"}
        /\ \A q \in Queries : pc[q] # "reading" /\ pc'[q] # "reading"
    BY <1>26, Alone, NobodyReads, GoroutinesOK DEF DataTypeOK, Steps, GoroutinesOK,
        Readers, Writers, Inside, Pc, CommandReloads
  <2>2. QueryStable' /\ DiskIsValid'
    BY <1>26, <2>1 DEF DataInv, QueryStable, DiskIsValid, Valid, configVars, indexVars,
        CommandReloads, RebuildIndex
  <2>3. IndexMatchesConfig'
    BY <1>26, <2>1, EntriesOK DEF DataInv, EntriesOK, IndexMatchesConfig, Delta,
        DataTypeOK, Entries, configVars, indexVars, CommandReloads, RebuildIndex
  <2>4. Committed'
    BY <1>26, <2>1, GoroutinesOK DEF DataTypeOK, Steps, GoroutinesOK, Readers, Writers,
        DataInv, Inside, Committed, InForce, Settled, Delta, configVars, indexVars,
        CommandReloads, RebuildIndex
  <2>5. QED
    BY <2>2, <2>3, <2>4 DEF DataInv
<1>27. ASSUME NEW c \in Consoles, NEW e \in Others, CommandEdits(c, e) PROVE DataInv'
  <2>1. /\ c \in Goroutines
        /\ \A h \in Goroutines \ {c} : pc[h] \notin Inside \cup {"announced"}
        /\ \A q \in Queries : pc[q] # "reading" /\ pc'[q] # "reading"
    BY <1>27, Alone, NobodyReads, GoroutinesOK DEF DataTypeOK, Steps, GoroutinesOK,
        Readers, Writers, Inside, Pc, CommandEdits
  <2>2. QueryStable' /\ DiskIsValid'
    BY <1>27, <2>1 DEF DataInv, QueryStable, DiskIsValid, Valid, configVars, indexVars,
        CommandEdits, Delta
  <2>3. IndexMatchesConfig'
    BY <1>27, <2>1, EntriesOK DEF DataInv, EntriesOK, IndexMatchesConfig, Delta,
        DataTypeOK, Entries, configVars, indexVars, CommandEdits, Delta
  <2>4. Committed'
    BY <1>27, <2>1, GoroutinesOK DEF DataTypeOK, Steps, GoroutinesOK, Readers, Writers,
        DataInv, Inside, Committed, InForce, Settled, Delta, configVars, indexVars,
        CommandEdits, Delta
  <2>5. QED
    BY <2>2, <2>3, <2>4 DEF DataInv
<1>28. ASSUME NEW c \in Consoles, CommandSaves(c) PROVE DataInv'
  BY <1>28, Quiet, GoroutinesOK DEF DataTypeOK, Steps, GoroutinesOK, Readers, Writers, Pc,
      CommandSaves
<1>29. CASE UNCHANGED vars
  BY <1>29 DEF vars, lockVars, configVars, indexVars, DataInv, Committed, InForce,
      Settled, QueryStable, DiskIsValid, IndexMatchesConfig
<1> QED
  BY <1>1, <1>2, <1>3, <1>4, <1>5, <1>6, <1>7, <1>8, <1>9, <1>10, <1>11, <1>12, <1>13,
      <1>14, <1>15, <1>16, <1>17, <1>18, <1>19, <1>20, <1>21, <1>22, <1>23, <1>24, <1>25,
      <1>26, <1>27, <1>28, <1>29 DEF Next, Read, Serve, Load, Command, Writers

-----------------------------------------------------------------------------
(* The theorems. *)

IInv == TypeOK /\ Locked /\ DataInv

LEMMA Start == Init => IInv
BY GoroutinesOK, NoOneIsNobody DEF Init, LockInit, IInv, TypeOK, LockTypeOK, DataTypeOK,
    Pc, Locked, Owed, Due, Inside, DataInv, Committed, InForce, Settled, Delta,
    QueryStable, DiskIsValid, IndexMatchesConfig, GoroutinesOK, Readers, Writers

LEMMA Step == IInv /\ [Next]_vars => IInv'
BY DataTypeStep, LockStep, DataStep DEF IInv, TypeOK

(* The inductive invariant. *)
THEOREM Invariance == Spec => []IInv
BY Start, Step, PTL DEF Spec

(* Every variable has its type: no goroutine ever holds three read locks,  *)
(* and the lock is never given back by one that does not hold it.          *)
THEOREM TypeCorrect == Spec => []TypeOK
BY Invariance, PTL DEF IInv

(* Every query is decided and answered under one configuration and one     *)
(* block index.                                                            *)
THEOREM QueriesAreStable == Spec => []QueryStable
BY Invariance, PTL DEF IInv, DataInv

(* A 2xx reply is durable and a failed commit undone, but for what error   *)
(* replies and unsaved commands leave behind.                              *)
THEOREM ConfigurationIsDurable == Spec => []DiskMatchesConfig
<1>1. IInv => DiskMatchesConfig
  BY DEF IInv, DataInv, Committed, InForce, DiskMatchesConfig
<1> QED
  BY <1>1, Invariance, PTL

(* config.json always validates. *)
THEOREM FileIsValid == Spec => []DiskIsValid
BY Invariance, PTL DEF IInv, DataInv

(* The index repeats the manual rules, but for those of undone requests. *)
THEOREM IndexFollowsConfig == Spec => []IndexMatchesConfig
BY Invariance, PTL DEF IInv, DataInv

(* No cached answer outlives the configuration it was made under. *)
THEOREM CacheFollowsConfig == Spec => []CacheIsCurrent
<1>1. IInv => CacheIsCurrent
  BY DEF IInv, DataInv, Committed, InForce, CacheIsCurrent
<1> QED
  BY <1>1, Invariance, PTL

-----------------------------------------------------------------------------
(* ConfigStore is implemented.                                             *)

(* A step that moves no query in or out, no request to or from its commit, *)
(* and changes no data.                                                    *)
LEMMA QuietStore ==
  ASSUME TypeOK, UNCHANGED configVars,
         \A q \in Queries : pc'[q] = "reading" <=> pc[q] = "reading",
         \A m \in Requests : pc'[m] = "commit" <=> pc[m] = "commit"
  PROVE  UNCHANGED Store!storeVars
<1>1. Underway' = Underway
  BY DEF Underway
<1>2. Settled' <=> Settled
  BY DEF Settled
<1>3. CfgInForce' = CfgInForce
  BY <1>2 DEF CfgInForce, configVars
<1> QED
  BY <1>1, <1>3 DEF Store!storeVars, configVars

(* A step of a writer that has the lock: nobody reads, and no request but  *)
(* itself is past its edits.                                               *)
LEMMA WriterSteps ==
  ASSUME TypeOK, Locked, NEW g \in Writers, NEW p \in Pc,
         (Writing(g) /\ pc[g] = "announced") \/ pc[g] \in Inside,
         Steps(g, pc[g], p)
  PROVE  /\ Underway = {} /\ Underway' = {}
         /\ \A m \in Requests \ {g} : pc[m] # "commit" /\ pc'[m] # "commit"
         /\ pc'[g] = p
<1>1. g \in Goroutines /\ g \notin Queries
  BY GoroutinesOK DEF GoroutinesOK, Readers
<1>2. pc'[g] = p /\ \A h \in Goroutines \ {g} : pc'[h] = pc[h]
  BY <1>1 DEF Steps, TypeOK, DataTypeOK
<1>3. \A q \in Queries : pc[q] # "reading" /\ pc'[q] # "reading"
  BY <1>1, <1>2, NobodyReads, GoroutinesOK DEF GoroutinesOK, Readers
<1>4. \A m \in Requests \ {g} : pc[m] # "commit"
  BY <1>1, Alone, GoroutinesOK DEF Inside, GoroutinesOK, Writers
<1> QED
  BY <1>2, <1>3, <1>4, GoroutinesOK DEF Underway, GoroutinesOK, Writers

LEMMA StoreStep ==
  ASSUME TypeOK, Locked, DataInv, [Next]_vars
  PROVE  [Store!Next]_(Store!storeVars)
<1> DEFINE Implemented == Store!Next \/ UNCHANGED Store!storeVars
<1> SUFFICES Implemented
  OBVIOUS
<1>1. ASSUME NEW q \in Queries, QueryArrives(q) PROVE Implemented
  BY <1>1, QuietStore, GoroutinesOK DEF TypeOK, DataTypeOK, Steps, GoroutinesOK, Readers,
      Writers, QueryArrives
<1>2. ASSUME NEW q \in Queries, QueryReads(q) PROVE Implemented
  <2>1. CfgInForce' = CfgInForce
    BY <1>2, GoroutinesOK DEF CfgInForce, Settled, configVars, TypeOK, DataTypeOK, Steps,
        GoroutinesOK, Readers, Writers, QueryReads
  <2>2. q \notin Underway /\ Underway' = Underway \cup {q}
    BY <1>2, GoroutinesOK DEF Underway, TypeOK, DataTypeOK, Steps, GoroutinesOK, Readers,
        QueryReads
  <2>3. Store!Begin(q)
    BY <1>2, <2>1, <2>2 DEF Store!Begin, QueryReads, configVars
  <2> QED
    BY <2>3 DEF Store!Next
<1>3. ASSUME NEW q \in Queries, QueryAnswers(q) PROVE Implemented
  <2>1. Settled /\ Settled'
    BY <1>3, ReadersExclude, GoroutinesOK DEF TypeOK, DataTypeOK, Steps, GoroutinesOK,
        Readers, Writers, Settled, Inside, QueryAnswers
  <2>2. CfgInForce = cfg /\ CfgInForce' = cfg
    BY <1>3, <2>1 DEF CfgInForce, QueryAnswers
  <2>3. seen[q][1] = cfg
    BY <1>3 DEF DataInv, QueryStable, QueryAnswers, Steps
  <2>4. q \in Underway /\ Underway' = Underway \ {q}
    BY <1>3, GoroutinesOK DEF Underway, TypeOK, DataTypeOK, Steps, GoroutinesOK, Readers,
        QueryAnswers
  <2>5. Store!End(q)
    BY <1>3, <2>2, <2>3, <2>4 DEF Store!End, QueryAnswers
  <2> QED
    BY <2>5 DEF Store!Next
<1>4. ASSUME NEW p \in Probes, ProbeArrives(p) \/ ProbeLocksAgain(p) \/ ProbeUnlocks(p)
      PROVE  Implemented
  BY <1>4, QuietStore, GoroutinesOK DEF TypeOK, DataTypeOK, Steps, GoroutinesOK, Readers,
      Writers, ProbeArrives, ProbeLocksAgain, ProbeUnlocks
<1>5. ASSUME NEW g \in Writers, WriterAnnounces(g) PROVE Implemented
  BY <1>5, QuietStore, GoroutinesOK DEF TypeOK, DataTypeOK, Steps, GoroutinesOK, Readers,
      Writers, WriterAnnounces
<1>6. ASSUME NEW m \in Requests, RequestArrives(m) PROVE Implemented
  BY <1>6, QuietStore, GoroutinesOK DEF TypeOK, DataTypeOK, Steps, GoroutinesOK, Readers,
      Writers, RequestArrives
<1>7. ASSUME NEW m \in Requests, RequestBegins(m) PROVE Implemented
  <2>1. Underway = {} /\ Underway' = {} /\ Settled /\ Settled'
    BY <1>7, WriterSteps DEF RequestBegins, Steps, Pc, Writers, Settled
  <2> QED
    BY <1>7, <2>1 DEF RequestBegins, CfgInForce, Store!storeVars
<1>8. ASSUME NEW m \in Requests,
             \/ \E r \in Rules : HandleRule(m, r)
             \/ \E e \in Others : HandleOther(m, e)
             \/ HandleReload(m)
      PROVE  Implemented
  <2>1. Steps(m, "handling", "commit") /\ UNCHANGED <<disk, before, cache, leaked>>
    BY <1>8 DEF HandleRule, HandleOther, HandleReload, configVars
  <2>2. /\ Underway = {} /\ Underway' = {}
        /\ \A h \in Requests \ {m} : pc[h] # "commit"
        /\ pc[m] = "handling" /\ pc'[m] = "commit"
    BY <2>1, WriterSteps DEF Steps, Pc, Writers, Inside
  <2>3. Settled /\ ~Settled'
    BY <2>2 DEF Settled
  <2>4. before = cfg
    BY <2>2 DEF DataInv, Committed
  <2> QED
    BY <2>1, <2>2, <2>3, <2>4 DEF CfgInForce, Store!storeVars
<1>9. ASSUME NEW m \in Requests, HandleGravityStart(m) PROVE Implemented
  <2>1. /\ m \in Goroutines /\ m # Gravity /\ Gravity \in Goroutines \ Queries
        /\ m \notin Queries /\ Gravity \notin Requests
    BY GoroutinesOK DEF GoroutinesOK, Readers, Writers
  <2>2. /\ pc[m] = "handling" /\ pc'[m] = "commit"
        /\ \A q \in Queries : pc'[q] = pc[q]
    BY <1>9, <2>1, GoroutinesOK DEF HandleGravityStart, TypeOK, DataTypeOK, GoroutinesOK,
        Readers
  <2>3. \A h \in Requests \ {m} : pc[h] # "commit"
    BY <2>1, <2>2, Alone, GoroutinesOK DEF Inside, GoroutinesOK, Writers
  <2>4. Settled /\ ~Settled' /\ Underway' = Underway
    BY <2>2, <2>3 DEF Settled, Underway
  <2>5. before = cfg
    BY <2>2 DEF DataInv, Committed
  <2> QED
    BY <1>9, <2>4, <2>5 DEF HandleGravityStart, configVars, CfgInForce, Store!storeVars
<1>10. ASSUME NEW m \in Requests, HandleRefuses(m) PROVE Implemented
  <2>1. Underway = {} /\ Underway' = {} /\ Settled /\ Settled'
    BY <1>10, WriterSteps DEF HandleRefuses, Steps, Pc, Writers, Settled, Inside
  <2> QED
    BY <1>10, <2>1 DEF HandleRefuses, CfgInForce, Store!storeVars
<1>11. ASSUME NEW m \in Requests, NEW e \in Others, HandleEditsThenRefuses(m, e)
       PROVE  Implemented
  <2>1. Underway = {} /\ Underway' = {} /\ Settled /\ Settled'
    BY <1>11, WriterSteps DEF HandleEditsThenRefuses, Steps, Pc, Writers, Settled, Inside
  <2>2. Store!Stray(e)
    BY <1>11, <2>1 DEF HandleEditsThenRefuses, CfgInForce, Store!Stray, Store!Differ, Delta
  <2> QED
    BY <2>2 DEF Store!Next, Entries
<1>12. ASSUME NEW m \in Requests, RequestUndone(m) PROVE Implemented
  <2>1. Underway = {} /\ Underway' = {} /\ ~Settled /\ Settled'
    BY <1>12, WriterSteps DEF RequestUndone, Steps, Pc, Writers, Settled, Inside
  <2> QED
    BY <1>12, <2>1 DEF RequestUndone, CfgInForce, Store!storeVars
<1>13. ASSUME NEW m \in Requests, RequestCommits(m) PROVE Implemented
  <2>1. Underway = {} /\ Underway' = {} /\ ~Settled /\ Settled'
    BY <1>13, WriterSteps DEF RequestCommits, Steps, Pc, Writers, Settled, Inside
  <2>2. CfgInForce' = cfg
    BY <1>13, <2>1 DEF RequestCommits, CfgInForce
  <2>3. Store!Acceptable(cfg)
    BY <1>13 DEF RequestCommits, Valid, Store!Acceptable, TypeOK, DataTypeOK
  <2>4. Store!Commit
    BY <1>13, <2>1, <2>2, <2>3 DEF RequestCommits, Store!Commit
  <2> QED
    BY <2>4 DEF Store!Next
<1>14. CASE GravityFails \/ LoaderLoads \/ GravityReports
  BY <1>14, QuietStore, GoroutinesOK DEF TypeOK, DataTypeOK, Steps, GoroutinesOK, Readers,
      Writers, GravityFails, LoaderLoads, GravityReports
<1>15. CASE GravityLoads
  BY <1>15, QuietStore, GoroutinesOK DEF TypeOK, DataTypeOK, Steps, GoroutinesOK, Readers,
      Writers, GravityLoads
<1>16. CASE GravitySaves \/ LoaderSaves
  <2>1. SaveConfig /\ UNCHANGED <<cfg, before, cache, leaked>>
    BY <1>16 DEF GravitySaves, LoaderSaves
  <2>2. Underway = {} /\ Underway' = {} /\ Settled /\ Settled'
    <3>1. CASE GravitySaves
      BY <3>1, WriterSteps, GoroutinesOK DEF GravitySaves, Steps, Pc, Writers, Settled,
          Inside, GoroutinesOK
    <3>2. CASE LoaderSaves
      BY <3>2, WriterSteps, GoroutinesOK DEF LoaderSaves, Steps, Pc, Writers, Settled,
          Inside, GoroutinesOK
    <3> QED
      BY <1>16, <3>1, <3>2
  <2>3. CfgInForce = cfg /\ CfgInForce' = cfg
    BY <2>1, <2>2 DEF CfgInForce
  <2>4. CASE UNCHANGED disk
    BY <2>1, <2>2, <2>3, <2>4 DEF Store!storeVars
  <2>5. CASE Valid /\ disk' = cfg
    BY <2>1, <2>2, <2>3, <2>5 DEF Store!Persist, Store!Acceptable, Store!Next, Valid,
        TypeOK, DataTypeOK
  <2> QED
    BY <2>1, <2>4, <2>5 DEF SaveConfig
<1>17. ASSUME NEW c \in Consoles,
              CommandArrives(c) \/ CommandLists(c) \/ CommandReloads(c) \/ CommandSaves(c)
       PROVE  Implemented
  BY <1>17, QuietStore, GoroutinesOK DEF TypeOK, DataTypeOK, Steps, GoroutinesOK, Readers,
      Writers, CommandArrives, CommandLists, CommandReloads, CommandSaves
<1>18. ASSUME NEW c \in Consoles, NEW e \in Others, CommandEdits(c, e) PROVE Implemented
  <2>1. Underway = {} /\ Underway' = {} /\ Settled /\ Settled'
    BY <1>18, WriterSteps, GoroutinesOK DEF CommandEdits, Steps, Pc, Writers, Settled,
        GoroutinesOK
  <2>2. Store!Stray(e)
    BY <1>18, <2>1 DEF CommandEdits, CfgInForce, Store!Stray, Store!Differ, Delta
  <2> QED
    BY <2>2 DEF Store!Next, Entries
<1>19. CASE UNCHANGED vars
  BY <1>19 DEF vars, configVars, Underway, CfgInForce, Settled, Store!storeVars
<1> QED
  BY <1>1, <1>2, <1>3, <1>4, <1>5, <1>6, <1>7, <1>8, <1>9, <1>10, <1>11, <1>12, <1>13,
      <1>14, <1>15, <1>16, <1>17, <1>18, <1>19
      DEF Next, Read, Serve, Load, Command, Writers

(* Whoever takes the lock may think of a request as one step: the steps    *)
(* between its first edit and its reply are ConfigStore's Commit, or none. *)
THEOREM Implementation == Spec => ImplementsConfigStore
<1>1. Init => Store!Init
  BY GoroutinesOK DEF Init, Store!Init, CfgInForce, Settled, Underway, GoroutinesOK,
      Readers, Writers
<1>2. IInv /\ [Next]_vars => [Store!Next]_(Store!storeVars)
  BY StoreStep DEF IInv
<1> QED
  BY <1>1, <1>2, Invariance, PTL DEF Spec, ImplementsConfigStore, Store!Spec

Promised == INSTANCE ConfigStoreProofs WITH memory <- CfgInForce, file <- disk,
                                            strayed <- leaked, answers <- cache,
                                            reading <- Underway

(* What was proved of ConfigStore holds of the code's requests, saves and   *)
(* queries: config.json is acceptable, and it and the cached answers agree  *)
(* with the configuration in force but for what was edited and not saved.   *)
THEOREM AgreementInherited == Spec => []Store!Agreement
<1>1. Store!Init => Promised!Init
  BY DEF Store!Init, Promised!Init
<1>2. [Store!Next]_(Store!storeVars) => [Promised!Next]_(Promised!storeVars)
  BY DEF Store!Next, Store!storeVars, Store!Begin, Store!End, Store!Commit, Store!Stray,
     Store!Persist, Store!Acceptable, Store!Differ, Promised!Next, Promised!storeVars,
     Promised!Begin, Promised!End, Promised!Commit, Promised!Stray, Promised!Persist,
     Promised!Acceptable, Promised!Differ
<1>3. Store!Spec => Promised!Spec
  BY <1>1, <1>2, PTL DEF Store!Spec, Promised!Spec
<1>4. Promised!Agreement => Store!Agreement
  BY DEF Promised!Agreement, Promised!Acceptable, Promised!Differ,
     Store!Agreement, Store!Acceptable, Store!Differ
<1> QED
  BY Implementation, Promised!StoreAgrees, <1>3, <1>4, PTL DEF ImplementsConfigStore

-----------------------------------------------------------------------------
(* Waiting for the lock.                                                   *)

(* Who is announced has not left, and readers are parked only behind him.  *)
Announced ==
  /\ writer # NoOne => pc[writer] \in Inside \cup {"announced"}
  /\ parked # {} => writer # NoOne

LEMMA AnnouncedStays ==
  ASSUME TypeOK, Announced, UNCHANGED writer, parked' # {} => writer # NoOne,
         \A g \in Goroutines : pc[g] \in Inside \cup {"announced"}
                                => pc'[g] \in Inside \cup {"announced"}
  PROVE  Announced'
BY DEF Announced, TypeOK, LockTypeOK

LEMMA AnnouncedStep ==
  ASSUME TypeOK, Locked, Announced, [Next]_vars
  PROVE  Announced'
<1>1. ASSUME NEW q \in Queries, QueryArrives(q) \/ QueryReads(q) \/ QueryAnswers(q)
      PROVE  Announced'
  <2>1. UNCHANGED writer /\ (parked' # {} => writer # NoOne)
    BY <1>1 DEF Announced, QueryArrives, QueryReads, QueryAnswers, RLock, lockVars
  <2>2. \A g \in Goroutines : pc[g] \in Inside \cup {"announced"} => pc'[g] = pc[g]
    BY <1>1 DEF TypeOK, DataTypeOK, Steps, Inside, QueryArrives, QueryReads, QueryAnswers
  <2> QED
    BY <2>1, <2>2, AnnouncedStays
<1>2. ASSUME NEW p \in Probes, ProbeArrives(p) \/ ProbeLocksAgain(p) \/ ProbeUnlocks(p)
      PROVE  Announced'
  <2>1. UNCHANGED writer /\ (parked' # {} => writer # NoOne)
    BY <1>2 DEF Announced, ProbeArrives, ProbeLocksAgain, ProbeUnlocks, RLock
  <2>2. \A g \in Goroutines : pc[g] \in Inside \cup {"announced"} => pc'[g] = pc[g]
    BY <1>2 DEF TypeOK, DataTypeOK, Steps, Inside, ProbeArrives, ProbeLocksAgain,
        ProbeUnlocks
  <2> QED
    BY <2>1, <2>2, AnnouncedStays
<1>3. ASSUME NEW g \in Writers, WriterAnnounces(g) PROVE Announced'
  BY <1>3, GoroutinesOK, NoOneIsNobody DEF Announced, WriterAnnounces, Announce, Steps,
      TypeOK, DataTypeOK, GoroutinesOK, Inside
<1>4. ASSUME NEW m \in Requests,
             \/ RequestArrives(m) \/ RequestBegins(m)
             \/ \E r \in Rules : HandleRule(m, r)
             \/ \E e \in Others : HandleOther(m, e)
             \/ HandleReload(m)
      PROVE  Announced'
  <2>1. UNCHANGED lockVars
    BY <1>4 DEF RequestArrives, RequestBegins, HandleRule, HandleOther, HandleReload
  <2>2. Steps(m, "idle", "lock") \/ Steps(m, "announced", "handling")
        \/ Steps(m, "handling", "commit")
    BY <1>4 DEF RequestArrives, RequestBegins, HandleRule, HandleOther, HandleReload
  <2>3. \A g \in Goroutines : pc[g] \in Inside \cup {"announced"}
                               => pc'[g] \in Inside \cup {"announced"}
    BY <2>2 DEF Steps, TypeOK, DataTypeOK, Inside
  <2> QED
    BY <2>1, <2>3, AnnouncedStays DEF lockVars, Announced
<1>5. ASSUME NEW m \in Requests, HandleGravityStart(m) PROVE Announced'
  <2>1. UNCHANGED lockVars
    BY <1>5 DEF HandleGravityStart
  <2>2. pc[Gravity] = "idle"
    BY <1>5 DEF HandleGravityStart, Locked
  <2>3. \A g \in Goroutines : pc[g] \in Inside \cup {"announced"}
                               => pc'[g] \in Inside \cup {"announced"}
    BY <1>5, <2>2 DEF HandleGravityStart, TypeOK, DataTypeOK, Inside
  <2> QED
    BY <2>1, <2>3, AnnouncedStays DEF lockVars, Announced
<1>6. ASSUME Unlock PROVE Announced'
  BY <1>6 DEF Unlock, Announced
<1>7. ASSUME NEW m \in Requests,
             \/ HandleRefuses(m) \/ RequestUndone(m) \/ RequestCommits(m)
             \/ \E e \in Others : HandleEditsThenRefuses(m, e)
      PROVE  Announced'
  BY <1>6, <1>7 DEF HandleRefuses, RequestUndone, RequestCommits, HandleEditsThenRefuses
<1>8. CASE GravityFails \/ GravitySaves \/ LoaderSaves
  BY <1>6, <1>8 DEF GravityFails, GravitySaves, LoaderSaves
<1>9. CASE GravityLoads \/ LoaderLoads \/ GravityReports
  <2>1. UNCHANGED lockVars
    BY <1>9 DEF GravityLoads, LoaderLoads, GravityReports
  <2>2. \A g \in Goroutines : pc[g] \in Inside \cup {"announced"}
                               => pc'[g] \in Inside \cup {"announced"}
    BY <1>9 DEF GravityLoads, LoaderLoads, GravityReports, Steps, TypeOK, DataTypeOK, Inside
  <2> QED
    BY <2>1, <2>2, AnnouncedStays DEF lockVars, Announced
<1>10. ASSUME NEW c \in Consoles, CommandLists(c) \/ CommandReloads(c) PROVE Announced'
  BY <1>6, <1>10 DEF CommandLists, CommandReloads
<1>11. ASSUME NEW c \in Consoles,
              \/ CommandArrives(c) \/ CommandSaves(c)
              \/ \E e \in Others : CommandEdits(c, e)
       PROVE  Announced'
  <2>1. UNCHANGED writer /\ (parked' # {} => writer # NoOne)
    BY <1>11 DEF Announced, CommandArrives, CommandSaves, CommandEdits, RLock, lockVars
  <2>2. \A g \in Goroutines : pc[g] \in Inside \cup {"announced"}
                               => pc'[g] \in Inside \cup {"announced"}
    BY <1>11 DEF CommandArrives, CommandSaves, CommandEdits, Steps, TypeOK, DataTypeOK,
        Inside
  <2> QED
    BY <2>1, <2>2, AnnouncedStays
<1>12. CASE UNCHANGED vars
  BY <1>12 DEF vars, lockVars, Announced
<1> QED
  BY <1>1, <1>2, <1>3, <1>4, <1>5, <1>7, <1>8, <1>9, <1>10, <1>11, <1>12
      DEF Next, Read, Serve, Load, Command, Writers

(* From where each goroutine stands: nobody waits for one who left.        *)
LEMMA Served ==
  ASSUME TypeOK, Locked, Announced
  PROVE  WaitsAreServed
<1> SUFFICES ASSUME NEW g \in Goroutines, Waits(g), ~Knotted
             PROVE  \E h \in Goroutines : Works(h)
  BY DEF WaitsAreServed
<1>1. ASSUME NEW h \in Goroutines, holds[h] > 0 PROVE Works(h)
  <2>1. /\ holds[h] \in 0..2 /\ pc[h] \in Pc
        /\ Owed(h) = Due(pc[h])
        /\ pc[h] = "reading" => h \notin parked
    BY DEF Locked, TypeOK, LockTypeOK, DataTypeOK
  <2>2. pc[h] # "saving" /\ (pc[h] = "nested" => h \notin parked)
    BY DEF Knotted
  <2>3. CASE pc[h] = "rlock"
    BY <1>1, <2>1, <2>3 DEF Owed, Due, Waits, Works, HasRead
  <2>4. CASE pc[h] = "nested"
    BY <1>1, <2>1, <2>2, <2>4 DEF Owed, Due, Waits, Works, HasRead
  <2>5. CASE pc[h] = "reading"
    BY <1>1, <2>5 DEF Waits, Works
  <2> QED
    BY <1>1, <2>1, <2>2, <2>3, <2>4, <2>5 DEF Owed, Due
<1>2. CASE writer # NoOne
  <2>1. writer \in Goroutines /\ pc[writer] \in Inside \cup {"announced"}
    BY <1>2 DEF Announced, TypeOK, LockTypeOK
  <2>2. CASE pc[writer] \in Inside
    BY <2>1, <2>2 DEF Knotted, Works, Waits, Inside
  <2>3. CASE pc[writer] = "announced" /\ Writing(writer)
    BY <2>1, <2>3 DEF Works, Waits
  <2>4. CASE pc[writer] = "announced" /\ ~Writing(writer)
    <3>1. PICK r \in Goroutines : holds[r] # 0
      BY <2>4 DEF Writing
    <3>2. holds[r] > 0
      BY <3>1 DEF TypeOK, LockTypeOK
    <3> QED
      BY <3>2, <1>1
  <2> QED
    BY <2>1, <2>2, <2>3, <2>4
<1>3. CASE writer = NoOne
  <2>1. parked = {}
    BY <1>3 DEF Announced
  <2>2. holds[g] \in 0..2 /\ Owed(g) = Due(pc[g])
    BY DEF Locked, TypeOK, LockTypeOK
  <2>3. pc[g] # "announced" /\ pc[g] # "saving"
    BY <1>3, NoOneIsNobody DEF Locked, Knotted
  <2> QED
    BY <1>3, <2>1, <2>2, <2>3 DEF Waits, HasRead, Owed, Due
<1> QED
  BY <1>2, <1>3

LEMMA WaitsStep == IInv /\ Announced /\ [Next]_vars => Announced'
BY AnnouncedStep DEF IInv

LEMMA AlwaysAnnounced == Spec => []Announced
<1>1. Init => Announced
  BY DEF Init, LockInit, Announced
<1> QED
  BY <1>1, WaitsStep, Invariance, PTL DEF Spec

(* Whatever path a goroutine takes through the lock, somebody who has it   *)
(* is on the way to give it back: the two known knots are the only way for *)
(* the server to stop.                                                     *)
THEOREM WaitsEndInWork == Spec => []WaitsAreServed
<1>1. IInv /\ Announced => WaitsAreServed
  BY Served DEF IInv
<1> QED
  BY <1>1, Invariance, AlwaysAnnounced, PTL

(* A knot is for good, and the server stops in it: nobody gets the lock    *)
(* any more, and configuration, index and file stay as they are.           *)
KnotHolds == Knotted => /\ Knotted'
                        /\ UNCHANGED <<writer, cfg, index, disk>>
                        /\ \A g \in Goroutines : holds'[g] <= holds[g]

(* In a knot no unlock is ahead, and no writer has the lock to itself      *)
(* unless it is in the knot.                                               *)
LEMMA KnottedStep ==
  ASSUME TypeOK, Locked, Announced, NEW k \in Goroutines,
         (pc[k] = "nested" /\ k \in parked) \/ pc[k] = "saving",
         [Next]_vars
  PROVE  /\ (pc'[k] = "nested" /\ k \in parked') \/ pc'[k] = "saving"
         /\ UNCHANGED <<writer, cfg, index, disk>>
         /\ \A g \in Goroutines : holds'[g] <= holds[g]
<1> DEFINE Held == /\ (pc'[k] = "nested" /\ k \in parked') \/ pc'[k] = "saving"
                   /\ UNCHANGED <<writer, cfg, index, disk>>
                   /\ \A g \in Goroutines : holds'[g] <= holds[g]
<1> SUFFICES Held
  OBVIOUS
<1>1. writer # NoOne
  BY NoOneIsNobody DEF Announced, Locked, Inside
<1>2. ASSUME NEW g \in Goroutines PROVE pc[g] \notin {"handling", "commit", "save"}
  <2>1. CASE pc[k] = "nested" /\ k \in parked
    <3>1. holds[k] # 0
      BY <2>1 DEF Locked, Owed, Due, TypeOK, LockTypeOK
    <3> QED
      BY <3>1 DEF Locked, Inside
  <2>2. CASE pc[k] = "saving"
    BY <2>2, Alone DEF Inside
  <2> QED
    BY <2>1, <2>2
<1>3. ASSUME NEW g \in Goroutines PROVE ~(Writing(g) /\ pc[g] = "announced")
  <2>1. CASE pc[k] = "nested" /\ k \in parked
    <3>1. holds[k] # 0
      BY <2>1 DEF Locked, Owed, Due, TypeOK, LockTypeOK
    <3> QED
      BY <3>1 DEF Writing
  <2>2. CASE pc[k] = "saving"
    BY <2>2, Alone DEF Inside
  <2> QED
    BY <2>1, <2>2
<1>4. \A g \in Goroutines : holds[g] \in 0..2
  BY DEF TypeOK, LockTypeOK
<1> USE DEF TypeOK, LockTypeOK, DataTypeOK
<1>5. ASSUME NEW q \in Queries, QueryArrives(q) \/ QueryReads(q) \/ QueryAnswers(q)
      PROVE  Held
  BY <1>1, <1>4, <1>5 DEF QueryArrives, QueryReads, QueryAnswers, RLock, RUnlock, Steps,
      configVars, indexVars, lockVars
<1>6. ASSUME NEW p \in Probes, ProbeArrives(p) \/ ProbeLocksAgain(p) \/ ProbeUnlocks(p)
      PROVE  Held
  BY <1>1, <1>4, <1>6 DEF ProbeArrives, ProbeLocksAgain, ProbeUnlocks, HasRead, RLock,
      RUnlock, Steps, configVars, indexVars
<1>7. ASSUME NEW g \in Writers, WriterAnnounces(g) PROVE Held
  BY <1>1, <1>7 DEF WriterAnnounces, Announce
<1>8. ASSUME NEW m \in Requests, Serve(m), ~WriterAnnounces(m) PROVE Held
  <2>1. m \in Goroutines
    BY GoroutinesOK DEF GoroutinesOK, Writers
  <2>2. RequestArrives(m)
    BY <1>2, <1>3, <1>8, <2>1 DEF Serve, RequestBegins, HandleRule, HandleOther,
        HandleEditsThenRefuses, HandleReload, HandleGravityStart, HandleRefuses,
        RequestUndone, RequestCommits, Steps
  <2> QED
    BY <1>4, <2>2 DEF RequestArrives, Steps, configVars, indexVars, lockVars
<1>9. CASE Load
  <2>1. Gravity \in Goroutines /\ Loader \in Goroutines
    BY GoroutinesOK DEF GoroutinesOK, Writers
  <2>2. ~WriterAnnounces(Gravity) /\ ~WriterAnnounces(Loader)
    BY <1>1 DEF WriterAnnounces, Announce
  <2>3. GravityReports
    BY <1>2, <1>3, <1>9, <2>1, <2>2 DEF Load, GravityFails, GravityLoads, GravitySaves,
        LoaderLoads, LoaderSaves, Steps
  <2> QED
    BY <1>4, <2>3 DEF GravityReports, Steps, configVars, indexVars, lockVars
<1>10. ASSUME NEW c \in Consoles, Command(c) PROVE Held
  <2>1. c \in Goroutines
    BY GoroutinesOK DEF GoroutinesOK, Writers
  <2>2. CommandArrives(c)
    BY <1>1, <1>2, <1>3, <1>10, <2>1 DEF Command, WriterAnnounces, Announce, CommandLists,
        CommandReloads, CommandEdits, CommandSaves, Steps
  <2> QED
    BY <1>4, <2>2 DEF CommandArrives, Steps, configVars, indexVars, lockVars
<1>11. CASE UNCHANGED vars
  BY <1>4, <1>11 DEF vars, configVars, indexVars, lockVars
<1> QED
  BY <1>5, <1>6, <1>7, <1>8, <1>9, <1>10, <1>11 DEF Next, Read, Writers

THEOREM KnotsAreForGood == Spec => [][KnotHolds]_vars
<1>1. ASSUME IInv, Announced, [Next]_vars, Knotted
      PROVE  /\ Knotted'
             /\ UNCHANGED <<writer, cfg, index, disk>>
             /\ \A g \in Goroutines : holds'[g] <= holds[g]
  <2>1. PICK k \in Goroutines : (pc[k] = "nested" /\ k \in parked) \/ pc[k] = "saving"
    BY <1>1 DEF Knotted, IInv, TypeOK, LockTypeOK
  <2> QED
    BY <1>1, <2>1, KnottedStep DEF IInv, Knotted
<1>2. IInv /\ Announced /\ [Next]_vars => [KnotHolds]_vars
  BY <1>1 DEF KnotHolds
<1> QED
  BY <1>2, Invariance, AlwaysAnnounced, PTL DEF Spec

(* A request finds in the configuration it starts from no unacceptable     *)
(* entry but those earlier refusals left behind: without them, what        *)
(* validation refuses is the request's own.                                *)
RefusalsAreExplained ==
  \A m \in Requests : pc[m] = "commit" => before \cap Invalid \subseteq leaked

THEOREM OnlyLeaksPoison == Spec => []RefusalsAreExplained
<1>1. IInv => RefusalsAreExplained
  BY DEF IInv, DataInv, Committed, InForce, Delta, DiskIsValid, RefusalsAreExplained
<1> QED
  BY <1>1, Invariance, PTL
=============================================================================
