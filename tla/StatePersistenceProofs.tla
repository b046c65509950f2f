----------------------- MODULE StatePersistenceProofs -----------------------
(***************************************************************************)
(* For any set of handlers and any number of restarts: the types, that no  *)
(* request for a save is lost, that Stop flushes, and that every step is a *)
(* step of DurableState.                                                   *)
(***************************************************************************)
EXTENDS StatePersistence, FiniteSetTheorems, TLAPS

(* What a request asks for, and what memory held when Stop closed the      *)
(* channel, is still in memory; without a process there is no memory.      *)
MemoryInv ==
  /\ \A p \in Parts : asked[p] \subseteq live[p] /\ atStop[p] \subseteq live[p]
  /\ ~Stopping => atStop = Nothing
  /\ ~Up => live = Nothing /\ asked = Nothing /\ wpc = "select" /\ ~Stopping

(* A change belongs to a handler that has begun, and one that only the     *)
(* file shows to a handler that has ended.                                 *)
OriginInv ==
  \A p \in Parts, h \in Handlers, k \in {"edit", "entry"} :
    /\ <<h, k>> \in live[p] => hpc[h] # "idle"
    /\ <<h, k>> \in disk[p] => <<h, k>> \in live[p] \/ hpc[h] = "done"

(* The copies: of memory, no older than the file, the request that has no  *)
(* value in the channel any more, or, in the last save, than Stop.         *)
CopyInv ==
  /\ wpc = "write" => copied = Parts
  /\ wpc = "exited" => Stopping
  /\ wpc \in Saving =>
       /\ round = "final" => Stopping
       /\ \A p \in copied :
            /\ snap[p] \subseteq live[p]
            /\ disk[p] \cap live[p] \subseteq snap[p]
            /\ token = 0 => asked[p] \subseteq snap[p]
            /\ round = "final" => atStop[p] \subseteq snap[p]

IInv == TypeOK /\ MemoryInv /\ OriginInv /\ CopyInv /\ NoLostRequest /\ StopFlushes

-----------------------------------------------------------------------------
(* Every variable has its type; the channel never holds two requests. *)
THEOREM TypeCorrect == Spec => []TypeOK
<1> USE DEF TypeOK, Up, Parts, Changes, HandlerPc, WorkerPc, Saving, Nothing
<1>1. Init => TypeOK
  <2> SUFFICES ASSUME Init PROVE TypeOK
    OBVIOUS
  <2>1. Nothing \in [Parts -> SUBSET Changes]
    BY Zenon
  <2>2. restarts \in 0..MaxRestarts
    BY ConstantsOK DEF ConstantsOK, Init
  <2>3. hpc \in [Handlers -> HandlerPc]
    BY DEF Init
  <2> QED
    BY <2>1, <2>2, <2>3 DEF Init
<1>2. TypeOK /\ [Next]_vars => TypeOK'
  <2> SUFFICES ASSUME TypeOK, [Next]_vars
               PROVE  TypeOK'
    OBVIOUS
  <2> USE DEF At, Effect, Request, requestPersistentSave, handlerVars, workerVars,
              WorkerAt, StartSave, AfterSave, Halt
  <2>1. ASSUME NEW h \in Handlers, AddStat(h) PROVE TypeOK'
    BY <2>1 DEF AddStat
  <2>2. ASSUME NEW h \in Handlers, TrackClient(h) PROVE TypeOK'
    BY <2>2 DEF TrackClient
  <2>3. ASSUME NEW h \in Handlers, AddLog(h) PROVE TypeOK'
    BY <2>3 DEF AddLog
  <2>4. ASSUME NEW h \in Handlers, NEW p \in Clearable, ClearPart(h, p) PROVE TypeOK'
    BY <2>4, ConstantsOK DEF ConstantsOK, ClearPart
  <2>5. ASSUME NEW h \in Handlers, RequestAfterClear(h) PROVE TypeOK'
    BY <2>5 DEF RequestAfterClear
  <2>6. ASSUME NEW h \in Handlers, CommitFails(h) PROVE TypeOK'
    BY <2>6 DEF CommitFails
  <2>7. ASSUME NEW h \in Handlers, AddAudit(h) PROVE TypeOK'
    BY <2>7 DEF AddAudit
  <2>8. ASSUME NEW h \in Handlers, RequestAfterAudit(h) PROVE TypeOK'
    BY <2>8 DEF RequestAfterAudit
  <2>9. ASSUME TakeRequest PROVE TypeOK'
    BY <2>9 DEF TakeRequest
  <2>10. ASSUME TimerFires PROVE TypeOK'
    BY <2>10 DEF TimerFires
  <2>11. ASSUME NoticeStop PROVE TypeOK'
    BY <2>11 DEF NoticeStop
  <2>12. ASSUME DrainOne PROVE TypeOK'
    BY <2>12 DEF DrainOne
  <2>13. ASSUME Drained PROVE TypeOK'
    BY <2>13 DEF Drained
  <2>14. ASSUME NEW p \in Parts, Copy(p) PROVE TypeOK'
    BY <2>14 DEF Copy
  <2>15. ASSUME Replace PROVE TypeOK'
    BY <2>15 DEF Replace
  <2>16. ASSUME SaveFails PROVE TypeOK'
    BY <2>16 DEF SaveFails
  <2>17. ASSUME CloseStopCh PROVE TypeOK'
    BY <2>17 DEF CloseStopCh
  <2>18. ASSUME Exit PROVE TypeOK'
    BY <2>18 DEF Exit
  <2>19. ASSUME Crash PROVE TypeOK'
    BY <2>19 DEF Crash
  <2>20. ASSUME Restart PROVE TypeOK'
    BY <2>20, ConstantsOK DEF ConstantsOK, Restart
  <2>21. CASE UNCHANGED vars
    BY <2>21 DEF vars
  <2> QED
    BY <2>1, <2>2, <2>3, <2>4, <2>5, <2>6, <2>7, <2>8, <2>9, <2>10, <2>11, <2>12, <2>13,
        <2>14, <2>15, <2>16, <2>17, <2>18, <2>19, <2>20, <2>21
        DEF Next, Handle, Work, Process
<1> QED
  BY <1>1, <1>2, PTL DEF Spec
-----------------------------------------------------------------------------
(* A request leaves exactly one value in the channel. *)
LEMMA RequestStep ==
  ASSUME TypeOK, Request
  PROVE  token' = 1 /\ asked' = live'
<1>1. token \in 0..1
  BY DEF TypeOK
<1> QED
  BY <1>1 DEF Request, requestPersistentSave

(* All a handler's step does to the rest: memory grows by changes of the   *)
(* handler, and either no save is asked for, or one for all of memory.     *)
LEMMA HandleStep ==
  ASSUME TypeOK, NEW h \in Handlers, Handle(h)
  PROVE  /\ Up
         /\ hpc[h] # "done"
         /\ \E pc \in HandlerPc \ {"idle"} : hpc' = [hpc EXCEPT ![h] = pc]
         /\ \A p \in Parts : live[p] \subseteq live'[p]
         /\ \A p \in Parts, g \in Handlers, k \in {"edit", "entry"} :
              <<g, k>> \in live'[p] => <<g, k>> \in live[p] \/ g = h
         /\ \/ asked' = asked /\ token' = token
            \/ asked' = live' /\ token' = 1
         /\ UNCHANGED <<stopCh, wpc, round, copied, snap, disk, perr, proc, restarts, atStop>>
<1> USE DEF TypeOK, Up, Parts, Changes, HandlerPc, At, Effect, workerVars
<1>1. CASE AddStat(h)
  BY <1>1 DEF AddStat
<1>2. CASE TrackClient(h)
  <2>1. CASE live' = Effect(<<h, "edit">>, "clients") /\ Request
    BY <1>2, <2>1, RequestStep DEF TrackClient
  <2>2. CASE UNCHANGED <<live, token, asked>>
    BY <1>2, <2>2 DEF TrackClient
  <2> QED
    BY <1>2, <2>1, <2>2 DEF TrackClient
<1>3. CASE AddLog(h)
  <2>1. CASE live' = Effect(<<h, "edit">>, "log") /\ Request
    BY <1>3, <2>1, RequestStep DEF AddLog
  <2>2. CASE UNCHANGED <<live, token, asked>>
    BY <1>3, <2>2 DEF AddLog
  <2> QED
    BY <1>3, <2>1, <2>2 DEF AddLog
<1>4. ASSUME NEW q \in Clearable, ClearPart(h, q)
      PROVE  /\ Up
             /\ hpc[h] # "done"
             /\ \E pc \in HandlerPc \ {"idle"} : hpc' = [hpc EXCEPT ![h] = pc]
             /\ \A p \in Parts : live[p] \subseteq live'[p]
             /\ \A p \in Parts, g \in Handlers, k \in {"edit", "entry"} :
                  <<g, k>> \in live'[p] => <<g, k>> \in live[p] \/ g = h
             /\ asked' = asked /\ token' = token
             /\ UNCHANGED <<stopCh, wpc, round, copied, snap, disk, perr, proc, restarts, atStop>>
  BY <1>4 DEF ClearPart
<1>5. CASE RequestAfterClear(h)
  BY <1>5, RequestStep DEF RequestAfterClear
<1>6. CASE CommitFails(h)
  BY <1>6 DEF CommitFails
<1>7. CASE AddAudit(h)
  BY <1>7 DEF AddAudit
<1>8. CASE RequestAfterAudit(h)
  BY <1>8, RequestStep DEF RequestAfterAudit
<1> QED
  BY <1>1, <1>2, <1>3, <1>4, <1>5, <1>6, <1>7, <1>8 DEF Handle

(* MemoryInv is inductive: memory only grows while a process lives. *)
LEMMA MemoryStep ==
  ASSUME TypeOK, MemoryInv, [Next]_vars
  PROVE  MemoryInv'
<1> USE DEF TypeOK, MemoryInv, Up, Stopping, Nothing,
           handlerVars, workerVars, WorkerAt, StartSave, AfterSave, Halt
<1>1. ASSUME NEW h \in Handlers, Handle(h) PROVE MemoryInv'
  BY <1>1, HandleStep
<1>2. ASSUME TakeRequest PROVE MemoryInv'
  BY <1>2 DEF TakeRequest
<1>3. ASSUME TimerFires PROVE MemoryInv'
  BY <1>3 DEF TimerFires
<1>4. ASSUME NoticeStop PROVE MemoryInv'
  BY <1>4 DEF NoticeStop
<1>5. ASSUME DrainOne PROVE MemoryInv'
  BY <1>5 DEF DrainOne
<1>6. ASSUME Drained PROVE MemoryInv'
  BY <1>6 DEF Drained
<1>7. ASSUME NEW p \in Parts, Copy(p) PROVE MemoryInv'
  BY <1>7 DEF Copy
<1>8. ASSUME Replace PROVE MemoryInv'
  BY <1>8 DEF Replace
<1>9. ASSUME SaveFails PROVE MemoryInv'
  BY <1>9 DEF SaveFails
<1>10. ASSUME CloseStopCh PROVE MemoryInv'
  BY <1>10 DEF CloseStopCh
<1>11. ASSUME Exit PROVE MemoryInv'
  BY <1>11 DEF Exit
<1>12. ASSUME Crash PROVE MemoryInv'
  BY <1>12 DEF Crash
<1>13. ASSUME Restart PROVE MemoryInv'
  BY <1>13 DEF Restart
<1>14. CASE UNCHANGED vars
  BY <1>14 DEF vars
<1> QED
  BY <1>1, <1>2, <1>3, <1>4, <1>5, <1>6, <1>7, <1>8, <1>9, <1>10, <1>11, <1>12, <1>13,
      <1>14 DEF Next, Work, Process

(* OriginInv is inductive: a save writes memory, a new process reads it.   *)
LEMMA OriginStep ==
  ASSUME TypeOK, MemoryInv, OriginInv, CopyInv, [Next]_vars
  PROVE  OriginInv'
<1> USE DEF TypeOK, MemoryInv, OriginInv, Up, Stopping, Nothing,
           handlerVars, workerVars, WorkerAt, StartSave, AfterSave, Halt
<1>1. ASSUME NEW h \in Handlers, Handle(h) PROVE OriginInv'
  <2>1. PICK pc \in HandlerPc \ {"idle"} : hpc' = [hpc EXCEPT ![h] = pc]
    BY <1>1, HandleStep
  <2> SUFFICES ASSUME NEW p \in Parts, NEW g \in Handlers, NEW k \in {"edit", "entry"}
               PROVE  /\ <<g, k>> \in live'[p] => hpc'[g] # "idle"
                      /\ <<g, k>> \in disk'[p] => <<g, k>> \in live'[p] \/ hpc'[g] = "done"
    OBVIOUS
  <2>2. hpc[h] # "done" /\ disk' = disk /\ live[p] \subseteq live'[p]
    BY <1>1, HandleStep
  <2>3. <<g, k>> \in live'[p] => <<g, k>> \in live[p] \/ g = h
    BY <1>1, HandleStep
  <2>4. hpc'[g] = IF g = h THEN pc ELSE hpc[g]
    BY <2>1
  <2> QED
    BY <2>1, <2>2, <2>3, <2>4
<1>2. ASSUME TakeRequest PROVE OriginInv'
  BY <1>2 DEF TakeRequest
<1>3. ASSUME TimerFires PROVE OriginInv'
  BY <1>3 DEF TimerFires
<1>4. ASSUME NoticeStop PROVE OriginInv'
  BY <1>4 DEF NoticeStop
<1>5. ASSUME DrainOne PROVE OriginInv'
  BY <1>5 DEF DrainOne
<1>6. ASSUME Drained PROVE OriginInv'
  BY <1>6 DEF Drained
<1>7. ASSUME NEW p \in Parts, Copy(p) PROVE OriginInv'
  BY <1>7 DEF Copy
<1>8. ASSUME Replace PROVE OriginInv'
  BY <1>8 DEF Replace, CopyInv, Saving
<1>9. ASSUME SaveFails PROVE OriginInv'
  BY <1>9 DEF SaveFails
<1>10. ASSUME CloseStopCh PROVE OriginInv'
  BY <1>10 DEF CloseStopCh
<1>11. ASSUME Exit PROVE OriginInv'
  BY <1>11 DEF Exit
<1>12. ASSUME Crash PROVE OriginInv'
  BY <1>12 DEF Crash
<1>13. ASSUME Restart PROVE OriginInv'
  BY <1>13 DEF Restart
<1>14. CASE UNCHANGED vars
  BY <1>14 DEF vars
<1> QED
  BY <1>1, <1>2, <1>3, <1>4, <1>5, <1>6, <1>7, <1>8, <1>9, <1>10, <1>11, <1>12, <1>13,
      <1>14 DEF Next, Work, Process

(* CopyInv is inductive: what is copied is memory, and memory only grows.  *)
LEMMA CopyStep ==
  ASSUME TypeOK, MemoryInv, OriginInv, CopyInv, [Next]_vars
  PROVE  CopyInv'
<1> USE DEF TypeOK, MemoryInv, OriginInv, CopyInv, Up, Stopping, Nothing, Saving,
           handlerVars, workerVars, WorkerAt, StartSave, AfterSave, Halt
<1>1. ASSUME NEW h \in Handlers, Handle(h) PROVE CopyInv'
  <2>1. /\ UNCHANGED <<stopCh, wpc, round, copied, snap, disk, atStop>>
        /\ \/ asked' = asked /\ token' = token
           \/ token' = 1
        /\ hpc[h] # "done"
        /\ \A p \in Parts : live[p] \subseteq live'[p]
    BY <1>1, HandleStep
  <2>2. ASSUME NEW p \in Parts PROVE disk[p] \cap live'[p] \subseteq live[p]
    <3> SUFFICES ASSUME NEW c \in disk[p], c \in live'[p]
                 PROVE  c \in live[p]
      OBVIOUS
    <3>1. PICK g \in Handlers, k \in {"edit", "entry"} : c = <<g, k>>
      BY DEF Changes
    <3> QED
      BY <1>1, <2>1, <3>1, HandleStep
  <2> QED
    BY <2>1, <2>2
<1>2. ASSUME TakeRequest PROVE CopyInv'
  BY <1>2 DEF TakeRequest
<1>3. ASSUME TimerFires PROVE CopyInv'
  BY <1>3 DEF TimerFires
<1>4. ASSUME NoticeStop PROVE CopyInv'
  BY <1>4 DEF NoticeStop
<1>5. ASSUME DrainOne PROVE CopyInv'
  BY <1>5 DEF DrainOne
<1>6. ASSUME Drained PROVE CopyInv'
  BY <1>6 DEF Drained
<1>7. ASSUME NEW p \in Parts, Copy(p) PROVE CopyInv'
  BY <1>7 DEF Copy
<1>8. ASSUME Replace PROVE CopyInv'
  BY <1>8 DEF Replace
<1>9. ASSUME SaveFails PROVE CopyInv'
  BY <1>9 DEF SaveFails
<1>10. ASSUME CloseStopCh PROVE CopyInv'
  BY <1>10 DEF CloseStopCh
<1>11. ASSUME Exit PROVE CopyInv'
  BY <1>11 DEF Exit
<1>12. ASSUME Crash PROVE CopyInv'
  BY <1>12 DEF Crash
<1>13. ASSUME Restart PROVE CopyInv'
  BY <1>13 DEF Restart
<1>14. CASE UNCHANGED vars
  BY <1>14 DEF vars
<1> QED
  BY <1>1, <1>2, <1>3, <1>4, <1>5, <1>6, <1>7, <1>8, <1>9, <1>10, <1>11, <1>12, <1>13,
      <1>14 DEF Next, Work, Process

(* The coalescing argument: a value leaves the channel only before the     *)
(* copies begin.                                                           *)
LEMMA NoLostStep ==
  ASSUME TypeOK, MemoryInv, CopyInv, NoLostRequest, [Next]_vars
  PROVE  NoLostRequest'
<1> USE DEF TypeOK, MemoryInv, CopyInv, NoLostRequest, Up, Nothing, Saving,
           handlerVars, workerVars, WorkerAt, StartSave, AfterSave, Halt
<1>1. ASSUME NEW h \in Handlers, Handle(h) PROVE NoLostRequest'
  BY <1>1, HandleStep
<1>2. ASSUME TakeRequest PROVE NoLostRequest'
  BY <1>2 DEF TakeRequest
<1>3. ASSUME TimerFires PROVE NoLostRequest'
  BY <1>3 DEF TimerFires
<1>4. ASSUME NoticeStop PROVE NoLostRequest'
  BY <1>4 DEF NoticeStop
<1>5. ASSUME DrainOne PROVE NoLostRequest'
  BY <1>5 DEF DrainOne
<1>6. ASSUME Drained PROVE NoLostRequest'
  BY <1>6 DEF Drained
<1>7. ASSUME NEW p \in Parts, Copy(p) PROVE NoLostRequest'
  BY <1>7 DEF Copy
<1>8. ASSUME Replace PROVE NoLostRequest'
  BY <1>8 DEF Replace
<1>9. ASSUME SaveFails PROVE NoLostRequest'
  BY <1>9 DEF SaveFails
<1>10. ASSUME CloseStopCh PROVE NoLostRequest'
  BY <1>10 DEF CloseStopCh
<1>11. ASSUME Exit PROVE NoLostRequest'
  BY <1>11 DEF Exit
<1>12. ASSUME Crash PROVE NoLostRequest'
  BY <1>12 DEF Crash
<1>13. ASSUME Restart PROVE NoLostRequest'
  BY <1>13 DEF Restart
<1>14. CASE UNCHANGED vars
  BY <1>14 DEF vars
<1> QED
  BY <1>1, <1>2, <1>3, <1>4, <1>5, <1>6, <1>7, <1>8, <1>9, <1>10, <1>11, <1>12, <1>13,
      <1>14 DEF Next, Work, Process

(* Only the last save leads to exited, and it began after Stop.            *)
LEMMA FlushStep ==
  ASSUME TypeOK, MemoryInv, CopyInv, StopFlushes, [Next]_vars
  PROVE  StopFlushes'
<1> USE DEF TypeOK, MemoryInv, CopyInv, StopFlushes, Up, Stopping, Nothing, Saving,
           handlerVars, workerVars, WorkerAt, StartSave, AfterSave, Halt
<1>1. ASSUME NEW h \in Handlers, Handle(h) PROVE StopFlushes'
  BY <1>1, HandleStep
<1>2. ASSUME TakeRequest PROVE StopFlushes'
  BY <1>2 DEF TakeRequest
<1>3. ASSUME TimerFires PROVE StopFlushes'
  BY <1>3 DEF TimerFires
<1>4. ASSUME NoticeStop PROVE StopFlushes'
  BY <1>4 DEF NoticeStop
<1>5. ASSUME DrainOne PROVE StopFlushes'
  BY <1>5 DEF DrainOne
<1>6. ASSUME Drained PROVE StopFlushes'
  BY <1>6 DEF Drained
<1>7. ASSUME NEW p \in Parts, Copy(p) PROVE StopFlushes'
  BY <1>7 DEF Copy
<1>8. ASSUME Replace PROVE StopFlushes'
  BY <1>8 DEF Replace
<1>9. ASSUME SaveFails PROVE StopFlushes'
  BY <1>9 DEF SaveFails
<1>10. ASSUME CloseStopCh PROVE StopFlushes'
  BY <1>10 DEF CloseStopCh
<1>11. ASSUME Exit PROVE StopFlushes'
  BY <1>11 DEF Exit
<1>12. ASSUME Crash PROVE StopFlushes'
  BY <1>12 DEF Crash
<1>13. ASSUME Restart PROVE StopFlushes'
  BY <1>13 DEF Restart
<1>14. CASE UNCHANGED vars
  BY <1>14 DEF vars
<1> QED
  BY <1>1, <1>2, <1>3, <1>4, <1>5, <1>6, <1>7, <1>8, <1>9, <1>10, <1>11, <1>12, <1>13,
      <1>14 DEF Next, Work, Process

-----------------------------------------------------------------------------
(* The inductive invariant holds. *)
THEOREM Invariance == Spec => []IInv
<1>1. Init /\ TypeOK => IInv
  <2> SUFFICES ASSUME Init, TypeOK PROVE IInv
    OBVIOUS
  <2>1. MemoryInv /\ OriginInv /\ CopyInv /\ NoLostRequest /\ StopFlushes
    BY DEF Init, MemoryInv, OriginInv, CopyInv, NoLostRequest, StopFlushes, Nothing,
        Parts, Saving, Up, Stopping
  <2> QED
    BY <2>1 DEF IInv
<1>2. IInv /\ TypeOK' /\ [Next]_vars => IInv'
  BY MemoryStep, OriginStep, CopyStep, NoLostStep, FlushStep DEF IInv
<1> QED
  BY <1>1, <1>2, TypeCorrect, PTL DEF Spec
(* A request for a save is never lost: it is answered by the file, by a    *)
(* request or a save that is due, or by a reported error.                  *)
THEOREM NoRequestIsLost == Spec => []NoLostRequest
BY Invariance, PTL DEF IInv

(* Stop flushes: when it returns without an error, the file shows all that *)
(* memory held when it was called.                                         *)
THEOREM StopAlwaysFlushes == Spec => []StopFlushes
BY Invariance, PTL DEF IInv

-----------------------------------------------------------------------------
(* Under the invariant, the worker's rename is a Save: the file gets only  *)
(* what memory has, and keeps what memory shares with it.                  *)
LEMMA ReplaceIsSave ==
  ASSUME IInv, Replace
  PROVE  Abstract!Save
<1>1. \A p \in Parts : snap[p] \subseteq live[p] /\ disk[p] \cap live[p] \subseteq snap[p]
  BY DEF IInv, CopyInv, Replace, WorkerAt, Saving
<1> QED
  BY <1>1 DEF IInv, TypeOK, Replace, WorkerAt, Up, handlerVars, Abstract!Save

(* Handlers change memory, the rename saves, the ends and starts of         *)
(* processes are DurableState's own, and every other step leaves memory and *)
(* file alone.                                                              *)
LEMMA DurableStep ==
  ASSUME IInv, IInv', [Next]_vars
  PROVE  [Abstract!Next]_(Abstract!absVars)
<1> USE DEF Abstract!Next, Abstract!absVars, WorkerAt, handlerVars, workerVars
<1>1. ASSUME NEW h \in Handlers, Handle(h) PROVE Abstract!Change
  BY <1>1, HandleStep DEF IInv, TypeOK, Up, Abstract!Change
<1>2. CASE TakeRequest
  BY <1>2 DEF TakeRequest
<1>3. CASE TimerFires
  BY <1>3 DEF TimerFires
<1>4. CASE NoticeStop
  BY <1>4 DEF NoticeStop
<1>5. CASE DrainOne
  BY <1>5 DEF DrainOne
<1>6. CASE Drained
  BY <1>6 DEF Drained
<1>7. ASSUME NEW p \in Parts, Copy(p) PROVE UNCHANGED Abstract!absVars
  BY <1>7 DEF Copy
<1>8. CASE Replace
  BY <1>8, ReplaceIsSave
<1>9. CASE SaveFails
  BY <1>9 DEF SaveFails
<1>10. CASE CloseStopCh
  BY <1>10 DEF CloseStopCh
<1>11. CASE Exit
  BY <1>11 DEF Exit, Halt, Up, Nothing, Abstract!End, Abstract!Nothing
<1>12. CASE Crash
  BY <1>12 DEF Crash, Halt, Up, Nothing, Abstract!End, Abstract!Nothing
<1>13. CASE Restart
  BY <1>13 DEF Restart, IInv, TypeOK, Up, Nothing, Abstract!Begin, Abstract!Nothing
<1>14. CASE UNCHANGED vars
  BY <1>14 DEF vars
<1> QED
  BY <1>1, <1>2, <1>3, <1>4, <1>5, <1>6, <1>7, <1>8, <1>9, <1>10, <1>11, <1>12, <1>13,
      <1>14 DEF Next, Work, Process

(* The keeper of stats.json implements DurableState.                       *)
THEOREM Implementation == Spec => ImplementsDurableState
<1>1. Init => Abstract!Init
  BY DEF Init, Abstract!Init, Nothing, Abstract!Nothing
<1>2. IInv /\ IInv' /\ [Next]_vars => [Abstract!Next]_(Abstract!absVars)
  BY DurableStep
<1> QED
  BY <1>1, <1>2, Invariance, PTL DEF Spec, ImplementsDurableState, Abstract!Spec

-----------------------------------------------------------------------------
(* The file and failing reads.                                             *)

(* Memory knows everything the file does, as long as a process runs. *)
Kept == Up => \A p \in Parts : disk[p] \subseteq live[p]

(* A change the file has shown stays in it. *)
FileKeeps == \A p \in Parts : disk[p] \subseteq disk'[p]

LEMMA OnlyRestartStarts ==
  ASSUME TypeOK, [Next]_vars, ~Up
  PROVE  Restart \/ UNCHANGED <<proc, live, disk>>
<1>1. \A h \in Handlers : ~Handle(h)
  BY HandleStep
<1>2. ~Work
  BY DEF Work, TakeRequest, TimerFires, NoticeStop, DrainOne, Drained, Copy, Replace,
         SaveFails, WorkerAt
<1>3. ~CloseStopCh /\ ~Exit /\ ~Crash
  BY DEF CloseStopCh, Exit, Crash, WorkerAt
<1> QED
  BY <1>1, <1>2, <1>3 DEF Next, Process, vars, handlerVars

LEMMA KeptStep ==
  ASSUME ReadErrors = FALSE, IInv, IInv', [Next]_vars, Kept
  PROVE  Kept' /\ FileKeeps
<1> USE DEF Kept, FileKeeps, Up
<1>1. CASE ~Up
  <2>1. CASE Restart
    BY <2>1 DEF Restart
  <2>2. CASE UNCHANGED <<proc, live, disk>>
    BY <1>1, <2>2
  <2> QED
    BY <1>1, <2>1, <2>2, OnlyRestartStarts DEF IInv
<1>2. CASE Up
  <2>1. [Abstract!Next]_(Abstract!absVars)
    BY DurableStep
  <2>2. CASE Abstract!Change
    BY <1>2, <2>2 DEF Abstract!Change
  <2>3. CASE Abstract!Save
    BY <1>2, <2>3 DEF Abstract!Save
  <2>4. CASE Abstract!End
    BY <2>4 DEF Abstract!End
  <2>5. CASE UNCHANGED Abstract!absVars
    BY <1>2, <2>5 DEF Abstract!absVars
  <2> QED
    BY <1>2, <2>1, <2>2, <2>3, <2>4, <2>5 DEF Abstract!Next, Abstract!Begin
<1> QED
  BY <1>1, <1>2

(* While stats.json can be read, it forgets nothing, whatever crashes, fails*)
(* and overlaps: a process that reads it as empty (config.go:742), and      *)
(* writes over it what it knows, is the only way to lose what was saved.    *)
THEOREM FileNeverForgets == ASSUME ReadErrors = FALSE PROVE Spec => [][FileKeeps]_vars
<1>1. Init => Kept
  BY DEF Init, Kept, Nothing
<1>2. IInv /\ IInv' /\ [Next]_vars /\ Kept => Kept' /\ FileKeeps
  BY KeptStep
<1> QED
  BY <1>1, <1>2, Invariance, PTL DEF Spec

-----------------------------------------------------------------------------
(* What StopReturns and EventuallyDurable rest on: the worker's way is     *)
(* finite.                                                                 *)

Left == Cardinality(Parts \ copied)

All == Cardinality(Parts)

(* How much the worker has ahead of it until it waits, or, once it has     *)
(* noticed Stop, until it exits ...                                        *)
Ahead == CASE wpc = "debounce" -> 7 + 2 * All
           [] wpc = "drain" -> 6 + 2 * All
           [] wpc = "copy" /\ round = "periodic" -> 5 + All + Left
           [] wpc = "write" /\ round = "periodic" -> 4 + All
           [] wpc = "select" -> 3 + All
           [] wpc = "copy" /\ round = "final" -> 2 + Left
           [] wpc = "write" /\ round = "final" -> 1
           [] wpc = "exited" -> 0

(* ... and with the request that waits in the channel. *)
Rank == Ahead + (IF token = 1 THEN 8 + 2 * All ELSE 0)

LEMMA PartsFinite ==
  /\ IsFiniteSet(Parts) /\ All \in Nat
  /\ \A c \in SUBSET Parts : /\ Cardinality(Parts \ c) \in Nat
                             /\ Cardinality(Parts \ c) <= All
                             /\ \A p \in Parts \ c : Cardinality(Parts \ (c \cup {p}))
                                                     = Cardinality(Parts \ c) - 1
<1>1. IsFiniteSet(Parts)
  <2>1. IsFiniteSet({}) /\ Parts = ((({} \cup {"stats"}) \cup {"log"}) \cup {"audit"}) \cup {"clients"}
    BY FS_EmptySet DEF Parts
  <2>2. IsFiniteSet({} \cup {"stats"})
    BY <2>1, FS_AddElement
  <2>3. IsFiniteSet(({} \cup {"stats"}) \cup {"log"})
    BY <2>2, FS_AddElement
  <2>4. IsFiniteSet((({} \cup {"stats"}) \cup {"log"}) \cup {"audit"})
    BY <2>3, FS_AddElement
  <2> QED
    BY <2>1, <2>4, FS_AddElement
<1>2. ASSUME NEW c \in SUBSET Parts
      PROVE  /\ IsFiniteSet(Parts \ c)
             /\ Cardinality(Parts \ c) \in Nat
             /\ Cardinality(Parts \ c) <= All
  <2>1. (Parts \ c) \in SUBSET Parts
    OBVIOUS
  <2> QED
    BY <1>1, <2>1, FS_Subset, FS_CardinalityType DEF All
<1>3. ASSUME NEW c \in SUBSET Parts, NEW p \in Parts \ c
      PROVE  Cardinality(Parts \ (c \cup {p})) = Cardinality(Parts \ c) - 1
  <2> DEFINE S == Parts \ c
  <2>1. Parts \ (c \cup {p}) = S \ {p}
    OBVIOUS
  <2>2. IsFiniteSet(S) /\ p \in S
    BY <1>2
  <2> HIDE DEF S
  <2>3. Cardinality(S \ {p}) = Cardinality(S) - 1
    BY <2>2, FS_RemoveElement
  <2> QED
    BY <2>1, <2>3 DEF S
<1> QED
  BY <1>1, <1>2, <1>3, FS_CardinalityType DEF All

(* Every step of the worker lowers its rank, and nothing but a request that *)
(* finds the channel empty raises it: between two requests it takes a       *)
(* bounded number of steps, and those that come while it saves or stops     *)
(* cost it one more round each, at most.                                    *)
WorkerComesNearer == /\ Rank \in Nat
                     /\ Work => Rank' < Rank
                     /\ Up /\ Up' /\ token' <= token => Rank' <= Rank

THEOREM WorkerAdvances == Spec => [][WorkerComesNearer]_vars
<1>1. ASSUME IInv, IInv', [Next]_vars PROVE WorkerComesNearer
  <2> USE DEF Ahead, Rank
  <2>1. /\ wpc \in WorkerPc /\ token \in 0..1 /\ round \in {"periodic", "final"}
        /\ wpc' \in WorkerPc /\ token' \in 0..1 /\ round' \in {"periodic", "final"}
    BY <1>1 DEF IInv, TypeOK
  <2>2. All \in Nat /\ Left \in Nat /\ Left <= All /\ Left' \in Nat /\ Left' <= All
    BY <1>1, PartsFinite DEF IInv, TypeOK, Left
  <2>3. All' = All
    BY DEF All
  <2> HIDE DEF All
  <2>4. Rank \in Nat
    BY <2>1, <2>2 DEF WorkerPc, Saving
  <2>5. CASE TakeRequest
    BY <2>2, <2>3, <2>4, <2>5 DEF TakeRequest, WorkerAt, WorkerComesNearer
  <2>6. CASE TimerFires
    BY <2>1, <2>2, <2>3, <2>4, <2>6 DEF TimerFires, WorkerAt, WorkerComesNearer
  <2>7. CASE NoticeStop
    BY <2>1, <2>2, <2>3, <2>4, <2>7 DEF NoticeStop, StartSave, WorkerAt, WorkerComesNearer
  <2>8. CASE DrainOne
    BY <2>1, <2>2, <2>3, <2>4, <2>8 DEF DrainOne, workerVars, WorkerAt, WorkerComesNearer
  <2>9. CASE Drained
    BY <2>1, <2>2, <2>3, <2>4, <2>9 DEF Drained, StartSave, WorkerAt, WorkerComesNearer
  <2>10. ASSUME NEW p \in Parts, Copy(p) PROVE WorkerComesNearer
    <3>1. p \in Parts \ copied /\ copied \in SUBSET Parts /\ copied' = copied \cup {p}
      BY <1>1, <2>10 DEF Copy, CopiedBefore, Parts, IInv, TypeOK
    <3>2. Left' = Left - 1
      BY <3>1, PartsFinite DEF Left
    <3>3. /\ wpc = "copy" /\ wpc' \in {"copy", "write"} /\ round' = round /\ token' = token
      BY <2>10 DEF Copy, WorkerAt
    <3> QED
      BY <2>1, <2>2, <2>3, <2>4, <3>2, <3>3 DEF WorkerComesNearer
  <2>11. CASE Replace \/ SaveFails
    <3>1. /\ wpc = "write" /\ token' = token
          /\ wpc' = IF round = "final" THEN "exited" ELSE "select"
      BY <2>11 DEF Replace, SaveFails, AfterSave, WorkerAt
    <3> QED
      BY <2>1, <2>2, <2>3, <2>4, <3>1 DEF WorkerComesNearer
  <2>12. ASSUME ~Work PROVE WorkerComesNearer
    <3>1. SUFFICES ASSUME Up, Up', token' <= token PROVE Rank' <= Rank
      BY <2>4, <2>12 DEF WorkerComesNearer
    <3>2. UNCHANGED <<wpc, round, copied>>
      <4>1. ASSUME NEW h \in Handlers, Handle(h) PROVE UNCHANGED <<wpc, round, copied>>
        BY <1>1, <4>1, HandleStep DEF IInv
      <4>2. CASE Process
        BY <3>1, <4>2 DEF Process, CloseStopCh, Exit, Crash, Halt, Restart, Up, workerVars
      <4>3. CASE UNCHANGED vars
        BY <4>3 DEF vars
      <4> QED
        BY <1>1, <2>12, <4>1, <4>2, <4>3 DEF Next
    <3> QED
      BY <2>1, <2>2, <2>3, <3>1, <3>2 DEF Left, WorkerPc, Saving
  <2> QED
    BY <2>5, <2>6, <2>7, <2>8, <2>9, <2>10, <2>11, <2>12 DEF Work
<1>2. IInv /\ IInv' /\ [Next]_vars => [WorkerComesNearer]_vars
  BY <1>1
<1> QED
  BY <1>2, Invariance, PTL DEF Spec
=============================================================================
