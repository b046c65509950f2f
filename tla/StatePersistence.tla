-------------------------- MODULE StatePersistence --------------------------
(***************************************************************************)
(* The keeper of stats.json (config.go): query statistics, the query log,  *)
(* the audit log and the client counters live in memory, each under its    *)
(* own mutex; handlers change them and ask for a save through a channel    *)
(* of capacity one; a single goroutine, persistentStateLoop, coalesces the *)
(* requests, copies the four sections one after the other, writes them to  *)
(* a temporary file and renames it.  Stop closes a second channel and      *)
(* waits for the last save.  The process may be killed at any time, and is *)
(* started again from the file.                                            *)
(*                                                                         *)
(* A section's content is abstracted to the set of changes whose effect it *)
(* shows: clearing a log is a change like appending to it.                 *)
(***************************************************************************)
EXTENDS Naturals

CONSTANTS Handlers,      \* the requests served, over all processes
          Clearable,     \* the sections some request clears
          MaxRestarts,   \* bound: how often a new process may start
          ReadErrors     \* may a new process fail to read stats.json?

ASSUME ConstantsOK == /\ Clearable \subseteq {"log", "audit", "clients"}
                      /\ MaxRestarts \in Nat
                      /\ ReadErrors \in BOOLEAN

Parts == {"stats", "log", "audit", "clients"}

(* A handler makes one edit of each section at most, and an audit entry. *)
Changes == Handlers \X {"edit", "entry"}

(* The sections savePersistentState copies before section p. *)
CopiedBefore == [stats   |-> {},
                 log     |-> {"stats"},
                 audit   |-> {"stats", "log"},
                 clients |-> {"stats", "log", "audit"}]

VARIABLES
  live,       \* d.stats, d.log, d.audit, d.clients
  hpc,        \* where each handler stands
  token,      \* the number of values in stateSaveCh, a channel of capacity 1
  stopCh,     \* stateStopCh
  wpc,        \* where persistentStateLoop stands; "exited": stateDoneCh closed
  round,      \* is the save in progress the last one?
  copied,     \* sections savePersistentState has copied
  snap,       \* the copies
  disk,       \* stats.json
  perr,       \* d.persistenceErr
  proc,       \* is a process running?
  restarts,   \* processes started after the first
  asked,      \* history: live when a save was last requested
  atStop      \* history: live when stateStopCh was closed

handlerVars == <<live, hpc, asked>>
workerVars == <<wpc, round, copied, snap>>
vars == <<live, hpc, token, stopCh, wpc, round, copied, snap, disk, perr,
          proc, restarts, asked, atStop>>

Nothing == [p \in Parts |-> {}]

Up == proc = "up"

Stopping == stopCh = "closed"

HandlerPc == {"idle", "counted", "tracked", "cleared", "commit", "audited", "done"}
Saving == {"copy", "write"}
WorkerPc == {"select", "debounce", "drain", "exited"} \cup Saving

TypeOK ==
  /\ live \in [Parts -> SUBSET Changes]
  /\ hpc \in [Handlers -> HandlerPc]
  /\ token \in 0..1
  /\ stopCh \in {"open", "closed"}
  /\ wpc \in WorkerPc
  /\ round \in {"periodic", "final"}
  /\ copied \subseteq Parts
  /\ snap \in [Parts -> SUBSET Changes]
  /\ disk \in [Parts -> SUBSET Changes]
  /\ perr \in {"none", "error"}
  /\ proc \in {"up", "down"}
  /\ restarts \in 0..MaxRestarts
  /\ asked \in [Parts -> SUBSET Changes]
  /\ atStop \in [Parts -> SUBSET Changes]

(* NewDNSLeaf without a stats.json. *)
Init ==
  /\ live = Nothing
  /\ hpc = [h \in Handlers |-> "idle"]
  /\ token = 0
  /\ stopCh = "open"
  /\ wpc = "select"
  /\ round = "periodic"
  /\ copied = {}
  /\ snap = Nothing
  /\ disk = Nothing
  /\ perr = "none"
  /\ proc = "up"
  /\ restarts = 0
  /\ asked = Nothing
  /\ atStop = Nothing

-----------------------------------------------------------------------------
(* Handlers.                                                               *)

Effect(c, p) == [live EXCEPT ![p] = @ \cup {c}]

At(h, from, to) == /\ Up
                   /\ hpc[h] = from
                   /\ hpc' = [hpc EXCEPT ![h] = to]

(* A mutant: the request is made only while the worker waits for one. *)
AskOnlyWhenIdle == token' = IF wpc = "select" THEN 1 ELSE token

(* A mutant: requests pile up. *)
AskUnbounded == token' = token + 1

(* The non-blocking send: a request that finds the channel full is already *)
(* represented by the value in it.                                         *)
requestPersistentSave == token' = IF token = 0 THEN 1 ELSE token

(* A handler asks for a save; what is live now is what it asks for. *)
Request == /\ requestPersistentSave
           /\ asked' = live'

(* addStat changes the counters and asks for nothing. *)
AddStat(h) ==
  /\ At(h, "idle", "counted")
  /\ live' = Effect(<<h, "edit">>, "stats")
  /\ UNCHANGED <<token, asked, stopCh, workerVars, disk, perr, proc, restarts, atStop>>

(* trackClient changes the client and asks for a save under clientsMu, so  *)
(* no copy of the clients falls between; without an address it returns.    *)
TrackClient(h) ==
  /\ At(h, "counted", "tracked")
  /\ \/ /\ live' = Effect(<<h, "edit">>, "clients")
        /\ Request
     \/ UNCHANGED <<live, token, asked>>
  /\ UNCHANGED <<stopCh, workerVars, disk, perr, proc, restarts, atStop>>

(* addLog appends and asks for a save under logMu, or, with the query log  *)
(* disabled, returns.                                                      *)
AddLog(h) ==
  /\ At(h, "tracked", "done")
  /\ \/ /\ live' = Effect(<<h, "edit">>, "log")
        /\ Request
     \/ UNCHANGED <<live, token, asked>>
  /\ UNCHANGED <<stopCh, workerVars, disk, perr, proc, restarts, atStop>>

(* DELETE /api/log, /api/audit, /api/clients and clear-denied: the section *)
(* is cleared under its mutex ...                                          *)
ClearPart(h, p) ==
  /\ At(h, "idle", "cleared")
  /\ live' = Effect(<<h, "edit">>, p)
  /\ UNCHANGED <<token, asked, stopCh, workerVars, disk, perr, proc, restarts, atStop>>

(* ... and the save asked for after the mutex is released. *)
RequestAfterClear(h) ==
  /\ At(h, "cleared", "commit")
  /\ UNCHANGED <<live, stopCh, workerVars, disk, perr, proc, restarts, atStop>>
  /\ Request

(* configGuard could not commit the request: no audit entry. *)
CommitFails(h) ==
  /\ At(h, "commit", "done")
  /\ UNCHANGED <<live, token, asked, stopCh, workerVars, disk, perr, proc, restarts, atStop>>

(* addAudit, after a clear or after any other committed change: the entry  *)
(* is appended under auditMu ...                                           *)
AddAudit(h) ==
  /\ At(h, "commit", "audited") \/ At(h, "idle", "audited")
  /\ live' = Effect(<<h, "entry">>, "audit")
  /\ UNCHANGED <<token, asked, stopCh, workerVars, disk, perr, proc, restarts, atStop>>

(* ... and the save asked for after it is released. *)
RequestAfterAudit(h) ==
  /\ At(h, "audited", "done")
  /\ UNCHANGED <<live, stopCh, workerVars, disk, perr, proc, restarts, atStop>>
  /\ Request

Handle(h) == \/ AddStat(h)
             \/ TrackClient(h)
             \/ AddLog(h)
             \/ \E p \in Clearable : ClearPart(h, p)
             \/ RequestAfterClear(h)
             \/ CommitFails(h)
             \/ AddAudit(h)
             \/ RequestAfterAudit(h)

-----------------------------------------------------------------------------
(* persistentStateLoop.                                                    *)

WorkerAt(pc) == Up /\ wpc = pc

(* The outer select receives a request. *)
TakeRequest ==
  /\ WorkerAt("select")
  /\ token = 1
  /\ token' = 0
  /\ wpc' = "debounce"
  /\ UNCHANGED <<round, copied, snap, handlerVars, stopCh, disk, perr, proc, restarts, atStop>>

StartSave(r) == /\ wpc' = "copy"
                /\ round' = r
                /\ copied' = {}

(* The 250 ms timer fires. *)
TimerFires ==
  /\ WorkerAt("debounce")
  /\ wpc' = "drain"
  /\ UNCHANGED <<round, copied, snap, handlerVars, token, stopCh, disk, perr, proc,
                 restarts, atStop>>

(* A mutant: the worker returns when it is told to stop while it waits for *)
(* the timer.                                                              *)
ReturnUnsaved ==
  /\ WorkerAt("debounce") \/ WorkerAt("select")
  /\ Stopping
  /\ IF wpc = "select" THEN StartSave("final")
                       ELSE /\ wpc' = "exited"
                            /\ UNCHANGED <<round, copied>>
  /\ UNCHANGED <<snap, handlerVars, token, stopCh, disk, perr, proc, restarts, atStop>>

(* A mutant: only the outer select watches stateStopCh, and only while no  *)
(* request waits.                                                          *)
NoticeStopLate ==
  /\ WorkerAt("select")
  /\ Stopping /\ token = 1
  /\ StartSave("final")
  /\ UNCHANGED <<snap, handlerVars, token, stopCh, disk, perr, proc, restarts, atStop>>

(* stateStopCh is closed: in either select the worker starts the last save. *)
NoticeStop ==
  /\ WorkerAt("select") \/ WorkerAt("debounce")
  /\ Stopping
  /\ StartSave("final")
  /\ UNCHANGED <<snap, handlerVars, token, stopCh, disk, perr, proc, restarts, atStop>>

(* Requests that came in while the timer ran are answered by the save that *)
(* follows; the copies begin only when the channel is empty.               *)
DrainOne ==
  /\ WorkerAt("drain")
  /\ token = 1
  /\ token' = 0
  /\ UNCHANGED <<workerVars, handlerVars, stopCh, disk, perr, proc, restarts, atStop>>

Drained ==
  /\ WorkerAt("drain")
  /\ token = 0
  /\ StartSave("periodic")
  /\ UNCHANGED <<snap, handlerVars, token, stopCh, disk, perr, proc, restarts, atStop>>

(* savePersistentState copies one section under its mutex. *)
Copy(p) ==
  /\ WorkerAt("copy")
  /\ copied = CopiedBefore[p]
  /\ snap' = [snap EXCEPT ![p] = live[p]]
  /\ copied' = copied \cup {p}
  /\ wpc' = IF copied' = Parts THEN "write" ELSE "copy"
  /\ UNCHANGED <<round, handlerVars, token, stopCh, disk, perr, proc, restarts, atStop>>

(* The save is over; its copies go out of scope. *)
AfterSave == /\ wpc' = IF round = "final" THEN "exited" ELSE "select"
             /\ copied' = {}
             /\ snap' = Nothing
             /\ UNCHANGED round

(* A mutant: the channel is drained after the save and not before it. *)
DrainAfterSave ==
  /\ WorkerAt("write")
  /\ disk' = snap
  /\ perr' = "none"
  /\ token' = 0
  /\ AfterSave
  /\ UNCHANGED <<handlerVars, stopCh, proc, restarts, atStop>>

(* atomicWriteFile succeeds: a temporary file is written, synced, closed   *)
(* and renamed over stats.json, which changes as a whole; the error, if    *)
(* any, is cleared.                                                        *)
Replace ==
  /\ WorkerAt("write")
  /\ disk' = snap
  /\ perr' = "none"
  /\ AfterSave
  /\ UNCHANGED <<handlerVars, token, stopCh, proc, restarts, atStop>>

(* Any step of atomicWriteFile fails: the temporary file is removed, the   *)
(* error recorded, and nothing retries until the next request.             *)
SaveFails ==
  /\ WorkerAt("write")
  /\ perr' = "error"
  /\ AfterSave
  /\ UNCHANGED <<handlerVars, token, stopCh, disk, proc, restarts, atStop>>

Work == \/ TakeRequest
        \/ TimerFires
        \/ NoticeStop
        \/ DrainOne
        \/ Drained
        \/ \E p \in Parts : Copy(p)
        \/ Replace
        \/ SaveFails

-----------------------------------------------------------------------------
(* The process.                                                            *)

(* Stop reaches stopPersistentState; handlers that outlived the shutdown   *)
(* window still run.                                                       *)
CloseStopCh ==
  /\ Up
  /\ ~Stopping
  /\ stopCh' = "closed"
  /\ atStop' = live
  /\ UNCHANGED <<handlerVars, token, workerVars, disk, perr, proc, restarts>>

(* Memory goes: the handlers in flight never finish. *)
Halt ==
  /\ proc' = "down"
  /\ live' = Nothing
  /\ asked' = Nothing
  /\ atStop' = Nothing
  /\ hpc' = [h \in Handlers |-> IF hpc[h] = "idle" THEN "idle" ELSE "done"]
  /\ token' = 0
  /\ stopCh' = "open"
  /\ wpc' = "select"
  /\ round' = "periodic"
  /\ copied' = {}
  /\ snap' = Nothing
  /\ perr' = "none"
  /\ UNCHANGED restarts

(* <-stateDoneCh returns, Stop returns, main returns. *)
Exit ==
  /\ WorkerAt("exited")
  /\ Halt
  /\ UNCHANGED disk

(* A mutant: the file itself is opened and truncated for writing. *)
CrashTruncates ==
  /\ Up
  /\ Halt
  /\ disk' = IF wpc = "write" THEN Nothing ELSE disk

(* The process is killed, or main leaves through os.Exit(1) without Stop.  *)
(* A temporary file may stay behind; stats.json does not change.           *)
Crash ==
  /\ Up
  /\ Halt
  /\ UNCHANGED disk

(* NewDNSLeaf: loadPersistentState, then a fresh persistentStateLoop.  A   *)
(* file that cannot be read or decoded leaves memory empty and the error   *)
(* set.                                                                    *)
Restart ==
  /\ ~Up
  /\ restarts < MaxRestarts
  /\ restarts' = restarts + 1
  /\ proc' = "up"
  /\ \/ live' = disk /\ perr' = "none"
     \/ ReadErrors /\ live' = Nothing /\ perr' = "error"
  /\ UNCHANGED <<hpc, asked, token, stopCh, workerVars, disk, atStop>>

Process == CloseStopCh \/ Exit \/ Crash \/ Restart

Next == (\E h \in Handlers : Handle(h)) \/ Work \/ Process

(* The worker goroutine is always scheduled, its timer fires, its file     *)
(* operations return, and main returns once Stop has: one condition does   *)
(* for both, as the worker has nothing left to do when main may return.    *)
(* Handlers, signals and restarts are under no obligation.                 *)
Fairness == WF_vars(Work \/ Exit)

Spec == Init /\ [][Next]_vars

FairSpec == Spec /\ Fairness

-----------------------------------------------------------------------------
(* Properties.                                                             *)

(* A request for a save is never lost to coalescing: while the process     *)
(* runs, every change that had been made when a save was last asked for is *)
(* in stats.json, or a request is waiting, or a save that will copy it is  *)
(* due or under way, or the last save failed and says so.                  *)
NoLostRequest ==
  Up => \A p \in Parts :
          \/ asked[p] \subseteq disk[p]
          \/ perr # "none"
          \/ token = 1
          \/ wpc \in {"debounce", "drain", "exited"}
          \/ wpc \in Saving /\ (p \in copied => asked[p] \subseteq snap[p])

(* The final flush: when stopPersistentState returns and reports no error, *)
(* whatever the memory held when Stop closed the channel is in the file,   *)
(* wherever the worker stood then.                                         *)
StopFlushes ==
  wpc = "exited" /\ perr = "none" => \A p \in Parts : atStop[p] \subseteq disk[p]

(* Everything ever asked for is in the file, or the process has an excuse. *)
CaughtUp == \/ \A p \in Parts : asked[p] \subseteq disk[p]
            \/ perr # "none"
            \/ wpc = "exited"
            \/ ~Up

(* The worker always catches up: what a request asked for reaches the file *)
(* unless a save fails and is reported, or the process ends first.  (What  *)
(* is asked for only grows, so catching up once covers every request made  *)
(* before.)                                                                *)
EventuallyDurable == ~CaughtUp ~> CaughtUp

(* Stop always returns from waiting for the worker. *)
StopReturns == Stopping ~> ~Up

Abstract == INSTANCE DurableState WITH mem <- live, durable <- disk

(* The file is a DurableState whatever the interleaving of requests,       *)
(* copies, failures, kills and restarts.                                   *)
ImplementsDurableState == Abstract!Spec
=============================================================================
