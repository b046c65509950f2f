------------------------------ MODULE RWMutex ------------------------------
(***************************************************************************)
(* Go's sync.RWMutex, the type of d.cfgMu (main.go:286).  A writer first   *)
(* queues for the inner mutex, then announces itself and waits for the     *)
(* readers of that moment; a reader that comes while a writer is announced *)
(* is parked until that writer unlocks, and is then admitted before the    *)
(* next writer.  The lock knows nothing of who holds it: neither side may  *)
(* lock it again while it holds it.                                        *)
(***************************************************************************)
EXTENDS Naturals

CONSTANTS Goroutines,   \* whoever uses the lock
          NoOne         \* no writer

ASSUME NoOneIsNobody == NoOne \notin Goroutines

VARIABLES holds,    \* holds[g]: the read locks g holds
          writer,   \* the writer that is announced or writing
          parked    \* the readers waiting for that writer

lockVars == <<holds, writer, parked>>

LockTypeOK == /\ holds \in [Goroutines -> 0..2]
              /\ writer \in Goroutines \cup {NoOne}
              /\ parked \subseteq Goroutines

LockInit == /\ holds = [g \in Goroutines |-> 0]
            /\ writer = NoOne
            /\ parked = {}

(* RLock: the reader is in, or is parked. *)
RLock(g) == \/ /\ writer = NoOne
               /\ holds' = [holds EXCEPT ![g] = @ + 1]
               /\ UNCHANGED parked
            \/ /\ writer # NoOne
               /\ parked' = parked \cup {g}
               /\ UNCHANGED holds

(* RLock has returned to a goroutine that called it n times. *)
HasRead(g, n) == holds[g] = n /\ g \notin parked

RUnlock(g) == holds[g] > 0 /\ holds' = [holds EXCEPT ![g] = @ - 1]

(* The first half of Lock: it excludes the other writers and holds back    *)
(* the readers to come.                                                    *)
Announce(g) == writer = NoOne /\ writer' = g

(* A mutant: the writer does not wait for the readers. *)
AnnouncedIsEnough(g) == writer = g

(* Lock has returned to g. *)
Writing(g) == writer = g /\ \A r \in Goroutines : holds[r] = 0

(* A mutant: the readers parked meanwhile are forgotten. *)
UnlockWakesNobody == /\ writer' = NoOne
                     /\ UNCHANGED <<holds, parked>>

Unlock == /\ writer' = NoOne
          /\ holds' = [g \in Goroutines |-> holds[g] + (IF g \in parked THEN 1 ELSE 0)]
          /\ parked' = {}
=============================================================================
