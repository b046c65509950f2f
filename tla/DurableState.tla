---------------------------- MODULE DurableState ----------------------------
(***************************************************************************)
(* What a keeper of runtime state promises, with nothing said of tokens,   *)
(* timers, temporary files or goroutines: memory grows by changes, the     *)
(* file is replaced as a whole, a save never loses a change that memory    *)
(* and the file share, and the file is all that survives a process.        *)
(***************************************************************************)
CONSTANTS Parts,     \* the sections of the file
          Changes    \* the changes that may be made to a section

VARIABLES mem,       \* mem[p]: the changes section p shows in memory
          durable,   \* durable[p]: the changes section p shows in the file
          proc       \* is a process running?

absVars == <<mem, durable, proc>>

Nothing == [p \in Parts |-> {}]

Init == /\ mem = Nothing
        /\ durable = Nothing
        /\ proc = "up"

(* Some sections of memory gain changes. *)
Change == /\ proc = "up"
          /\ mem' \in [Parts -> SUBSET Changes]
          /\ \A p \in Parts : mem[p] \subseteq mem'[p]
          /\ UNCHANGED <<durable, proc>>

(* Replace the file.  Sections are copied one at a time, so the file may   *)
(* show different instants of different sections, but each section shows   *)
(* only changes memory has, and all those of them it showed before.        *)
Save == /\ proc = "up"
        /\ durable' \in [Parts -> SUBSET Changes]
        /\ \A p \in Parts : /\ durable'[p] \subseteq mem[p]
                            /\ durable[p] \cap mem[p] \subseteq durable'[p]
        /\ UNCHANGED <<mem, proc>>

(* The process ends, however it ends: memory is gone. *)
End == /\ proc = "up"
       /\ proc' = "down"
       /\ mem' = Nothing
       /\ UNCHANGED durable

(* A new process starts from the file, or from nothing when it cannot read it. *)
Begin == /\ proc = "down"
         /\ proc' = "up"
         /\ mem' \in {durable, Nothing}
         /\ UNCHANGED durable

Next == Change \/ Save \/ End \/ Begin

Spec == Init /\ [][Next]_absVars
=============================================================================
