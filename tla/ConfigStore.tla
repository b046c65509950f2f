----------------------------- MODULE ConfigStore -----------------------------
(***************************************************************************)
(* What the configuration promises those who use it, with nothing said of  *)
(* locks, clones or goroutines: it changes and is saved in one step, while *)
(* no query is under way; what is saved is acceptable; an answer is kept   *)
(* only under the configuration it was made under.  The one thing that     *)
(* breaks the agreement of memory and file is an entry edited and not      *)
(* saved, and that entry is accounted for.                                 *)
(***************************************************************************)
CONSTANTS Queries,   \* DNS queries
          Entries,   \* what a configuration may list
          Invalid    \* the entries that make it unacceptable

VARIABLES memory,    \* the configuration in force
          file,      \* the configuration the next start finds
          strayed,   \* entries edited and not saved
          reading,   \* the queries under way
          answers    \* the configurations under which the kept answers were made

storeVars == <<memory, file, strayed, reading, answers>>

Differ(a, b) == (a \ b) \cup (b \ a)

Acceptable(c) == c \subseteq Entries /\ c \cap Invalid = {}

Init == /\ memory = {}
        /\ file = {}
        /\ strayed = {}
        /\ reading = {}
        /\ answers = {}

(* A query is decided under the configuration in force. *)
Begin(q) == /\ q \notin reading
            /\ reading' = reading \cup {q}
            /\ UNCHANGED <<memory, file, strayed, answers>>

(* The same configuration is in force when it is answered. *)
End(q) == /\ q \in reading
          /\ reading' = reading \ {q}
          /\ answers' \in {answers, answers \cup {memory}}
          /\ UNCHANGED <<memory, file, strayed>>

(* A request is acknowledged: edited, checked, saved, and the answers of   *)
(* before dropped, all at once.  One that is not acknowledged is no step.  *)
Commit == /\ reading = {}
          /\ Acceptable(memory')
          /\ file' = memory'
          /\ answers' = {}
          /\ UNCHANGED <<strayed, reading>>

(* An entry is edited and not saved. *)
Stray(e) == /\ reading = {}
            /\ memory' = Differ(memory, {e})
            /\ strayed' = strayed \cup {e}
            /\ UNCHANGED <<file, reading, answers>>

(* The configuration in force is saved, if it can be. *)
Persist == /\ Acceptable(memory)
           /\ file' = memory
           /\ UNCHANGED <<memory, strayed, reading, answers>>

Next == \/ \E q \in Queries : Begin(q) \/ End(q)
        \/ Commit
        \/ \E e \in Entries : Stray(e)
        \/ Persist

Spec == Init /\ [][Next]_storeVars

-----------------------------------------------------------------------------
(* What follows from it.                                                   *)

(* The file and the kept answers agree with the configuration in force,    *)
(* but for what strayed, and the next start accepts the file.              *)
Agreement == /\ Acceptable(file)
             /\ Differ(memory, file) \subseteq strayed
             /\ \A c \in answers : Differ(c, memory) \subseteq strayed
=============================================================================
