-------------------------- MODULE LifecycleProofs --------------------------
(***************************************************************************)
(* What holds of Lifecycle whatever its servers are, and however many: a   *)
(* server is never out of Stop's reach.  The invariant says where Stop     *)
(* finds each server whose socket is open: in the list, until Stop copies  *)
(* it, and then in the copy.                                               *)
(***************************************************************************)
EXTENDS Lifecycle, FiniteSetTheorems, TLAPS

Tracked(s) == IF once = "new" THEN s \in registered ELSE s \in toClose

(* Stop leaves no server of its copy behind. *)
Emptied == once \in {"flush", "done"} => toClose = {}

(* Start has opened and spawned nothing before the step that does. *)
Untouched == /\ main = "begin" => \A s \in Servers : sock[s] = "unbound"
             /\ main \in {"begin", "bind"} =>
                  /\ \A s \in Servers : srv[s] = "none"
                  /\ registered = {} /\ toClose = {}
                  /\ next <= Len(BindOrder)

(* A server that serves, or is about to, is tracked. *)
Live(s) == \/ srv[s] = "serving"
           \/ srv[s] = "spawned" /\ s \notin Proxies

ServingTracked == \A s \in Servers : sock[s] = "open" /\ Live(s) => Tracked(s)

(* While Start registers the servers, those registered are tracked; later, *)
(* all of them are.                                                        *)
RegisteredTracked ==
  main = "register" =>
    \A i \in 1..(next - 1) : sock[RegisterOrder[i]] = "open" => Tracked(RegisterOrder[i])

OpenTracked ==
  main \notin {"begin", "bind", "register"} =>
    \A s \in Dns \cup Web : sock[s] = "open" => Tracked(s)

CleanDone == main = "clean" => once = "done"

IInv == /\ TypeOK
        /\ Emptied
        /\ Untouched
        /\ ServingTracked
        /\ RegisteredTracked
        /\ OpenTracked
        /\ CleanDone
-----------------------------------------------------------------------------
(* Stop's copy holds what the list held: a tracked server stays tracked.    *)
LEMMA CallStopTracks ==
  ASSUME TypeOK, CallStop, UNCHANGED registered
  PROVE  /\ once' \in OncePc
         /\ toClose' \subseteq Servers
         /\ \A s : Tracked(s) => Tracked(s)'
         /\ once \in {"flush", "done"} => once' = once /\ toClose' = toClose
         /\ once' \in {"flush", "done"} => once' = once /\ toClose' = toClose
  BY DEF TypeOK, CallStop, Tracked, OncePc, stopVars

(* The orders of Start name servers, and every DNS and web server.          *)
LEMMA Orders ==
  /\ \A i \in 1..Len(BindOrder) : BindOrder[i] \in Dns \cup Web
  /\ \A i \in 1..Len(RegisterOrder) : RegisterOrder[i] \in Dns \cup Web
  /\ \A s \in Dns \cup Web : \E i \in 1..Len(RegisterOrder) : RegisterOrder[i] = s
  /\ \A p \in Proxies : p \notin Dns \cup Web
  /\ Len(BindOrder) \in Nat \ {0}
  /\ Len(RegisterOrder) = Len(BindOrder)
  BY ServersOK DEF ServersOK, ToSet

LEMMA StopClosesStep ==
  ASSUME NEW s \in Servers, IInv, StopCloses(s)
  PROVE  IInv'
  <1> USE DEF IInv, StopCloses, MainGoes, Up, stopVars, readyVars, TypeOK
  <1>1. TypeOK'
    BY DEF MainPc, OncePc, Servers
  <1>2. Emptied'
    BY DEF Emptied
  <1>3. Untouched'
    BY DEF Untouched, Servers
  <1>4. ServingTracked'
    BY DEF Emptied, Untouched, ServingTracked, Live, Tracked, Servers
  <1>5. RegisteredTracked'
    BY DEF Emptied, Untouched, RegisteredTracked, Tracked, Servers
  <1>6. OpenTracked'
    BY DEF Emptied, Untouched, RegisteredTracked, OpenTracked, Tracked, Servers
  <1>7. CleanDone'
    BY DEF CleanDone
  <1> QED
    BY <1>1, <1>2, <1>3, <1>4, <1>5, <1>6, <1>7 DEF IInv

LEMMA StopConsoleStep ==
  ASSUME IInv, StopConsole
  PROVE  IInv'
  <1> USE DEF IInv, StopConsole, MainGoes, Up, stopVars, readyVars, TypeOK
  <1>1. TypeOK'
    BY DEF MainPc, OncePc, Servers
  <1>2. Emptied'
    BY DEF Emptied
  <1>3. Untouched'
    BY DEF Untouched, Servers
  <1>4. ServingTracked'
    BY DEF Emptied, Untouched, ServingTracked, Live, Tracked, Servers
  <1>5. RegisteredTracked'
    BY DEF Emptied, Untouched, RegisteredTracked, Tracked, Servers
  <1>6. OpenTracked'
    BY DEF Emptied, Untouched, RegisteredTracked, OpenTracked, Tracked, Servers
  <1>7. CleanDone'
    BY DEF CleanDone
  <1> QED
    BY <1>1, <1>2, <1>3, <1>4, <1>5, <1>6, <1>7 DEF IInv

LEMMA StopFlushStep ==
  ASSUME IInv, StopFlush
  PROVE  IInv'
  <1> USE DEF IInv, StopFlush, MainGoes, Up, stopVars, readyVars, TypeOK
  <1>1. TypeOK'
    BY DEF MainPc, OncePc, Servers
  <1>2. Emptied'
    BY DEF Emptied
  <1>3. Untouched'
    BY DEF Untouched, Servers
  <1>4. ServingTracked'
    BY DEF Emptied, Untouched, ServingTracked, Live, Tracked, Servers
  <1>5. RegisteredTracked'
    BY DEF Emptied, Untouched, RegisteredTracked, Tracked, Servers
  <1>6. OpenTracked'
    BY DEF Emptied, Untouched, RegisteredTracked, OpenTracked, Tracked, Servers
  <1>7. CleanDone'
    BY DEF CleanDone
  <1> QED
    BY <1>1, <1>2, <1>3, <1>4, <1>5, <1>6, <1>7 DEF IInv

LEMMA SignalArrivesStep ==
  ASSUME IInv, SignalArrives
  PROVE  IInv'
  <1> USE DEF IInv, SignalArrives, MainGoes, Up, stopVars, readyVars, TypeOK, CallStop
  <1>1. TypeOK'
    BY DEF MainPc, OncePc, Servers
  <1>2. Emptied'
    BY DEF Emptied
  <1>3. Untouched'
    BY DEF Untouched, Servers
  <1>4. ServingTracked'
    BY DEF Emptied, Untouched, ServingTracked, Live, Tracked, Servers
  <1>5. RegisteredTracked'
    BY DEF Emptied, Untouched, RegisteredTracked, Tracked, Servers
  <1>6. OpenTracked'
    BY DEF Emptied, Untouched, RegisteredTracked, OpenTracked, Tracked, Servers
  <1>7. CleanDone'
    BY DEF CleanDone
  <1> QED
    BY <1>1, <1>2, <1>3, <1>4, <1>5, <1>6, <1>7 DEF IInv

LEMMA PrepareStep ==
  ASSUME IInv, Prepare
  PROVE  IInv'
  <1> USE Orders DEF IInv, Prepare, MainGoes, Up, stopVars, readyVars, TypeOK
  <1>1. TypeOK'
    BY DEF MainPc, OncePc, Servers
  <1>2. Emptied'
    BY DEF Emptied
  <1>3. Untouched'
    BY DEF Untouched, Servers
  <1>4. ServingTracked'
    BY DEF Emptied, Untouched, ServingTracked, Live, Tracked, Servers
  <1>5. RegisteredTracked'
    BY DEF Emptied, Untouched, RegisteredTracked, Tracked, Servers
  <1>6. OpenTracked'
    BY DEF Emptied, Untouched, RegisteredTracked, OpenTracked, Tracked, Servers
  <1>7. CleanDone'
    BY DEF CleanDone
  <1> QED
    BY <1>1, <1>2, <1>3, <1>4, <1>5, <1>6, <1>7 DEF IInv

LEMMA BindStep ==
  ASSUME IInv, Bind
  PROVE  IInv'
  <1> USE Orders DEF IInv, TypeOK, Bind
  <1>0. BindOrder[next] \in Servers /\ next + 1 \in Nat
    BY DEF Untouched, Servers
  <1>1. TypeOK'
    <2>1. sock' \in [Servers -> {"unbound", "open", "closed"}]
      BY <1>0
    <2>2. next' \in 1..(Len(BindOrder) + 1) /\ main' \in MainPc
      BY DEF Untouched, MainPc
    <2> QED
      BY <2>1, <2>2 DEF IInv, TypeOK, Bind, stopVars, readyVars
  <1>2. Emptied'
    BY DEF MainGoes, Up, stopVars, readyVars, Emptied
  <1>3. Untouched'
    BY DEF MainGoes, Up, stopVars, readyVars, Untouched, Servers
  <1>4. ServingTracked'
    BY DEF MainGoes, Up, stopVars, readyVars, Emptied, Untouched, ServingTracked, Live,
        Tracked, Servers
  <1>5. RegisteredTracked'
    BY DEF MainGoes, Up, stopVars, readyVars, Emptied, Untouched, RegisteredTracked,
        Tracked, Servers
  <1>6. OpenTracked'
    BY DEF MainGoes, Up, stopVars, readyVars, Emptied, Untouched, RegisteredTracked,
        OpenTracked, Tracked, Servers
  <1>7. CleanDone'
    BY DEF MainGoes, Up, stopVars, readyVars, CleanDone
  <1> QED
    BY <1>1, <1>2, <1>3, <1>4, <1>5, <1>6, <1>7 DEF IInv

LEMMA BindFailsStep ==
  ASSUME IInv, BindFails
  PROVE  IInv'
  <1> USE DEF IInv, BindFails, MainGoes, Up, stopVars, readyVars, TypeOK
  <1>1. TypeOK'
    BY DEF MainPc, OncePc, Servers
  <1>2. Emptied'
    BY DEF Emptied
  <1>3. Untouched'
    BY DEF Untouched, Servers
  <1>4. ServingTracked'
    BY DEF Emptied, Untouched, ServingTracked, Live, Tracked, Servers
  <1>5. RegisteredTracked'
    BY DEF Emptied, Untouched, RegisteredTracked, Tracked, Servers
  <1>6. OpenTracked'
    BY DEF Emptied, Untouched, RegisteredTracked, OpenTracked, Tracked, Servers
  <1>7. CleanDone'
    BY DEF CleanDone
  <1> QED
    BY <1>1, <1>2, <1>3, <1>4, <1>5, <1>6, <1>7 DEF IInv

LEMMA StartServerStep ==
  ASSUME IInv, StartServer
  PROVE  IInv'
  <1> USE Orders DEF IInv, StartServer, MainGoes, Up, stopVars, readyVars, Launch,
      Register, stopped, TypeOK
  <1>1. TypeOK'
    BY DEF MainPc, OncePc, Servers
  <1>2. Emptied'
    BY DEF Emptied
  <1>3. Untouched'
    BY DEF Untouched, Servers
  <1>4. ServingTracked'
    BY DEF Emptied, Untouched, ServingTracked, Live, Tracked, Servers
  <1>5. RegisteredTracked'
    BY DEF Emptied, Untouched, RegisteredTracked, Tracked, Servers
  <1>6. OpenTracked'
    BY DEF Emptied, Untouched, RegisteredTracked, OpenTracked, Tracked, Servers
  <1>7. CleanDone'
    BY DEF CleanDone
  <1> QED
    BY <1>1, <1>2, <1>3, <1>4, <1>5, <1>6, <1>7 DEF IInv

LEMMA StartWaitsStep ==
  ASSUME IInv, StartWaits
  PROVE  IInv'
  <1> USE Orders DEF IInv, StartWaits, MainGoes, Up, stopVars, readyVars, TypeOK
  <1>1. TypeOK'
    BY DEF MainPc, OncePc, Servers
  <1>2. Emptied'
    BY DEF Emptied
  <1>3. Untouched'
    BY DEF Untouched, Servers
  <1>4. ServingTracked'
    BY DEF Emptied, Untouched, ServingTracked, Live, Tracked, Servers
  <1>5. RegisteredTracked'
    BY DEF Emptied, Untouched, RegisteredTracked, Tracked, Servers
  <1>6. OpenTracked'
    BY DEF Emptied, Untouched, RegisteredTracked, OpenTracked, Tracked, Servers
  <1>7. CleanDone'
    BY DEF CleanDone
  <1> QED
    BY <1>1, <1>2, <1>3, <1>4, <1>5, <1>6, <1>7 DEF IInv

LEMMA WaitEndsStep ==
  ASSUME IInv, WaitEnds
  PROVE  IInv'
  <1> USE DEF IInv, WaitEnds, MainGoes, Up, stopVars, readyVars, stopped, TypeOK
  <1>1. TypeOK'
    BY DEF MainPc, OncePc, Servers
  <1>2. Emptied'
    BY DEF Emptied
  <1>3. Untouched'
    BY DEF Untouched, Servers
  <1>4. ServingTracked'
    BY DEF Emptied, Untouched, ServingTracked, Live, Tracked, Servers
  <1>5. RegisteredTracked'
    BY DEF Emptied, Untouched, RegisteredTracked, Tracked, Servers
  <1>6. OpenTracked'
    BY DEF Emptied, Untouched, RegisteredTracked, OpenTracked, Tracked, Servers
  <1>7. CleanDone'
    BY DEF CleanDone
  <1> QED
    BY <1>1, <1>2, <1>3, <1>4, <1>5, <1>6, <1>7 DEF IInv

LEMMA ConsoleRunsStep ==
  ASSUME IInv, ConsoleRuns
  PROVE  IInv'
  <1> USE DEF IInv, ConsoleRuns, MainGoes, Up, stopVars, readyVars, TypeOK
  <1>1. TypeOK'
    BY DEF MainPc, OncePc, Servers
  <1>2. Emptied'
    BY DEF Emptied
  <1>3. Untouched'
    BY DEF Untouched, Servers
  <1>4. ServingTracked'
    BY DEF Emptied, Untouched, ServingTracked, Live, Tracked, Servers
  <1>5. RegisteredTracked'
    BY DEF Emptied, Untouched, RegisteredTracked, Tracked, Servers
  <1>6. OpenTracked'
    BY DEF Emptied, Untouched, RegisteredTracked, OpenTracked, Tracked, Servers
  <1>7. CleanDone'
    BY DEF CleanDone
  <1> QED
    BY <1>1, <1>2, <1>3, <1>4, <1>5, <1>6, <1>7 DEF IInv

LEMMA UserQuitsStep ==
  ASSUME IInv, UserQuits
  PROVE  IInv'
  <1> USE DEF IInv, UserQuits, MainGoes, Up, stopVars, readyVars, TypeOK, CallStop
  <1>1. TypeOK'
    BY DEF MainPc, OncePc, Servers
  <1>2. Emptied'
    BY DEF Emptied
  <1>3. Untouched'
    BY DEF Untouched, Servers
  <1>4. ServingTracked'
    BY DEF Emptied, Untouched, ServingTracked, Live, Tracked, Servers
  <1>5. RegisteredTracked'
    BY DEF Emptied, Untouched, RegisteredTracked, Tracked, Servers
  <1>6. OpenTracked'
    BY DEF Emptied, Untouched, RegisteredTracked, OpenTracked, Tracked, Servers
  <1>7. CleanDone'
    BY DEF CleanDone
  <1> QED
    BY <1>1, <1>2, <1>3, <1>4, <1>5, <1>6, <1>7 DEF IInv

LEMMA QuitDoneStep ==
  ASSUME IInv, QuitDone
  PROVE  IInv'
  <1> USE DEF IInv, QuitDone, MainGoes, Up, stopVars, readyVars, TypeOK
  <1>1. TypeOK'
    BY DEF MainPc, OncePc, Servers
  <1>2. Emptied'
    BY DEF Emptied
  <1>3. Untouched'
    BY DEF Untouched, Servers
  <1>4. ServingTracked'
    BY DEF Emptied, Untouched, ServingTracked, Live, Tracked, Servers
  <1>5. RegisteredTracked'
    BY DEF Emptied, Untouched, RegisteredTracked, Tracked, Servers
  <1>6. OpenTracked'
    BY DEF Emptied, Untouched, RegisteredTracked, OpenTracked, Tracked, Servers
  <1>7. CleanDone'
    BY DEF CleanDone
  <1> QED
    BY <1>1, <1>2, <1>3, <1>4, <1>5, <1>6, <1>7 DEF IInv

LEMMA UserInterruptsStep ==
  ASSUME IInv, UserInterrupts
  PROVE  IInv'
  <1> USE DEF IInv, UserInterrupts, MainGoes, Up, stopVars, readyVars, TypeOK
  <1>1. TypeOK'
    BY DEF MainPc, OncePc, Servers
  <1>2. Emptied'
    BY DEF Emptied
  <1>3. Untouched'
    BY DEF Untouched, Servers
  <1>4. ServingTracked'
    BY DEF Emptied, Untouched, ServingTracked, Live, Tracked, Servers
  <1>5. RegisteredTracked'
    BY DEF Emptied, Untouched, RegisteredTracked, Tracked, Servers
  <1>6. OpenTracked'
    BY DEF Emptied, Untouched, RegisteredTracked, OpenTracked, Tracked, Servers
  <1>7. CleanDone'
    BY DEF CleanDone
  <1> QED
    BY <1>1, <1>2, <1>3, <1>4, <1>5, <1>6, <1>7 DEF IInv

LEMMA LoopEndsStep ==
  ASSUME IInv, LoopEnds
  PROVE  IInv'
  <1> USE DEF IInv, LoopEnds, MainGoes, Up, stopVars, readyVars, TypeOK, CallStop
  <1>1. TypeOK'
    BY DEF MainPc, OncePc, Servers
  <1>2. Emptied'
    BY DEF Emptied
  <1>3. Untouched'
    BY DEF Untouched, Servers
  <1>4. ServingTracked'
    BY DEF Emptied, Untouched, ServingTracked, Live, Tracked, Servers
  <1>5. RegisteredTracked'
    BY DEF Emptied, Untouched, RegisteredTracked, Tracked, Servers
  <1>6. OpenTracked'
    BY DEF Emptied, Untouched, RegisteredTracked, OpenTracked, Tracked, Servers
  <1>7. CleanDone'
    BY DEF CleanDone
  <1> QED
    BY <1>1, <1>2, <1>3, <1>4, <1>5, <1>6, <1>7 DEF IInv

LEMMA FatalStopsStep ==
  ASSUME IInv, FatalStops
  PROVE  IInv'
  <1> USE DEF IInv, FatalStops, MainGoes, Up, stopVars, readyVars, TypeOK, CallStop
  <1>1. TypeOK'
    BY DEF MainPc, OncePc, Servers
  <1>2. Emptied'
    BY DEF Emptied
  <1>3. Untouched'
    BY DEF Untouched, Servers
  <1>4. ServingTracked'
    BY DEF Emptied, Untouched, ServingTracked, Live, Tracked, Servers
  <1>5. RegisteredTracked'
    BY DEF Emptied, Untouched, RegisteredTracked, Tracked, Servers
  <1>6. OpenTracked'
    BY DEF Emptied, Untouched, RegisteredTracked, OpenTracked, Tracked, Servers
  <1>7. CleanDone'
    BY DEF CleanDone
  <1> QED
    BY <1>1, <1>2, <1>3, <1>4, <1>5, <1>6, <1>7 DEF IInv

LEMMA MainFailsStep ==
  ASSUME IInv, MainFails
  PROVE  IInv'
  <1> USE DEF IInv, MainFails, MainGoes, Up, stopVars, readyVars, stopped, TypeOK
  <1>1. TypeOK'
    BY DEF MainPc, OncePc, Servers
  <1>2. Emptied'
    BY DEF Emptied
  <1>3. Untouched'
    BY DEF Untouched, Servers
  <1>4. ServingTracked'
    BY DEF Emptied, Untouched, ServingTracked, Live, Tracked, Servers
  <1>5. RegisteredTracked'
    BY DEF Emptied, Untouched, RegisteredTracked, Tracked, Servers
  <1>6. OpenTracked'
    BY DEF Emptied, Untouched, RegisteredTracked, OpenTracked, Tracked, Servers
  <1>7. CleanDone'
    BY DEF CleanDone
  <1> QED
    BY <1>1, <1>2, <1>3, <1>4, <1>5, <1>6, <1>7 DEF IInv

LEMMA MainReturnsStep ==
  ASSUME IInv, MainReturns
  PROVE  IInv'
  <1> USE DEF IInv, MainReturns, MainGoes, Up, stopVars, readyVars, TypeOK, CallStop
  <1>1. TypeOK'
    BY DEF MainPc, OncePc, Servers
  <1>2. Emptied'
    BY DEF Emptied
  <1>3. Untouched'
    BY DEF Untouched, Servers
  <1>4. ServingTracked'
    BY DEF Emptied, Untouched, ServingTracked, Live, Tracked, Servers
  <1>5. RegisteredTracked'
    BY DEF Emptied, Untouched, RegisteredTracked, Tracked, Servers
  <1>6. OpenTracked'
    BY DEF Emptied, Untouched, RegisteredTracked, OpenTracked, Tracked, Servers
  <1>7. CleanDone'
    BY DEF CleanDone
  <1> QED
    BY <1>1, <1>2, <1>3, <1>4, <1>5, <1>6, <1>7 DEF IInv

LEMMA ServesStep ==
  ASSUME NEW s \in Servers, IInv, Serves(s)
  PROVE  IInv'
  <1> USE DEF IInv, Serves, MainGoes, Up, stopVars, readyVars, TypeOK
  <1>1. TypeOK'
    BY DEF MainPc, OncePc, Servers
  <1>2. Emptied'
    BY DEF Emptied
  <1>3. Untouched'
    BY DEF Untouched, Servers
  <1>4. ServingTracked'
    BY DEF Emptied, Untouched, ServingTracked, Live, Tracked, Servers
  <1>5. RegisteredTracked'
    BY DEF Emptied, Untouched, RegisteredTracked, Tracked, Servers
  <1>6. OpenTracked'
    BY DEF Emptied, Untouched, RegisteredTracked, OpenTracked, Tracked, Servers
  <1>7. CleanDone'
    BY DEF CleanDone
  <1> QED
    BY <1>1, <1>2, <1>3, <1>4, <1>5, <1>6, <1>7 DEF IInv

LEMMA ServerEndsStep ==
  ASSUME NEW s \in Servers, IInv, ServerEnds(s)
  PROVE  IInv'
  <1> USE DEF IInv, ServerEnds, MainGoes, Up, stopVars, readyVars, TypeOK
  <1>1. TypeOK'
    BY DEF MainPc, OncePc, Servers
  <1>2. Emptied'
    BY DEF Emptied
  <1>3. Untouched'
    BY DEF Untouched, Servers
  <1>4. ServingTracked'
    BY DEF Emptied, Untouched, ServingTracked, Live, Tracked, Servers
  <1>5. RegisteredTracked'
    BY DEF Emptied, Untouched, RegisteredTracked, Tracked, Servers
  <1>6. OpenTracked'
    BY DEF Emptied, Untouched, RegisteredTracked, OpenTracked, Tracked, Servers
  <1>7. CleanDone'
    BY DEF CleanDone
  <1> QED
    BY <1>1, <1>2, <1>3, <1>4, <1>5, <1>6, <1>7 DEF IInv

LEMMA ServerReportsStep ==
  ASSUME NEW s \in Servers, IInv, ServerReports(s)
  PROVE  IInv'
  <1> USE DEF IInv, ServerReports, MainGoes, Up, stopVars, readyVars, stopped, TypeOK
  <1>1. TypeOK'
    BY DEF MainPc, OncePc, Servers
  <1>2. Emptied'
    BY DEF Emptied
  <1>3. Untouched'
    BY DEF Untouched, Servers
  <1>4. ServingTracked'
    BY DEF Emptied, Untouched, ServingTracked, Live, Tracked, Servers
  <1>5. RegisteredTracked'
    BY DEF Emptied, Untouched, RegisteredTracked, Tracked, Servers
  <1>6. OpenTracked'
    BY DEF Emptied, Untouched, RegisteredTracked, OpenTracked, Tracked, Servers
  <1>7. CleanDone'
    BY DEF CleanDone
  <1> QED
    BY <1>1, <1>2, <1>3, <1>4, <1>5, <1>6, <1>7 DEF IInv

LEMMA ProxyListensStep ==
  ASSUME NEW s \in Proxies, IInv, ProxyListens(s)
  PROVE  IInv'
  <1> USE Orders DEF IInv, ProxyListens, MainGoes, Up, stopVars, readyVars, TypeOK
  <1>1. TypeOK'
    BY DEF MainPc, OncePc, Servers
  <1>2. Emptied'
    BY DEF Emptied
  <1>3. Untouched'
    BY DEF Untouched, Servers
  <1>4. ServingTracked'
    BY DEF Emptied, Untouched, ServingTracked, Live, Tracked, Servers
  <1>5. RegisteredTracked'
    BY DEF Emptied, Untouched, RegisteredTracked, Tracked, Servers
  <1>6. OpenTracked'
    BY DEF Emptied, Untouched, RegisteredTracked, OpenTracked, Tracked, Servers
  <1>7. CleanDone'
    BY DEF CleanDone
  <1> QED
    BY <1>1, <1>2, <1>3, <1>4, <1>5, <1>6, <1>7 DEF IInv

LEMMA ProxyCannotListenStep ==
  ASSUME NEW s \in Proxies, IInv, ProxyCannotListen(s)
  PROVE  IInv'
  <1> USE DEF IInv, ProxyCannotListen, MainGoes, Up, stopVars, readyVars, TypeOK
  <1>1. TypeOK'
    BY DEF MainPc, OncePc, Servers
  <1>2. Emptied'
    BY DEF Emptied
  <1>3. Untouched'
    BY DEF Untouched, Servers
  <1>4. ServingTracked'
    BY DEF Emptied, Untouched, ServingTracked, Live, Tracked, Servers
  <1>5. RegisteredTracked'
    BY DEF Emptied, Untouched, RegisteredTracked, Tracked, Servers
  <1>6. OpenTracked'
    BY DEF Emptied, Untouched, RegisteredTracked, OpenTracked, Tracked, Servers
  <1>7. CleanDone'
    BY DEF CleanDone
  <1> QED
    BY <1>1, <1>2, <1>3, <1>4, <1>5, <1>6, <1>7 DEF IInv

LEMMA ProxyServesStep ==
  ASSUME NEW s \in Proxies, IInv, ProxyServes(s)
  PROVE  IInv'
  <1> USE Orders DEF IInv, ProxyServes, MainGoes, Up, stopVars, readyVars, Register,
      stopped, TypeOK
  <1>1. TypeOK'
    BY DEF MainPc, OncePc, Servers
  <1>2. Emptied'
    BY DEF Emptied
  <1>3. Untouched'
    BY DEF Untouched, Servers
  <1>4. ServingTracked'
    BY DEF Emptied, Untouched, ServingTracked, Live, Tracked, Servers
  <1>5. RegisteredTracked'
    BY DEF Emptied, Untouched, RegisteredTracked, Tracked, Servers
  <1>6. OpenTracked'
    BY DEF Emptied, Untouched, RegisteredTracked, OpenTracked, Tracked, Servers
  <1>7. CleanDone'
    BY DEF CleanDone
  <1> QED
    BY <1>1, <1>2, <1>3, <1>4, <1>5, <1>6, <1>7 DEF IInv

LEMMA Starts == Init => IInv
  BY Orders DEF Init, IInv, TypeOK, Emptied, Untouched, ServingTracked, RegisteredTracked,
      OpenTracked, CleanDone, Live, MainPc, OncePc, Servers

LEMMA Steps == IInv /\ [Next]_vars => IInv'
  <1> SUFFICES ASSUME IInv, [Next]_vars
               PROVE  IInv'
    OBVIOUS
  <1>1. CASE UNCHANGED vars
    BY <1>1 DEF IInv, TypeOK, Emptied, Untouched, ServingTracked, Live, Tracked,
        RegisteredTracked, OpenTracked, CleanDone, vars, stopVars, readyVars
  <1>2. CASE Stop
    BY <1>2, StopClosesStep, StopConsoleStep, StopFlushStep DEF Stop
  <1>3. CASE Main
    BY <1>3, PrepareStep, BindStep, BindFailsStep, StartServerStep, StartWaitsStep,
        WaitEndsStep, ConsoleRunsStep, QuitDoneStep, LoopEndsStep, MainFailsStep,
        MainReturnsStep DEF Main
  <1>4. CASE UserQuits \/ UserInterrupts \/ SignalArrives \/ FatalStops
    BY <1>4, UserQuitsStep, UserInterruptsStep, SignalArrivesStep, FatalStopsStep
  <1>5. CASE \E s \in Servers : Server(s)
    BY <1>5, ServesStep, ServerEndsStep, ServerReportsStep DEF Server
  <1>6. CASE \E p \in Proxies : Proxy(p)
    BY <1>6, ProxyListensStep, ProxyCannotListenStep, ProxyServesStep DEF Proxy
  <1> QED
    BY <1>1, <1>2, <1>3, <1>4, <1>5, <1>6 DEF Next

(* The invariant holds in every reachable state.                            *)
THEOREM Invariance == Spec => []IInv
  <1>1. Init => IInv
    BY Starts
  <1>2. IInv /\ [Next]_vars => IInv'
    BY Steps
  <1> QED
    BY <1>1, <1>2, PTL DEF Spec

(* Every variable of a process keeps its type.                              *)
THEOREM TypeCorrect == Spec => []TypeOK
  <1>1. IInv => TypeOK
    BY DEF IInv
  <1> QED
    BY <1>1, Invariance, PTL

(* Once Stop has run no server serves on an open socket, whatever Start was *)
(* doing meanwhile: each was in Stop's copy, and closed, or was closed by   *)
(* its own registration.                                                    *)
THEOREM StopSilences == Spec => []StoppedIsSilent
  <1>1. IInv => StoppedIsSilent
    BY DEF IInv, Emptied, ServingTracked, Live, Tracked, StoppedIsSilent
  <1> QED
    BY <1>1, Invariance, PTL

(* A process that returns from main has run Stop to its end and holds none  *)
(* of the sockets that Start bound.                                         *)
THEOREM ExitsClean == Spec => []CleanExit
  <1>1. IInv => CleanExit
    BY DEF IInv, Emptied, OpenTracked, CleanDone, Tracked, CleanExit
  <1> QED
    BY <1>1, Invariance, PTL

-----------------------------------------------------------------------------
(* Readiness: dnsReady never counts a DNS server that has not started.     *)

Started == {s \in Dns : srv[s] \notin {"none", "spawned"}}

Counted == dnsReady <= Cardinality(Started)

(* Start has spawned none of the servers it has still to register. *)
Pending ==
  main = "register" =>
    \A i \in 1..Len(RegisterOrder) : i >= next => srv[RegisterOrder[i]] = "none"

LEMMA StartedCounts ==
  ASSUME IsFiniteSet(Dns), TypeOK, TypeOK', Counted, Started \subseteq Started',
         \/ dnsReady' = dnsReady
         \/ dnsReady' = dnsReady + 1 /\ Started' # Started
  PROVE  Counted'
  <1>1. IsFiniteSet(Started')
    BY FS_Subset DEF Started
  <1>2. /\ IsFiniteSet(Started)
        /\ Cardinality(Started) <= Cardinality(Started')
        /\ Cardinality(Started') = Cardinality(Started) => Started' = Started
    BY <1>1, FS_Subset
  <1>3. Cardinality(Started) \in Nat /\ Cardinality(Started') \in Nat
    BY <1>1, <1>2, FS_CardinalityType
  <1>4. dnsReady \in Nat /\ dnsReady' \in Nat
    BY DEF TypeOK
  <1> QED
    BY <1>2, <1>3, <1>4 DEF Counted

(* The steps in which no server starts leave the counter alone, and        *)
(* Start begins to register when it has bound the last socket.             *)
Stays == main = "register" /\ next' = next
Enters == main = "bind" /\ next' = 1 /\ srv' = srv

Moves(s) == \/ srv[s] \in {"spawned", "bound"} /\ s \in Proxies
            \/ srv[s] = "failing" /\ srv'[s] = "ended"

Quiet == /\ dnsReady' = dnsReady
         /\ main' = "register" => Stays \/ Enters
         /\ \A s \in Servers : srv'[s] # srv[s] => Moves(s)

LEMMA NoneStarts ==
  ASSUME [Next]_vars, ~StartServer, \A s \in Servers : ~Serves(s) /\ ~ServerEnds(s), TypeOK
  PROVE  Quiet
  <1> USE DEF TypeOK, readyVars, MainGoes, Quiet, Stays, Enters
  <1>1. CASE UNCHANGED vars
    BY <1>1 DEF vars
  <1>2. ASSUME NEW s \in Servers, StopCloses(s) PROVE Quiet
    BY <1>2 DEF StopCloses
  <1>3. CASE StopConsole
    BY <1>3 DEF StopConsole
  <1>4. CASE StopFlush
    BY <1>4 DEF StopFlush
  <1>5. CASE Prepare
    BY <1>5 DEF Prepare
  <1>6. CASE Bind
    BY <1>6 DEF Bind
  <1>7. CASE BindFails
    BY <1>7 DEF BindFails
  <1>8. CASE StartWaits
    BY <1>8 DEF StartWaits
  <1>9. CASE WaitEnds
    BY <1>9 DEF WaitEnds
  <1>10. CASE ConsoleRuns
    BY <1>10 DEF ConsoleRuns
  <1>11. CASE QuitDone
    BY <1>11 DEF QuitDone
  <1>12. CASE LoopEnds
    BY <1>12 DEF LoopEnds
  <1>13. CASE MainFails
    BY <1>13 DEF MainFails
  <1>14. CASE MainReturns
    BY <1>14 DEF MainReturns
  <1>15. CASE UserQuits
    BY <1>15 DEF UserQuits
  <1>16. CASE UserInterrupts
    BY <1>16 DEF UserInterrupts
  <1>17. CASE SignalArrives
    BY <1>17 DEF SignalArrives
  <1>18. CASE FatalStops
    BY <1>18 DEF FatalStops
  <1>19. ASSUME NEW s \in Servers, ServerReports(s) PROVE Quiet
    BY <1>19 DEF ServerReports, Moves
  <1>20. ASSUME NEW p \in Proxies, ProxyListens(p) PROVE Quiet
    BY <1>20 DEF ProxyListens, Moves, Servers
  <1>21. ASSUME NEW p \in Proxies, ProxyCannotListen(p) PROVE Quiet
    BY <1>21 DEF ProxyCannotListen, Moves, Servers
  <1>22. ASSUME NEW p \in Proxies, ProxyServes(p) PROVE Quiet
    BY <1>22 DEF ProxyServes, Moves, Servers
  <1> QED
    BY <1>1, <1>2, <1>3, <1>4, <1>5, <1>6, <1>7, <1>8, <1>9, <1>10, <1>11,
       <1>12, <1>13, <1>14, <1>15, <1>16, <1>17, <1>18, <1>19, <1>20, <1>21, <1>22
    DEF Next, Main, Stop, Server, Proxy

LEMMA CountingSteps ==
  ASSUME IsFiniteSet(Dns), IInv, IInv', [Next]_vars, Pending, Counted
  PROVE  Pending' /\ Counted'
  <1> USE DEF IInv
  <1>1. ASSUME StartServer PROVE Pending' /\ Counted'
    <2> DEFINE s == RegisterOrder[next]
    <2>1. /\ main = "register" /\ next \in 1..Len(RegisterOrder)
          /\ main' = main /\ next' = next + 1 /\ dnsReady' = dnsReady
      BY <1>1 DEF StartServer, Launch, TypeOK
    <2>2. \A t \in Servers : srv'[t] = srv[t] \/ t = s \/ t \in Proxies
      BY <1>1 DEF StartServer, Launch
    <2>3. s \in Dns \cup Web /\ srv[s] = "none"
      BY <2>1, Orders DEF Pending
    <2>4. \A t \in Dns : t # s => srv'[t] = srv[t]
      BY <2>2, Orders DEF Servers
    <2>5. Started \subseteq Started'
      BY <2>3, <2>4 DEF Started
    <2>6. Counted'
      BY <2>1, <2>5, StartedCounts
    <2>7. Pending'
      <3> SUFFICES ASSUME NEW i \in 1..Len(RegisterOrder), i >= next + 1
                   PROVE  srv'[RegisterOrder[i]] = "none"
        BY <2>1 DEF Pending
      <3>1. RegisterOrder[i] # s
        BY <2>1, ServersOK DEF ServersOK, IsInjective
      <3>2. RegisterOrder[i] \in Servers /\ RegisterOrder[i] \notin Proxies
        BY Orders DEF Servers
      <3>3. srv[RegisterOrder[i]] = "none"
        BY <2>1 DEF Pending
      <3> QED
        BY <2>2, <3>1, <3>2, <3>3
    <2> QED
      BY <2>6, <2>7
  <1>2. ASSUME NEW s \in Servers, Serves(s) PROVE Pending' /\ Counted'
    <2> USE DEF TypeOK, Serves, stopVars
    <2>1. Pending'
      BY <1>2, Orders DEF Pending, Servers
    <2>2. Started \subseteq Started' /\ (s \in Dns => s \in Started' \ Started)
      BY <1>2 DEF Started, Servers
    <2> QED
      BY <1>2, <2>1, <2>2, StartedCounts
  <1>3. ASSUME NEW s \in Servers, ServerEnds(s) PROVE Pending' /\ Counted'
    <2> USE DEF TypeOK, ServerEnds, stopVars
    <2>1. Pending'
      BY <1>3, Orders DEF Pending, Servers
    <2>2. Started \subseteq Started'
      BY <1>3 DEF Started, Servers
    <2>3. \/ dnsReady' = dnsReady
          \/ dnsReady' = dnsReady + 1 /\ s \in Started' \ Started
      <3>1. CASE srv[s] = "serving"
        BY <1>3, <3>1
      <3>2. CASE srv[s] = "spawned"
        BY <1>3, <3>2 DEF Started, Servers
      <3> QED
        BY <1>3, <3>1, <3>2
    <2> QED
      BY <1>3, <2>1, <2>2, <2>3, StartedCounts
  <1>4. ASSUME ~StartServer, \A s \in Servers : ~Serves(s) /\ ~ServerEnds(s)
        PROVE  Pending' /\ Counted'
    <2>1. Quiet
      BY <1>4, NoneStarts
    <2>2. Started \subseteq Started'
      <3> SUFFICES ASSUME NEW s \in Dns, srv[s] \notin {"none", "spawned"}
                   PROVE  srv'[s] \notin {"none", "spawned"}
        BY DEF Started
      <3>1. s \in Servers /\ s \notin Proxies
        BY Orders DEF Servers
      <3>2. srv'[s] = srv[s] \/ Moves(s)
        BY <2>1, <3>1 DEF Quiet
      <3> QED
        BY <3>1, <3>2 DEF Moves
    <2>3. Pending'
      <3>1. CASE Stays
        BY <2>1, <3>1, Orders DEF Quiet, Moves, Stays, Pending, Servers
      <3>2. CASE Enters
        BY <3>2, Orders DEF Enters, Pending, Untouched, Servers
      <3> QED
        BY <2>1, <3>1, <3>2 DEF Quiet, Pending
    <2> QED
      BY <2>1, <2>2, <2>3, StartedCounts DEF Quiet
  <1> QED
    BY <1>1, <1>2, <1>3, <1>4

(* The counter of readyz is right at every moment of Start.                *)
LEMMA AlwaysCounted == ASSUME IsFiniteSet(Dns) PROVE Spec => [](Pending /\ Counted)
  <1>1. Init => Pending /\ Counted
    <2> SUFFICES ASSUME Init PROVE Pending /\ Counted
      OBVIOUS
    <2>1. Started = {}
      BY DEF Init, Started, Servers
    <2> QED
      BY <2>1, FS_EmptySet DEF Init, Pending, Counted
  <1>2. IInv /\ IInv' /\ [Next]_vars /\ Pending /\ Counted => (Pending /\ Counted)'
    BY CountingSteps
  <1> QED
    BY <1>1, <1>2, Invariance, PTL DEF Spec

(* However many DNS servers there are, when readyz answers at least two of *)
(* them have started: no server is counted twice, and none before its time.*)
TwoHaveStarted == Ready => Cardinality(Started) >= 2

THEOREM ReadinessCountsTwo == ASSUME IsFiniteSet(Dns) PROVE Spec => []TwoHaveStarted
  <1>1. ASSUME IInv, Counted PROVE TwoHaveStarted
    <2>1. Cardinality(Started) \in Nat
      BY FS_Subset, FS_CardinalityType DEF Started
    <2> QED
      BY <1>1, <2>1 DEF TwoHaveStarted, Ready, Counted, IInv, TypeOK
  <1> QED
    BY <1>1, AlwaysCounted, Invariance, PTL

(* With two DNS servers, as without DNS over TLS, readyz answers only when *)
(* each of them has started.                                               *)
THEOREM ReadinessIsMeant ==
  ASSUME IsFiniteSet(Dns), Cardinality(Dns) <= 2
  PROVE  Spec => []ReadyMeansStarted
  <1>1. ASSUME TwoHaveStarted PROVE ReadyMeansStarted
    <2> SUFFICES ASSUME Ready PROVE \A s \in Dns : s \in Started
      BY DEF ReadyMeansStarted, Started
    <2>1. /\ Cardinality(Started) <= Cardinality(Dns)
          /\ Cardinality(Dns) = Cardinality(Started) => Dns = Started
          /\ IsFiniteSet(Started)
      BY FS_Subset DEF Started
    <2>2. Cardinality(Started) \in Nat /\ Cardinality(Dns) \in Nat
      BY <2>1, FS_CardinalityType
    <2>3. Cardinality(Dns) = Cardinality(Started)
      BY <1>1, <2>1, <2>2 DEF TwoHaveStarted
    <2> QED
      BY <2>1, <2>3
  <1> QED
    BY <1>1, ReadinessCountsTwo, PTL

-----------------------------------------------------------------------------
(* errCh: a goroutine sends once, as it ends.                              *)

Ended == {s \in Servers : srv[s] = "ended"}

ErrorsCounted == errors <= Cardinality(Ended)

(* The proxies are spawned with the first HTTP server, and not again. *)
ProxiesWait == httpReady = 0 => \A p \in Proxies : srv[p] = "none"

LEMMA EndedCounts ==
  ASSUME IsFiniteSet(Servers), TypeOK, TypeOK', ErrorsCounted, Ended \subseteq Ended',
         \/ errors' <= errors
         \/ errors' = errors + 1 /\ Ended' # Ended
  PROVE  ErrorsCounted'
  <1>1. IsFiniteSet(Ended')
    BY FS_Subset DEF Ended
  <1>2. /\ IsFiniteSet(Ended)
        /\ Cardinality(Ended) <= Cardinality(Ended')
        /\ Cardinality(Ended') = Cardinality(Ended) => Ended' = Ended
    BY <1>1, FS_Subset
  <1>3. Cardinality(Ended) \in Nat /\ Cardinality(Ended') \in Nat
    BY <1>1, <1>2, FS_CardinalityType
  <1>4. errors \in Nat /\ errors' \in Nat
    BY DEF TypeOK
  <1> QED
    BY <1>2, <1>3, <1>4 DEF ErrorsCounted

(* In the steps in which no goroutine is spawned, one that has ended stays *)
(* so, one that was not spawned too, and only a report is sent.            *)
Still == /\ httpReady' = httpReady
         /\ \A s \in Servers : srv[s] \in {"none", "ended"} => srv'[s] = srv[s]
         /\ errors' <= errors

LEMMA NoneReports ==
  ASSUME [Next]_vars, ~StartServer, \A s \in Servers : ~ServerReports(s), TypeOK
  PROVE  Still
  <1> USE DEF TypeOK, readyVars, stopVars, MainGoes, Still
  <1>1. CASE UNCHANGED vars
    BY <1>1 DEF vars
  <1>2. ASSUME NEW s \in Servers, StopCloses(s) PROVE Still
    BY <1>2 DEF StopCloses
  <1>3. CASE StopConsole
    BY <1>3 DEF StopConsole
  <1>4. CASE StopFlush
    BY <1>4 DEF StopFlush
  <1>5. CASE Prepare
    BY <1>5 DEF Prepare
  <1>6. CASE Bind
    BY <1>6 DEF Bind
  <1>7. CASE BindFails
    BY <1>7 DEF BindFails
  <1>8. CASE StartWaits
    BY <1>8 DEF StartWaits
  <1>9. CASE WaitEnds
    BY <1>9 DEF WaitEnds
  <1>10. CASE ConsoleRuns
    BY <1>10 DEF ConsoleRuns
  <1>11. CASE QuitDone
    BY <1>11 DEF QuitDone
  <1>12. CASE LoopEnds
    BY <1>12 DEF LoopEnds
  <1>13. CASE MainFails
    BY <1>13 DEF MainFails
  <1>14. CASE MainReturns
    BY <1>14 DEF MainReturns
  <1>15. CASE UserQuits
    BY <1>15 DEF UserQuits
  <1>16. CASE UserInterrupts
    BY <1>16 DEF UserInterrupts
  <1>17. CASE SignalArrives
    BY <1>17 DEF SignalArrives
  <1>18. CASE FatalStops
    BY <1>18 DEF FatalStops
  <1>19. ASSUME NEW s \in Servers, Serves(s) PROVE Still
    BY <1>19 DEF Serves
  <1>20. ASSUME NEW s \in Servers, ServerEnds(s) PROVE Still
    BY <1>20 DEF ServerEnds
  <1>21. ASSUME NEW p \in Proxies, ProxyListens(p) PROVE Still
    BY <1>21 DEF ProxyListens, Servers
  <1>22. ASSUME NEW p \in Proxies, ProxyCannotListen(p) PROVE Still
    BY <1>22 DEF ProxyCannotListen, Servers
  <1>23. ASSUME NEW p \in Proxies, ProxyServes(p) PROVE Still
    BY <1>23 DEF ProxyServes, Servers
  <1> QED
    BY <1>1, <1>2, <1>3, <1>4, <1>5, <1>6, <1>7, <1>8, <1>9, <1>10, <1>11, <1>12,
       <1>13, <1>14, <1>15, <1>16, <1>17, <1>18, <1>19, <1>20, <1>21, <1>22, <1>23
    DEF Next, Main, Stop, Server, Proxy

LEMMA ErrorSteps ==
  ASSUME IsFiniteSet(Servers), IInv, IInv', [Next]_vars, Pending, ProxiesWait, ErrorsCounted
  PROVE  ProxiesWait' /\ ErrorsCounted'
  <1> USE DEF IInv
  <1>1. ASSUME StartServer PROVE ProxiesWait' /\ ErrorsCounted'
    <2> DEFINE s == RegisterOrder[next]
    <2>1. /\ main = "register" /\ next \in 1..Len(RegisterOrder)
          /\ errors' = errors
          /\ httpReady' = IF s \in Web THEN httpReady + 1 ELSE httpReady
      BY <1>1 DEF StartServer, Launch, TypeOK, readyVars
    <2>2. \A t \in Servers :
            srv'[t] = srv[t] \/ t = s \/ (t \in Proxies /\ s \in Web /\ httpReady = 0)
      BY <1>1 DEF StartServer, Launch
    <2>3. s \in Dns \cup Web /\ srv[s] = "none"
      BY <2>1, Orders DEF Pending
    <2>4. Ended \subseteq Ended'
      BY <2>2, <2>3 DEF Ended, ProxiesWait
    <2>5. ErrorsCounted'
      BY <2>1, <2>4, EndedCounts DEF TypeOK
    <2>6. ProxiesWait'
      BY <2>1, <2>2, <2>3, Orders DEF ProxiesWait, TypeOK, Servers
    <2> QED
      BY <2>5, <2>6
  <1>2. ASSUME NEW s \in Servers, ServerReports(s) PROVE ProxiesWait' /\ ErrorsCounted'
    <2> USE DEF TypeOK, ServerReports
    <2>1. ProxiesWait'
      BY <1>2 DEF ProxiesWait, Servers
    <2>2. Ended \subseteq Ended' /\ s \in Ended' \ Ended
      BY <1>2 DEF Ended
    <2>3. errors' = errors \/ errors' = errors + 1
      BY <1>2
    <2> QED
      BY <2>1, <2>2, <2>3, EndedCounts
  <1>3. ASSUME ~StartServer, \A s \in Servers : ~ServerReports(s)
        PROVE  ProxiesWait' /\ ErrorsCounted'
    <2>1. Still
      BY <1>3, NoneReports
    <2>2. Ended \subseteq Ended'
      BY <2>1 DEF Still, Ended
    <2>3. ProxiesWait'
      BY <2>1 DEF Still, ProxiesWait, Servers
    <2> QED
      BY <2>1, <2>2, <2>3, EndedCounts DEF Still
  <1> QED
    BY <1>1, <1>2, <1>3

(* errCh holds eight errors and a process runs seven servers at most: no    *)
(* goroutine is kept from reporting, even if nobody receives.               *)
ErrorsFit == errors <= Cardinality(Servers)

THEOREM ReportsNeverBlock == ASSUME IsFiniteSet(Servers) PROVE Spec => []ErrorsFit
  <1>0. IsFiniteSet(Dns)
    BY FS_Subset DEF Servers
  <1>1. Init => ProxiesWait /\ ErrorsCounted
    <2> SUFFICES ASSUME Init PROVE ProxiesWait /\ ErrorsCounted
      OBVIOUS
    <2>1. Ended = {}
      BY DEF Init, Ended
    <2> QED
      BY <2>1, FS_EmptySet DEF Init, ProxiesWait, ErrorsCounted, Servers
  <1>2. IInv /\ IInv' /\ [Next]_vars /\ Pending /\ ProxiesWait /\ ErrorsCounted
          => (ProxiesWait /\ ErrorsCounted)'
    BY ErrorSteps
  <1>3. ASSUME IInv, ErrorsCounted PROVE ErrorsFit
    <2>1. /\ Cardinality(Ended) <= Cardinality(Servers)
          /\ IsFiniteSet(Ended)
      BY FS_Subset DEF Ended
    <2>2. Cardinality(Ended) \in Nat /\ Cardinality(Servers) \in Nat
      BY <2>1, FS_CardinalityType
    <2> QED
      BY <1>3, <2>1, <2>2 DEF ErrorsCounted, ErrorsFit, IInv, TypeOK
  <1>4. Spec => [](Pending /\ Counted)
    BY <1>0, AlwaysCounted
  <1> QED
    BY <1>1, <1>2, <1>3, <1>4, Invariance, PTL DEF Spec

-----------------------------------------------------------------------------
(* The console.                                                            *)

Looping == main \in {"loop", "quit"}

(* Stop has passed the console by and its event loop runs, with a screen. *)
Orphaned == Looping /\ once \in {"flush", "done"} /\ screen = "ready"

(* An event loop that was there before Stop came to the console. *)
Reached == /\ main \in {"loop", "quit", "returned", "clean"}
           /\ Looping => screen # "none"
           /\ ~Orphaned

LEMMA ReachedStep == ASSUME Reached, [Next]_vars PROVE Reached'
  <1> USE DEF Reached, Looping, Orphaned, MainGoes, stopVars
  <1>1. CASE UNCHANGED vars
    BY <1>1 DEF vars
  <1>2. CASE Stop
    BY <1>2 DEF Stop, StopCloses, StopConsole, StopFlush
  <1>3. CASE Prepare \/ Bind \/ BindFails
    BY <1>3 DEF Prepare, Bind, BindFails
  <1>4. CASE StartServer \/ StartWaits \/ WaitEnds
    BY <1>4 DEF StartServer, Launch, StartWaits, WaitEnds
  <1>5. CASE ConsoleRuns \/ QuitDone
    BY <1>5 DEF ConsoleRuns, QuitDone
  <1>6. CASE LoopEnds \/ MainFails \/ MainReturns
    BY <1>6 DEF LoopEnds, MainFails, MainReturns, CallStop
  <1>7. CASE UserQuits \/ UserInterrupts
    BY <1>7 DEF UserQuits, UserInterrupts, CallStop
  <1>8. CASE SignalArrives \/ FatalStops
    BY <1>8 DEF SignalArrives, FatalStops, CallStop
  <1>9. CASE \E s \in Servers : Server(s)
    BY <1>9 DEF Server, Serves, ServerEnds, ServerReports
  <1>10. CASE \E p \in Proxies : Proxy(p)
    BY <1>10 DEF Proxy, ProxyListens, ProxyCannotListen, ProxyServes
  <1> QED
    BY <1>1, <1>2, <1>3, <1>4, <1>5, <1>6, <1>7, <1>8, <1>9, <1>10 DEF Next, Main

(* The event loop always has a screen, or had one that is gone. *)
Screened == Looping => screen # "none"

(* A Stop that begins while the event loop runs, whoever calls it and       *)
(* whatever it races with, does not leave the loop behind with its screen.  *)
StopReaches == Looping /\ once \in {"new", "closing"} => []~Orphaned

THEOREM StopReachesConsole == Spec => []StopReaches
  <1>1. Init => Screened
    BY DEF Init, Screened, Looping
  <1>2. ASSUME Screened, [Next]_vars PROVE Screened'
    <2> USE DEF Screened, Looping, MainGoes
    <2>1. CASE Main
      BY <1>2, <2>1 DEF Main, Prepare, Bind, BindFails, StartServer, Launch, StartWaits,
         WaitEnds, ConsoleRuns, QuitDone, LoopEnds, MainFails, MainReturns
    <2>2. CASE Stop \/ UserQuits \/ UserInterrupts \/ SignalArrives \/ FatalStops
      BY <1>2, <2>2 DEF Stop, StopCloses, StopConsole, StopFlush, UserQuits, UserInterrupts,
         SignalArrives, FatalStops
    <2>3. CASE (\E s \in Servers : Server(s)) \/ (\E p \in Proxies : Proxy(p))
      BY <1>2, <2>3 DEF Server, Serves, ServerEnds, ServerReports, Proxy, ProxyListens,
         ProxyCannotListen, ProxyServes
    <2> QED
      BY <1>2, <2>1, <2>2, <2>3 DEF Next, vars
  <1>3. Screened /\ Looping /\ once \in {"new", "closing"} => Reached
    BY DEF Screened, Reached, Looping, Orphaned
  <1>4. Reached /\ [Next]_vars => Reached'
    BY ReachedStep
  <1>5. Reached => ~Orphaned
    BY DEF Reached
  <1> QED
    BY <1>1, <1>2, <1>3, <1>4, <1>5, PTL DEF Spec, StopReaches

(* An event loop that Stop has passed by runs on: no signal, no failing     *)
(* server, no quit command and nothing that is under way ends it, only the  *)
(* user's Control-C.                                                        *)
OrphanStays == Orphaned => Orphaned' \/ UserInterrupts

THEOREM OrphansStay == Spec => [][OrphanStays]_vars
  <1>1. ASSUME Next PROVE OrphanStays
    <2> SUFFICES ASSUME Orphaned, ~UserInterrupts PROVE Orphaned'
      BY DEF OrphanStays
    <2> USE DEF Orphaned, Looping, MainGoes, stopVars
    <2>1. CASE Stop
      BY <2>1 DEF Stop, StopCloses, StopConsole, StopFlush
    <2>2. CASE Prepare \/ Bind \/ BindFails \/ StartServer
      BY <2>2 DEF Prepare, Bind, BindFails, StartServer, Launch
    <2>3. CASE StartWaits \/ WaitEnds \/ ConsoleRuns \/ QuitDone
      BY <2>3 DEF StartWaits, WaitEnds, ConsoleRuns, QuitDone
    <2>4. CASE LoopEnds \/ MainFails \/ MainReturns
      BY <2>4 DEF LoopEnds, MainFails, MainReturns
    <2>5. CASE UserQuits \/ SignalArrives \/ FatalStops
      BY <2>5 DEF UserQuits, SignalArrives, FatalStops, CallStop
    <2>6. CASE \E s \in Servers : Server(s)
      BY <2>6 DEF Server, Serves, ServerEnds, ServerReports
    <2>7. CASE \E p \in Proxies : Proxy(p)
      BY <2>7 DEF Proxy, ProxyListens, ProxyCannotListen, ProxyServes
    <2> QED
      BY <1>1, <2>1, <2>2, <2>3, <2>4, <2>5, <2>6, <2>7 DEF Next, Main
  <1>2. [Next]_vars => [OrphanStays]_vars
    BY <1>1
  <1> QED
    BY <1>2, PTL DEF Spec
=============================================================================
