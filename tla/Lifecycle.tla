----------------------------- MODULE Lifecycle -----------------------------
(***************************************************************************)
(* One process from Start to its exit (lifecycle.go, main.go main): main   *)
(* binds the sockets, registers and starts a server on each, and waits;    *)
(* a termination signal, a server that fails or the user of the console    *)
(* stops everything, each at any moment, Start included.  Stop runs once,  *)
(* whoever calls it, and every caller waits for that run.                  *)
(*                                                                         *)
(* Requests in flight are left out: ShutdownContext and Shutdown wait for  *)
(* them five seconds at most.                                              *)
(***************************************************************************)
EXTENDS Naturals, SequencesExt

CONSTANTS Dns,           \* the DNS servers
          Web,           \* the HTTP servers of the web interface
          Proxies,       \* the proxy servers, each of which binds its own socket
          BindOrder,     \* the order in which Start binds the sockets
          RegisterOrder, \* the order in which it registers and starts the servers
          UseUI          \* does Start open the console?

Servers == Dns \cup Web \cup Proxies

ASSUME ServersOK == /\ Dns # {}
                    /\ Dns \cap Web = {}
                    /\ Proxies \cap (Dns \cup Web) = {}
                    /\ BindOrder \in Seq(Dns \cup Web)
                    /\ RegisterOrder \in Seq(Dns \cup Web)
                    /\ ToSet(BindOrder) = Dns \cup Web
                    /\ ToSet(RegisterOrder) = Dns \cup Web
                    /\ Len(RegisterOrder) = Len(BindOrder)
                    /\ IsInjective(RegisterOrder)

ASSUME UseUIBoolean == UseUI \in BOOLEAN

VARIABLES
  main,        \* where main stands
  next,        \* the next of BindOrder or RegisterOrder
  sock,        \* sock[s]: the socket of server s
  srv,         \* srv[s]: the goroutine that serves it
  registered,  \* d.dnsServers, d.httpServers, d.httpListeners, d.proxyListeners
  once,        \* where the run of Stop stands
  toClose,     \* what Stop has still to close of its copy of the servers
  failure,     \* d.startupErr
  errors,      \* the errors in errCh
  dnsReady,    \* d.dnsReady
  httpReady,   \* d.httpReady
  screen,      \* the console's screen
  signal,      \* the goroutine that waits for a signal
  fatal        \* the goroutine that waits for errCh while the console runs

readyVars == <<failure, dnsReady, httpReady>>
stopVars == <<once, toClose>>
vars == <<main, next, sock, srv, registered, stopVars, readyVars, errors,
          screen, signal, fatal>>

MainPc == {"begin", "bind", "register", "wait", "run", "loop", "quit",
           "failed", "returned", "clean", "killed"}
OncePc == {"new", "closing", "flush", "done"}

TypeOK ==
  /\ main \in MainPc
  /\ next \in 1..(Len(BindOrder) + 1)
  /\ sock \in [Servers -> {"unbound", "open", "closed"}]
  /\ srv \in [Servers -> {"none", "spawned", "bound", "serving", "failing", "ended"}]
  /\ registered \subseteq Servers
  /\ once \in OncePc
  /\ toClose \subseteq Servers
  /\ failure \in {"none", "failed"}
  /\ errors \in Nat
  /\ dnsReady \in Nat
  /\ httpReady \in Nat
  /\ screen \in {"none", "ready", "gone"}
  /\ signal \in {"waiting", "stopping"}
  /\ fatal \in {"none", "waiting", "stopping"}

Init ==
  /\ main = "begin"
  /\ next = 1
  /\ sock = [s \in Servers |-> "unbound"]
  /\ srv = [s \in Servers |-> "none"]
  /\ registered = {}
  /\ once = "new"
  /\ toClose = {}
  /\ failure = "none"
  /\ errors = 0
  /\ dnsReady = 0
  /\ httpReady = 0
  /\ screen = "none"
  /\ signal = "waiting"
  /\ fatal = "none"

(* d.stopped, which Stop sets first of all, with stopCh closed. *)
stopped == once # "new"

Up == main \notin {"clean", "killed"}

MainGoes(from, to) == main = from /\ main' = to

-----------------------------------------------------------------------------
(* Stop.                                                                   *)

(* stopOnce.Do: the first call marks the process stopped and copies what   *)
(* is registered, under stopMu and serversMu; a later one finds it so.     *)
CallStop ==
  IF once = "new"
  THEN once' = "closing" /\ toClose' = registered
  ELSE UNCHANGED stopVars

(* A server is shut down, or, not started yet, its socket closed; the DNS  *)
(* servers first.                                                          *)
StopCloses(s) ==
  /\ Up
  /\ once = "closing"
  /\ s \in toClose
  /\ s \in Dns \/ toClose \cap Dns = {}
  /\ toClose' = toClose \ {s}
  /\ sock' = [sock EXCEPT ![s] = "closed"]
  /\ UNCHANGED <<main, next, srv, registered, once, readyVars,
                 errors, screen, signal, fatal>>

(* A mutant: the console is left alone. *)
KeepConsole ==
  /\ Up
  /\ once = "closing"
  /\ toClose = {}
  /\ once' = "flush"
  /\ UNCHANGED <<main, next, sock, srv, registered, toClose, readyVars, errors,
                 screen, signal, fatal>>

(* ui.app.Stop: the screen goes, and with it the event loop, if it runs.   *)
StopConsole ==
  /\ Up
  /\ once = "closing"
  /\ toClose = {}
  /\ once' = "flush"
  /\ screen' = IF screen = "ready" THEN "gone" ELSE screen
  /\ UNCHANGED <<main, next, sock, srv, registered, toClose,
                 readyVars, errors, signal, fatal>>

(* stopPersistentState returns, and so does every call of Stop. *)
StopFlush ==
  /\ Up
  /\ once = "flush"
  /\ once' = "done"
  /\ UNCHANGED <<main, next, sock, srv, registered, toClose,
                 readyVars, errors, screen, signal, fatal>>

(* SIGINT or SIGTERM; the goroutine of main receives one. *)
SignalArrives ==
  /\ Up
  /\ signal = "waiting"
  /\ signal' = "stopping"
  /\ CallStop
  /\ UNCHANGED <<main, next, sock, srv, registered, readyVars, errors, screen, fatal>>

-----------------------------------------------------------------------------
(* Start, up to the wait.                                                  *)

(* The configuration is validated, the console opened, the certificates    *)
(* read.                                                                   *)
Prepare ==
  /\ \/ MainGoes("begin", "bind")
     \/ MainGoes("begin", "failed")
  /\ \/ UseUI /\ screen' = "ready"
     \/ UNCHANGED screen
  /\ UNCHANGED <<next, sock, srv, registered, stopVars, readyVars, errors, signal, fatal>>

Bind ==
  /\ main = "bind"
  /\ sock' = [sock EXCEPT ![BindOrder[next]] = "open"]
  /\ IF next = Len(BindOrder)
     THEN main' = "register" /\ next' = 1
     ELSE next' = next + 1 /\ UNCHANGED main
  /\ UNCHANGED <<srv, registered, stopVars, readyVars, errors, screen, signal, fatal>>

(* A socket that cannot be bound: those bound before it are closed. *)
BindFails ==
  /\ MainGoes("bind", "failed")
  /\ sock' = [s \in Servers |-> IF sock[s] = "open" THEN "closed" ELSE sock[s]]
  /\ UNCHANGED <<next, srv, registered, stopVars, readyVars, errors, screen, signal, fatal>>

(* A mutant: the server is listed though Stop has made its copy. *)
RegisterLate(s) == /\ registered' = registered \cup {s}
                   /\ UNCHANGED sock

(* registerDNSServer, registerHTTPServer and registerProxyListener: after  *)
(* Stop has begun the server is shut down instead of listed.               *)
Register(s) == IF stopped
               THEN /\ sock' = [sock EXCEPT ![s] = "closed"]
                    /\ UNCHANGED registered
               ELSE /\ registered' = registered \cup {s}
                    /\ UNCHANGED sock

(* Start registers the next server and spawns its goroutine, and those of  *)
(* the proxies before the first HTTP server; counted is dnsReady after it. *)
Launch(counted) ==
  /\ main = "register"
  /\ next <= Len(RegisterOrder)
  /\ LET s == RegisterOrder[next]
         proxies == IF s \in Web /\ httpReady = 0 THEN Proxies ELSE {} IN
       /\ Register(s)
       /\ srv' = [t \in Servers |-> IF t \in {s} \cup proxies THEN "spawned" ELSE srv[t]]
       /\ httpReady' = IF s \in Web THEN httpReady + 1 ELSE httpReady
  /\ next' = next + 1
  /\ dnsReady' = counted
  /\ UNCHANGED <<main, stopVars, failure, errors, screen, signal, fatal>>

(* A mutant: a DNS server is counted ready when it is registered. *)
CountAtOnce ==
  Launch(IF RegisterOrder[next] \in Dns THEN dnsReady + 1 ELSE dnsReady)

StartServer == Launch(dnsReady)

(* Start waits for errCh or stopCh, or hands over to the console. *)
StartWaits ==
  /\ main = "register"
  /\ next > Len(RegisterOrder)
  /\ IF screen = "none"
     THEN main' = "wait" /\ UNCHANGED fatal
     ELSE main' = "run" /\ fatal' = "waiting"
  /\ UNCHANGED <<next, sock, srv, registered, stopVars, readyVars, errors, screen, signal>>

-----------------------------------------------------------------------------
(* The serving goroutines.                                                 *)

(* ActivateAndServe starts the loop and calls markDNSReady; net/http's     *)
(* Serve says nothing.  A socket closed before ends it at once.            *)
Serves(s) ==
  /\ Up
  /\ s \notin Proxies
  /\ srv[s] = "spawned"
  /\ sock[s] = "open"
  /\ srv' = [srv EXCEPT ![s] = "serving"]
  /\ dnsReady' = IF s \in Dns THEN dnsReady + 1 ELSE dnsReady
  /\ UNCHANGED <<main, next, sock, registered, stopVars, failure, httpReady,
                 errors, screen, signal, fatal>>

(* serveHTTPProxy and serveSOCKSProxy bind their own socket. *)
ProxyListens(p) ==
  /\ Up
  /\ srv[p] = "spawned"
  /\ srv' = [srv EXCEPT ![p] = "bound"]
  /\ sock' = [sock EXCEPT ![p] = "open"]
  /\ UNCHANGED <<main, next, registered, stopVars, readyVars, errors, screen, signal, fatal>>

ProxyCannotListen(p) ==
  /\ Up
  /\ srv[p] = "spawned"
  /\ srv' = [srv EXCEPT ![p] = "failing"]
  /\ UNCHANGED <<main, next, sock, registered, stopVars, readyVars, errors,
                 screen, signal, fatal>>

ProxyServes(p) ==
  /\ Up
  /\ srv[p] = "bound"
  /\ srv' = [srv EXCEPT ![p] = "serving"]
  /\ Register(p)
  /\ UNCHANGED <<main, next, stopVars, readyVars, errors, screen, signal, fatal>>

(* A serving loop ends: its socket was closed, before or after it began,   *)
(* or failed by itself.  serveTCP calls markDNSReady before it finds the   *)
(* socket closed; serveUDP does not come so far.                           *)
ServerEnds(s) ==
  /\ Up
  /\ \/ srv[s] = "serving" /\ UNCHANGED dnsReady
     \/ /\ srv[s] = "spawned" /\ s \notin Proxies /\ sock[s] = "closed"
        /\ dnsReady' \in {dnsReady} \cup {dnsReady + 1 : t \in {s} \cap Dns}
  /\ srv' = [srv EXCEPT ![s] = "failing"]
  /\ sock' = [sock EXCEPT ![s] = "closed"]
  /\ UNCHANGED <<main, next, registered, stopVars, failure, httpReady, errors,
                 screen, signal, fatal>>

(* The error goes to errCh and, but for a proxy's, to startupErr, unless   *)
(* the process is stopping.                                                *)
ServerReports(s) ==
  /\ Up
  /\ srv[s] = "failing"
  /\ srv' = [srv EXCEPT ![s] = "ended"]
  /\ IF stopped
     THEN UNCHANGED <<failure, errors>>
     ELSE /\ errors' = errors + 1
          /\ failure' = IF s \in Proxies THEN failure ELSE "failed"
  /\ UNCHANGED <<main, next, sock, registered, stopVars, dnsReady, httpReady,
                 screen, signal, fatal>>

Server(s) == Serves(s) \/ ServerEnds(s) \/ ServerReports(s)

Proxy(p) == ProxyListens(p) \/ ProxyCannotListen(p) \/ ProxyServes(p)

-----------------------------------------------------------------------------
(* The wait and the end.                                                   *)

(* A mutant: the wait is for an error only. *)
WaitForError ==
  /\ errors > 0
  /\ errors' = errors - 1
  /\ MainGoes("wait", "failed")
  /\ UNCHANGED <<next, sock, srv, registered, stopVars, readyVars, screen, signal, fatal>>

(* A mutant: the wait takes an error from errCh even when it is stopped. *)
WaitForBoth ==
  /\ errors > 0 \/ stopped
  /\ errors' = errors - 1
  /\ MainGoes("wait", "failed") \/ MainGoes("wait", "returned")
  /\ UNCHANGED <<next, sock, srv, registered, stopVars, readyVars, screen, signal, fatal>>

(* The select of Start: an error ends it with the error, stopCh without.   *)
WaitEnds ==
  /\ \/ errors > 0 /\ errors' = errors - 1 /\ MainGoes("wait", "failed")
     \/ stopped /\ UNCHANGED errors /\ MainGoes("wait", "returned")
  /\ UNCHANGED <<next, sock, srv, registered, stopVars, readyVars, screen, signal, fatal>>

(* app.Run; without a screen it opens another. *)
ConsoleRuns ==
  /\ MainGoes("run", "loop")
  /\ screen' = "ready"
  /\ UNCHANGED <<next, sock, srv, registered, stopVars, readyVars, errors, signal, fatal>>

(* The user types quit: the command calls Stop inside the event loop, and  *)
(* that is all it does.                                                    *)
UserQuits ==
  /\ screen = "ready"
  /\ MainGoes("loop", "quit")
  /\ CallStop
  /\ UNCHANGED <<next, sock, srv, registered, readyVars, errors, screen, signal, fatal>>

QuitDone ==
  /\ MainGoes("quit", "loop")
  /\ once = "done"
  /\ UNCHANGED <<next, sock, srv, registered, stopVars, readyVars, errors, screen,
                 signal, fatal>>

(* Control-C, which tview turns into app.Stop. *)
UserInterrupts ==
  /\ main = "loop"
  /\ screen = "ready"
  /\ screen' = "gone"
  /\ UNCHANGED <<main, next, sock, srv, registered, stopVars, readyVars, errors,
                 signal, fatal>>

(* The event loop has ended: Start calls Stop and returns. *)
LoopEnds ==
  /\ screen = "gone"
  /\ MainGoes("loop", "returned")
  /\ CallStop
  /\ UNCHANGED <<next, sock, srv, registered, readyVars, errors, screen, signal, fatal>>

(* While the console runs, the first error stops the process. *)
FatalStops ==
  /\ Up
  /\ fatal = "waiting"
  /\ errors > 0
  /\ errors' = errors - 1
  /\ fatal' = "stopping"
  /\ CallStop
  /\ UNCHANGED <<main, next, sock, srv, registered, readyVars, screen, signal>>

(* main, Start having returned an error: os.Exit(1), unless it is stopping. *)
MainFails ==
  /\ IF stopped THEN MainGoes("failed", "returned") ELSE MainGoes("failed", "killed")
  /\ UNCHANGED <<next, sock, srv, registered, stopVars, readyVars, errors, screen,
                 signal, fatal>>

(* A mutant: the deferred Stop does not wait for a run already under way. *)
LeaveAtOnce ==
  /\ MainGoes("returned", "clean")
  /\ CallStop
  /\ UNCHANGED <<next, sock, srv, registered, readyVars, errors, screen, signal, fatal>>

(* The deferred Stop of main is called, and returns. *)
MainReturns ==
  /\ main = "returned"
  /\ IF once = "done"
     THEN main' = "clean" /\ UNCHANGED stopVars
     ELSE once = "new" /\ CallStop /\ UNCHANGED main
  /\ UNCHANGED <<next, sock, srv, registered, readyVars, errors, screen, signal, fatal>>

Stop == (\E s \in Servers : StopCloses(s)) \/ StopConsole \/ StopFlush

Main == \/ Prepare \/ Bind \/ BindFails \/ StartServer \/ StartWaits
        \/ WaitEnds \/ ConsoleRuns \/ QuitDone \/ LoopEnds
        \/ MainFails \/ MainReturns

Next == \/ Stop \/ Main \/ UserQuits \/ UserInterrupts
        \/ SignalArrives \/ FatalStops
        \/ \E s \in Servers : Server(s)
        \/ \E p \in Proxies : Proxy(p)

(* Goroutines are scheduled and Stop's waits are bounded.  No signal need  *)
(* come, no server need fail, and the user of the console may do nothing.  *)
Spec == Init /\ [][Next]_vars

FairSpec == /\ Spec
            /\ WF_vars(Stop)
            /\ WF_vars(Main)
            /\ WF_vars(FatalStops)
            /\ \A s \in Servers : WF_vars(Serves(s) \/ ServerReports(s))
            /\ \A p \in Proxies : WF_vars(Proxy(p))

-----------------------------------------------------------------------------
(* Properties.                                                             *)

(* Whatever Stop raced with, once it has run nothing is served: no server  *)
(* slips in between its copy of the registered servers and its end.        *)
StoppedIsSilent ==
  once = "done" => \A s \in Servers : ~(srv[s] = "serving" /\ sock[s] = "open")

(* A process that returns from main has flushed its state and closed every *)
(* socket that Start bound, however many callers Stop had.                 *)
CleanExit ==
  main = "clean" => once = "done" /\ \A s \in Dns \cup Web : sock[s] # "open"

(* What handleReadyz answers, upstreams aside. *)
Ready == ~stopped /\ failure = "none" /\ dnsReady >= 2 /\ httpReady >= 1

(* docs/OPERATIONS.md:35: ready means that the loops of the DNS servers    *)
(* have started.  handleReadyz counts to two, so this is about UDP and TCP *)
(* alone: with DNS over TLS, any two of the three would do.                *)
ReadyMeansStarted == Ready => \A s \in Dns : srv[s] \notin {"none", "spawned"}

(* A termination signal ends the process. *)
SignalEndsProcess == signal = "stopping" ~> ~Up

(* Without a console a termination signal, and a server that fails, ends   *)
(* the process, at whatever moment of Start it comes.                      *)
DaemonStops == [](screen = "none") => (signal = "stopping" \/ errors > 0 ~> ~Up)

(* Once the console's event loop runs, whoever calls Stop ends the process,*)
(* a command of the console included.                                      *)
StopEndsConsole == (main \in {"loop", "quit"} /\ once = "closing") ~> ~Up
=============================================================================
