-------------------------- MODULE ServerLifecycle --------------------------
(***************************************************************************)
(* The TCP server from Start to process exit: binding the listeners, one   *)
(* accept loop per listener, one goroutine per accepted socket with its    *)
(* read deadline, and the shutdown that closes the listeners and waits for *)
(* the connections.                                                        *)
(*                                                                         *)
(* Processes: the caller (main, or an embedding test), the goroutine that  *)
(* runs Start, the accept loops, the connections, and the devices.  Time   *)
(* is a Tick that ages every armed timer; all that is used of the real     *)
(* durations is that the drain's 30 s is shorter than the 5 min deadline.  *)
(***************************************************************************)
EXTENDS Naturals, FiniteSets

CONSTANTS
  Ports,         \* the bootstrap port and the ports of the SC tenants
  Bootstrap,     \* the bootstrap port
  Conns,         \* device sockets: bounds the connections
  Callers,       \* who may run the server: "main", "test"
  ReadTimeout,   \* ticks of a read deadline
  DrainTimeout   \* ticks Stop waits for the connections

ASSUME ServerAssumption ==
  /\ Bootstrap \in Ports
  /\ IsFiniteSet(Conns)
  /\ Callers \subseteq {"main", "test"}
  /\ DrainTimeout \in Nat \ {0}
  /\ ReadTimeout \in Nat /\ DrainTimeout < ReadTimeout

VARIABLES
  main,       \* the caller
  drain,      \* how Stop's wait ended, and how long it has lasted
  ctxDone,    \* the serving context is cancelled
  isRunning,  \* Server.isRunning
  starter,    \* the goroutine of Server.Start
  unbound,    \* the ports Start has still to bind
  listeners,  \* Server.listeners
  open,       \* the ports the process listens on
  loop,       \* loop[p]: the accept loop of port p
  wg,         \* Server.wg
  conn,       \* conn[k]: what becomes of socket k
  port,       \* port[k]: the port k was opened to
  sock,       \* sock[k]: fsip2's end of the socket
  hungUp,     \* hungUp[k]: the device closed its end
  armed,      \* armed[k]: age of the read deadline
  quiet,      \* quiet[k]: time since the last message from the device
  closedBy,   \* closedBy[k]: closeReason's verdict
  caller,     \* main.go, or a test with a stop context of its own
  hasTenant   \* some tenant is configured, so that a default one exists

fixed == <<caller, hasTenant>>
callerVars == <<main, drain>>
startVars == <<starter, unbound, listeners>>
timers == <<armed, quiet>>
connVars == <<conn, port, sock, hungUp, armed, quiet, closedBy>>
vars == <<main, drain, ctxDone, isRunning, starter, unbound, listeners, open, loop,
          wg, conn, port, sock, hungUp, armed, quiet, closedBy, caller, hasTenant>>

(* main.go cancels the serving context before it calls Stop with it. *)
CancelsFirst == caller = "main"

(* Once main returns, nothing of the process runs. *)
Running == main # "exited"

(* Counted in the wait group. *)
Counted == {k \in Conns : conn[k] \in
              {"resolving", "polling", "reading", "handling", "answering", "apologizing",
               "closing", "loggingOut"}}

(* Connections whose Handle has returned or never ran. *)
Over == {k \in Conns : conn[k] \in {"absent", "queued", "refused", "gone"}}

---------------------------------------------------------------------------
Init ==
  /\ main = "up"
  /\ drain = [ended |-> "no", age |-> 0, late |-> {}]
  /\ ctxDone = FALSE
  /\ isRunning = FALSE
  /\ starter = "unstarted"
  /\ unbound = Ports
  /\ listeners = {}
  /\ open = {}
  /\ loop = [p \in Ports |-> "off"]
  /\ wg = 0
  /\ conn = [k \in Conns |-> "absent"]
  /\ port = [k \in Conns |-> Bootstrap]
  /\ sock = [k \in Conns |-> "none"]
  /\ hungUp = [k \in Conns |-> FALSE]
  /\ armed = [k \in Conns |-> 0]
  /\ quiet = [k \in Conns |-> 0]
  /\ closedBy = [k \in Conns |-> "nothing"]
  /\ caller \in Callers
  /\ hasTenant \in BOOLEAN

---------------------------------------------------------------------------
(* Server.Start. *)

StartMarks ==
  /\ Running /\ starter = "unstarted"
  /\ ~isRunning
  /\ starter' = "binding"
  /\ isRunning' = TRUE
  /\ UNCHANGED <<callerVars, ctxDone, unbound, listeners, open, loop, wg, connVars, fixed>>

(* The bootstrap port is bound first, then the others. *)
BindsNext(p) ==
  /\ Running /\ starter = "binding"
  /\ p \in unbound
  /\ Bootstrap \in unbound => p = Bootstrap

BindSucceeds(p) ==
  /\ BindsNext(p)
  /\ unbound' = unbound \ {p}
  /\ listeners' = listeners \cup {p}
  /\ open' = open \cup {p}
  /\ UNCHANGED <<callerVars, ctxDone, isRunning, starter, loop, wg, connVars, fixed>>

(* Mutant: a failed bind leaves the other listeners open. *)
BindFailsHalfWay(p) ==
  /\ BindsNext(p)
  /\ starter' = "failed"
  /\ listeners' = {}
  /\ UNCHANGED <<callerVars, ctxDone, isRunning, unbound, open, loop, wg, connVars, fixed>>

(* The port is taken or the certificate cannot be loaded: the listeners     *)
(* bound so far are closed, the devices in their backlogs are reset, and    *)
(* isRunning stays TRUE.                                                    *)
BindFails(p) ==
  /\ BindsNext(p)
  /\ starter' = "failed"
  /\ listeners' = {}
  /\ open' = open \ listeners
  /\ conn' = [k \in Conns |-> IF conn[k] = "queued" /\ port[k] \in listeners
                              THEN "refused" ELSE conn[k]]
  /\ UNCHANGED <<callerVars, ctxDone, isRunning, unbound, loop, wg, port, sock, hungUp,
                 timers, closedBy, fixed>>

(* Start's own goroutine runs the last accept loop. *)
Serves ==
  /\ Running /\ starter = "binding" /\ unbound = {}
  /\ starter' = "serving"
  /\ loop' = [p \in Ports |-> IF p \in listeners THEN "polling" ELSE loop[p]]
  /\ UNCHANGED <<callerVars, ctxDone, isRunning, unbound, listeners, open, wg, connVars, fixed>>

---------------------------------------------------------------------------
(* acceptLoop. *)

(* Mutant: the accept loop does not look at the context. *)
LoopPollsNothing(p) ==
  /\ Running /\ loop[p] = "polling"
  /\ loop' = [loop EXCEPT ![p] = "accepting"]
  /\ UNCHANGED <<callerVars, ctxDone, isRunning, startVars, open, wg, connVars, fixed>>

LoopPolls(p) ==
  /\ Running /\ loop[p] = "polling"
  /\ loop' = [loop EXCEPT ![p] = IF ctxDone THEN "returned" ELSE "accepting"]
  /\ UNCHANGED <<callerVars, ctxDone, isRunning, startVars, open, wg, connVars, fixed>>

Accepts(p, k) ==
  /\ Running /\ loop[p] = "accepting" /\ p \in open
  /\ conn[k] = "queued" /\ port[k] = p
  /\ loop' = [loop EXCEPT ![p] = "counting"]
  /\ conn' = [conn EXCEPT ![k] = "accepted"]
  /\ sock' = [sock EXCEPT ![k] = "open"]
  /\ UNCHANGED <<callerVars, ctxDone, isRunning, startVars, open, wg, port, hungUp,
                 timers, closedBy, fixed>>

(* Accept returns an error: the listener is closed, or the process is       *)
(* short of descriptors and the loop tries again.                           *)
AcceptFails(p) ==
  /\ Running /\ loop[p] = "accepting"
  /\ loop' = [loop EXCEPT ![p] = IF isRunning THEN "polling" ELSE "returned"]
  /\ UNCHANGED <<callerVars, ctxDone, isRunning, startVars, open, wg, connVars, fixed>>

(* wg.Add(1), then the goroutine; `late' remembers that Stop's wait was     *)
(* over by then.                                                            *)
Counts(p, k) ==
  /\ Running /\ loop[p] = "counting" /\ conn[k] = "accepted" /\ port[k] = p
  /\ wg' = wg + 1
  /\ conn' = [conn EXCEPT ![k] = "resolving"]
  /\ loop' = [loop EXCEPT ![p] = "polling"]
  /\ drain' = IF drain.ended = "no" THEN drain ELSE [drain EXCEPT !.late = @ \cup {k}]
  /\ UNCHANGED <<main, ctxDone, isRunning, startVars, open, port, sock, hungUp, timers,
                 closedBy, fixed>>

---------------------------------------------------------------------------
(* handleConnection and Connection.Handle. *)

(* The goroutine of k ends: wg.Done. *)
Leaves(k) ==
  /\ wg' = wg - 1
  /\ conn' = [conn EXCEPT ![k] = "gone"]

(* Mutant: the early return of handleConnection skips wg.Done. *)
ResolveFailsUncounted(k) ==
  /\ Running /\ conn[k] = "resolving" /\ ~hasTenant
  /\ conn' = [conn EXCEPT ![k] = "gone"]
  /\ UNCHANGED <<callerVars, ctxDone, isRunning, startVars, open, loop, wg, port, sock, hungUp,
                 timers, closedBy, fixed>>

(* No resolver matches and there is no default tenant. *)
ResolveFails(k) ==
  /\ Running /\ conn[k] = "resolving" /\ ~hasTenant
  /\ Leaves(k)
  /\ UNCHANGED <<callerVars, ctxDone, isRunning, startVars, open, loop, port, sock, hungUp,
                 timers, closedBy, fixed>>

(* Handle starts by arming the read deadline. *)
Resolves(k) ==
  /\ Running /\ conn[k] = "resolving" /\ hasTenant
  /\ conn' = [conn EXCEPT ![k] = "polling"]
  /\ armed' = [armed EXCEPT ![k] = 0]
  /\ quiet' = [quiet EXCEPT ![k] = 0]
  /\ UNCHANGED <<callerVars, ctxDone, isRunning, startVars, open, loop, wg, port, sock, hungUp,
                 closedBy, fixed>>

Returns(k, why) ==
  /\ conn' = [conn EXCEPT ![k] = "closing"]
  /\ closedBy' = [closedBy EXCEPT ![k] = why]

(* Mutant: Handle does not look at the context. *)
PollsNothing(k) ==
  /\ Running /\ conn[k] = "polling"
  /\ conn' = [conn EXCEPT ![k] = "reading"]
  /\ UNCHANGED <<callerVars, ctxDone, isRunning, startVars, open, loop, wg, port, sock, hungUp,
                 timers, closedBy, fixed>>

(* The context is looked at between messages only. *)
Polls(k) ==
  /\ Running /\ conn[k] = "polling"
  /\ IF ctxDone
     THEN Returns(k, "context cancelled")
     ELSE conn' = [conn EXCEPT ![k] = "reading"] /\ UNCHANGED closedBy
  /\ UNCHANGED <<callerVars, ctxDone, isRunning, startVars, open, loop, wg, port, sock, hungUp,
                 timers, fixed>>

Reads(k) ==
  /\ Running /\ conn[k] = "reading"
  /\ conn' = [conn EXCEPT ![k] = "handling"]
  /\ quiet' = [quiet EXCEPT ![k] = 0]
  /\ UNCHANGED <<callerVars, ctxDone, isRunning, startVars, open, loop, wg, port, sock, hungUp,
                 armed, closedBy, fixed>>

(* The device closed its end, the deadline passed, or the message is longer *)
(* than maxSIP2MessageBytes.                                                *)
ReadFails(k) ==
  /\ Running /\ conn[k] = "reading"
  /\ \/ hungUp[k] /\ Returns(k, "client closed")
     \/ armed[k] = ReadTimeout /\ Returns(k, "read timeout")
     \/ Returns(k, "error")
  /\ UNCHANGED <<callerVars, ctxDone, isRunning, startVars, open, loop, wg, port, sock, hungUp,
                 timers, fixed>>

(* processMessage returns a response, to be written. *)
Handles(k) ==
  /\ Running /\ conn[k] = "handling"
  /\ conn' = [conn EXCEPT ![k] = "answering"]
  /\ UNCHANGED <<callerVars, ctxDone, isRunning, startVars, open, loop, wg, port, sock, hungUp,
                 timers, closedBy, fixed>>

(* processMessage fails: an error response is tried, if one can be built.   *)
MessageFails(k) ==
  /\ Running /\ conn[k] = "handling"
  /\ \E next \in {"apologizing", "polling"} : conn' = [conn EXCEPT ![k] = next]
  /\ UNCHANGED <<callerVars, ctxDone, isRunning, startVars, open, loop, wg, port, sock, hungUp,
                 timers, closedBy, fixed>>

(* A write has no deadline (SetReadDeadline is the only one that is set): it *)
(* returns when the device reads, or when the socket fails.                 *)

(* The response is written and the deadline armed again. *)
Answers(k) ==
  /\ Running /\ conn[k] = "answering"
  /\ conn' = [conn EXCEPT ![k] = "polling"]
  /\ armed' = [armed EXCEPT ![k] = 0]
  /\ UNCHANGED <<callerVars, ctxDone, isRunning, startVars, open, loop, wg, port, sock, hungUp,
                 quiet, closedBy, fixed>>

(* The response cannot be written. *)
SendFails(k) ==
  /\ Running /\ conn[k] = "answering"
  /\ Returns(k, "error")
  /\ UNCHANGED <<callerVars, ctxDone, isRunning, startVars, open, loop, wg, port, sock, hungUp,
                 timers, fixed>>

(* The error response is written, or cannot be: the next message is read    *)
(* under the old deadline all the same.                                     *)
Apologizes(k) ==
  /\ Running /\ conn[k] = "apologizing"
  /\ conn' = [conn EXCEPT ![k] = "polling"]
  /\ UNCHANGED <<callerVars, ctxDone, isRunning, startVars, open, loop, wg, port, sock, hungUp,
                 timers, closedBy, fixed>>

(* closeAndLogout: the socket first, then the Keycloak session. *)
ClosesSocket(k) ==
  /\ Running /\ conn[k] = "closing"
  /\ conn' = [conn EXCEPT ![k] = "loggingOut"]
  /\ sock' = [sock EXCEPT ![k] = "closed"]
  /\ UNCHANGED <<callerVars, ctxDone, isRunning, startVars, open, loop, wg, port, hungUp,
                 timers, closedBy, fixed>>

(* LogoutTokens is over (its calls have time limits of their own). *)
LogoutEnds(k) ==
  /\ Running /\ conn[k] = "loggingOut"
  /\ Leaves(k)
  /\ UNCHANGED <<callerVars, ctxDone, isRunning, startVars, open, loop, port, sock, hungUp,
                 timers, closedBy, fixed>>

---------------------------------------------------------------------------
(* The caller: main, or a test with contexts of its own, which stops a      *)
(* server that serves.                                                      *)

Shutdown ==
  /\ main = "up"
  /\ CancelsFirst \/ starter = "serving"
  /\ main' = "stopping"
  /\ ctxDone' = CancelsFirst
  /\ UNCHANGED <<drain, isRunning, startVars, open, loop, wg, connVars, fixed>>

(* Stop has nothing to do for a server that is not running. *)
StopMarks ==
  /\ main = "stopping"
  /\ main' = IF isRunning THEN "closing" ELSE "stopped"
  /\ isRunning' = FALSE
  /\ UNCHANGED <<drain, ctxDone, startVars, open, loop, wg, connVars, fixed>>

(* The listeners bound so far are closed; Start may still be binding. *)
StopCloses ==
  /\ main = "closing"
  /\ main' = "draining"
  /\ open' = open \ listeners
  /\ conn' = [k \in Conns |-> IF conn[k] = "queued" /\ port[k] \in listeners
                              THEN "refused" ELSE conn[k]]
  /\ UNCHANGED <<drain, ctxDone, isRunning, startVars, loop, wg, port, sock, hungUp, timers,
                 closedBy, fixed>>

(* Mutant: Stop has no way out but the wait group. *)
StopEndsWhenDrained(how) ==
  /\ main = "draining" /\ wg = 0
  /\ main' = "stopped"
  /\ drain' = [drain EXCEPT !.ended = how]
  /\ UNCHANGED <<ctxDone, isRunning, startVars, open, loop, wg, connVars, fixed>>

StopEnds(how) ==
  /\ main = "draining"
  /\ main' = "stopped"
  /\ drain' = [drain EXCEPT !.ended = how]
  /\ UNCHANGED <<ctxDone, isRunning, startVars, open, loop, wg, connVars, fixed>>

(* Mutant: the wait is reported over before the group is empty. *)
StopDrainedAtOnce == StopEnds("drained")

StopDrained == wg = 0 /\ StopEnds("drained")
StopTimesOut == drain.age = DrainTimeout /\ StopEnds("timeout")

(* The stop context: main's is the serving one, already cancelled; another  *)
(* caller's runs out in time.                                               *)
StopGivesUp == (CancelsFirst => ctxDone) /\ StopEnds("cancelled")

(* Mutant: main waits for a signal only. *)
ExitOnSignal ==
  /\ CancelsFirst
  /\ main = "stopped"
  /\ main' = "exited"
  /\ open' = {}
  /\ sock' = [k \in Conns |-> IF sock[k] = "open" THEN "closed" ELSE sock[k]]
  /\ UNCHANGED <<drain, ctxDone, isRunning, startVars, loop, wg, conn, port, hungUp, timers,
                 closedBy, fixed>>

(* main returns: the process ends and the kernel closes its sockets. *)
Exit ==
  /\ CancelsFirst
  /\ main = "stopped" \/ (main = "up" /\ starter = "failed")
  /\ main' = "exited"
  /\ open' = {}
  /\ sock' = [k \in Conns |-> IF sock[k] = "open" THEN "closed" ELSE sock[k]]
  /\ UNCHANGED <<drain, ctxDone, isRunning, startVars, loop, wg, conn, port, hungUp, timers,
                 closedBy, fixed>>

(* A test cancels the serving context after Stop. *)
CancelsAfter ==
  /\ ~CancelsFirst /\ main = "stopped" /\ ~ctxDone
  /\ ctxDone' = TRUE
  /\ UNCHANGED <<callerVars, isRunning, startVars, open, loop, wg, connVars, fixed>>

---------------------------------------------------------------------------
(* The devices, and time. *)

Connects(k, p) ==
  /\ Running /\ conn[k] = "absent" /\ p \in open
  /\ conn' = [conn EXCEPT ![k] = "queued"]
  /\ port' = [port EXCEPT ![k] = p]
  /\ UNCHANGED <<callerVars, ctxDone, isRunning, startVars, open, loop, wg, sock, hungUp,
                 timers, closedBy, fixed>>

HangsUp(k) ==
  /\ Running /\ sock[k] = "open" /\ ~hungUp[k]
  /\ hungUp' = [hungUp EXCEPT ![k] = TRUE]
  /\ UNCHANGED <<callerVars, ctxDone, isRunning, startVars, open, loop, wg, conn, port, sock,
                 timers, closedBy, fixed>>

Older(n, limit) == IF n < limit THEN n + 1 ELSE n

(* Time passes for the connections that are being served and for a drain. *)
Tick ==
  /\ Running
  /\ LET Served == {k \in Counted : conn[k] # "resolving"} IN
     /\ armed' = [k \in Conns |-> IF k \in Served THEN Older(armed[k], ReadTimeout) ELSE armed[k]]
     /\ quiet' = [k \in Conns |-> IF k \in Served THEN Older(quiet[k], ReadTimeout) ELSE quiet[k]]
  /\ drain' = IF main = "draining"
              THEN [drain EXCEPT !.age = Older(@, DrainTimeout)] ELSE drain
  /\ <<armed', quiet', drain'>> # <<armed, quiet, drain>>
  /\ UNCHANGED <<main, ctxDone, isRunning, startVars, open, loop, wg, conn, port, sock, hungUp,
                 closedBy, fixed>>

---------------------------------------------------------------------------
StartNext == StartMarks \/ Serves \/ \E p \in Ports : BindSucceeds(p) \/ BindFails(p)
LoopNext(p) ==
  LoopPolls(p) \/ AcceptFails(p) \/ \E k \in Conns : Accepts(p, k) \/ Counts(p, k)
ConnNext(k) ==
  \/ ResolveFails(k) \/ Resolves(k) \/ Polls(k) \/ Reads(k) \/ ReadFails(k)
  \/ Handles(k) \/ MessageFails(k) \/ Answers(k) \/ SendFails(k) \/ Apologizes(k)
  \/ ClosesSocket(k) \/ LogoutEnds(k)
CallerNext ==
  \/ Shutdown \/ StopMarks \/ StopCloses \/ StopDrained \/ StopTimesOut \/ StopGivesUp
  \/ Exit \/ CancelsAfter

Next ==
  \/ StartNext
  \/ CallerNext
  \/ \E p \in Ports : LoopNext(p)
  \/ \E k \in Conns : ConnNext(k) \/ HangsUp(k) \/ \E p \in Ports : Connects(k, p)
  \/ Tick

Spec == Init /\ [][Next]_vars

(* The code never stalls on its own: a handler's FOLIO calls, a logout and  *)
(* a bind end, the scheduler runs every goroutine that can run, and time    *)
(* passes.  What devices, signals and a short-of-descriptors kernel do is   *)
(* not fair: they may do it or not.  A read is over at its deadline at the  *)
(* latest; a write is sure to return only to a device that hung up.         *)
StartProgress == StartMarks \/ Serves \/ \E p \in Ports : BindSucceeds(p) \/ BindFails(p)
LoopProgress(p) ==
  \/ LoopPolls(p)
  \/ p \notin open /\ AcceptFails(p)
  \/ \E k \in Conns : Accepts(p, k) \/ Counts(p, k)
ConnProgress(k) ==
  \/ ResolveFails(k) \/ Resolves(k) \/ Polls(k)
  \/ (hungUp[k] \/ armed[k] = ReadTimeout) /\ ReadFails(k)
  \/ Handles(k) \/ MessageFails(k) \/ ClosesSocket(k) \/ LogoutEnds(k)
  \/ hungUp[k] /\ (Answers(k) \/ SendFails(k) \/ Apologizes(k))
CallerProgress ==
  \/ StopMarks \/ StopCloses \/ StopDrained \/ StopTimesOut \/ StopGivesUp
  \/ Exit \/ CancelsAfter

Fairness ==
  /\ WF_vars(StartProgress) /\ WF_vars(CallerProgress) /\ WF_vars(Tick)
  /\ \A p \in Ports : WF_vars(LoopProgress(p))
  /\ \A k \in Conns : WF_vars(ConnProgress(k))

FairSpec == Spec /\ Fairness

---------------------------------------------------------------------------
TypeOK ==
  /\ main \in {"up", "stopping", "closing", "draining", "stopped", "exited"}
  /\ drain \in [ended : {"no", "drained", "timeout", "cancelled"}, age : 0..DrainTimeout,
                late : SUBSET Conns]
  /\ ctxDone \in BOOLEAN /\ isRunning \in BOOLEAN /\ hasTenant \in BOOLEAN /\ caller \in Callers
  /\ starter \in {"unstarted", "binding", "failed", "serving"}
  /\ unbound \subseteq Ports /\ listeners \subseteq Ports /\ open \subseteq Ports
  /\ loop \in [Ports -> {"off", "polling", "accepting", "counting", "returned"}]
  /\ wg \in 0..Cardinality(Conns)
  /\ conn \in [Conns -> {"absent", "queued", "refused", "accepted", "resolving", "polling",
                         "reading", "handling", "answering", "apologizing", "closing",
                         "loggingOut", "gone"}]
  /\ port \in [Conns -> Ports]
  /\ sock \in [Conns -> {"none", "open", "closed"}]
  /\ hungUp \in [Conns -> BOOLEAN]
  /\ armed \in [Conns -> 0..ReadTimeout] /\ quiet \in [Conns -> 0..ReadTimeout]
  /\ closedBy \in [Conns -> {"nothing", "client closed", "read timeout",
                             "context cancelled", "error"}]

(* The wait group counts the connection goroutines exactly, whichever way   *)
(* they end (server.go:157-173): were it too high, no shutdown could drain; *)
(* too low, a drain would leave a live handler behind.                      *)
WaitGroupExact == wg = Cardinality(Counted)

(* A Start that fails half way, a shutdown racing it or not, leaves no port *)
(* bound (server.go:208-215).                                               *)
FailedStartHoldsNoPort == starter = "failed" => open = {}

(* When Stop reports all connections closed, every connection counted by    *)
(* then has closed its socket and logged its session out: the logout is     *)
(* inside the wait group.  A connection counted later is the race of        *)
(* DrainedMeansDone.                                                        *)
DrainedIsLoggedOut ==
  drain.ended = "drained" =>
    \A k \in Conns \ drain.late :
      /\ k \notin Counted
      /\ conn[k] = "gone" /\ hasTenant => sock[k] = "closed"

(* No device is accepted once Stop has returned, even when Stop ran while   *)
(* Start was still binding and so missed a listener.                        *)
AcceptsNone ==
  main \in {"stopped", "exited"} =>
    {k \in Conns : conn'[k] = "accepted"}
      \subseteq {k \in Conns : conn[k] = "accepted"}
NoAcceptAfterStop == [][AcceptsNone]_vars

(* Stop returns, whatever the devices do (server.go:337-344).               *)
StopReturns == main = "stopping" ~> main \in {"stopped", "exited"}

(* A start that fails ends the process (main.go:155-159).                   *)
BindFailureEndsProcess == starter = "failed" /\ CancelsFirst ~> main = "exited"

(* In conn.Write. *)
Writing == {k \in Conns : conn[k] \in {"answering", "apologizing"}}

(* After a Stop whose caller then cancels the serving context, every accept *)
(* loop ends, and every connection goroutine does, however busy or silent   *)
(* its device is, except one that waits for ever in conn.Write for a device *)
(* that neither reads nor hangs up (connection.go:396 has no deadline).     *)
GoroutinesEnd ==
  /\ main = "stopped" ~> ~Running \/ \A p \in Ports : loop[p] \in {"off", "returned"}
  /\ \A k \in Conns :
       main = "stopped" ~> ~Running \/ k \in Over \/ [](k \in Writing /\ ~hungUp[k])

---------------------------------------------------------------------------
(* What server/doc.go says of the server and the code does not do.          *)

(* doc.go:83: "Wait up to 30 seconds for active connections to complete".   *)
DrainWaits ==
  drain.ended = "cancelled" => drain.age = DrainTimeout \/ Counted \subseteq drain.late

(* doc.go:84: "Force close remaining connections after timeout".            *)
ForceClosed ==
  drain.ended = "timeout" => \A k \in Counted \ drain.late : sock[k] = "closed"

(* doc.go:85: "Wait for all goroutines to finish via wait groups".          *)
DrainedMeansDone == drain.ended = "drained" => Counted = {}

(* doc.go:23: "Connection cleanup: close socket, decrement metrics, ...".   *)
CleanupClosesSocket == \A k \in Conns : conn[k] = "gone" => sock[k] = "closed"

(* doc.go:40: "Read timeouts (5 minutes, reset after each message)".        *)
TimeoutMeansQuiet ==
  \A k \in Conns :
    conn[k] = "closing" /\ closedBy[k] = "read timeout" => quiet[k] = ReadTimeout
===========================================================================
