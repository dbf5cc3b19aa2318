----------------------- MODULE ServerLifecycle_proofs -----------------------
(***************************************************************************)
(* The safety of the server's life, for any set of ports, any finite set   *)
(* of device sockets, either caller and any length of the two time limits. *)
(***************************************************************************)
EXTENDS ServerLifecycle, FiniteSetTheorems, TLAPS

(* What Start has bound.  Until it fails, every open port is among the     *)
(* listeners, which is what lets Stop and a failing Start close them all;  *)
(* an accept loop runs for a Start that came to its end, and only then.    *)
Bound ==
  /\ starter # "failed" => open \subseteq listeners
  /\ starter # "serving" => \A p \in Ports : loop[p] = "off"

(* How far a shutdown is.  main has cancelled the loops' context before it *)
(* stops anything; another caller stops a server that serves.  Until Stop  *)
(* has looked at it, isRunning tells whether Start has begun.              *)
ShutdownOrder ==
  /\ main \notin {"up", "exited"} => IF CancelsFirst THEN ctxDone ELSE starter = "serving"
  /\ main \in {"up", "stopping"} => (isRunning <=> starter # "unstarted")

(* Once Stop is past the listeners no loop waits on an open one, and none  *)
(* comes back to do so: it would first see the cancelled context.          *)
NobodyAccepts ==
  main \in {"draining", "stopped", "exited"} =>
    /\ \A p \in open : loop[p] # "accepting"
    /\ ~ctxDone => open = {}

(* The socket is closed before the logout and the end of the goroutine,    *)
(* unless there was no tenant to serve it.                                 *)
ClosedFirst ==
  \A k \in Conns : conn[k] \in {"loggingOut", "gone"} /\ hasTenant => sock[k] = "closed"

ServerInv ==
  /\ TypeOK
  /\ WaitGroupExact
  /\ FailedStartHoldsNoPort
  /\ DrainedIsLoggedOut
  /\ Bound
  /\ ShutdownOrder
  /\ NobodyAccepts
  /\ ClosedFirst

---------------------------------------------------------------------------
(* The wait group. *)

(* The connections that are counted are finitely many, whatever they do.    *)
LEMMA CountedFinite ==
  /\ IsFiniteSet(Counted)
  /\ Cardinality(Counted) \in 0..Cardinality(Conns)
<1>1. IsFiniteSet(Conns) /\ Counted \subseteq Conns
  BY ServerAssumption DEF Counted
<1>2. /\ IsFiniteSet(Counted) /\ Cardinality(Counted) <= Cardinality(Conns)
      /\ Cardinality(Conns) \in Nat /\ Cardinality(Counted) \in Nat
  BY <1>1, FS_Subset, FS_CardinalityType
<1> QED
  BY <1>2

(* A socket that goes from one counted state to another, or from one that   *)
(* is not counted to another, leaves the count alone.                       *)
LEMMA CountedSame ==
  ASSUME TypeOK, WaitGroupExact, UNCHANGED wg,
         \A k \in Conns : conn'[k] = conn[k] \/ (k \in Counted /\ k \in Counted')
                                             \/ (k \notin Counted /\ k \notin Counted')
  PROVE  WaitGroupExact'
<1>1. Counted' = Counted
  BY DEF Counted
<1> QED
  BY <1>1 DEF WaitGroupExact

(* A socket that begins to be counted adds one. *)
LEMMA CountedMore ==
  ASSUME WaitGroupExact, NEW k \in Conns, k \notin Counted,
         Counted' = Counted \cup {k}, wg' = wg + 1
  PROVE  WaitGroupExact'
BY CountedFinite, FS_AddElement DEF WaitGroupExact

(* A goroutine that ends takes one away. *)
LEMMA CountedLess ==
  ASSUME TypeOK, WaitGroupExact, NEW k \in Conns, k \in Counted, Leaves(k)
  PROVE  WaitGroupExact'
<1>1. Counted' = Counted \ {k}
  BY DEF TypeOK, Leaves, Counted
<1>2. Cardinality(Counted') = Cardinality(Counted) - 1
  BY <1>1, CountedFinite, FS_RemoveElement
<1> QED
  BY <1>2 DEF Leaves, WaitGroupExact

(* The accept loop counts a socket in that was not counted. *)
LEMMA CountsOne ==
  ASSUME TypeOK, NEW p \in Ports, NEW k \in Conns, Counts(p, k)
  PROVE  k \notin Counted /\ Counted' = Counted \cup {k}
<1>1. conn[k] = "accepted" /\ conn' = [conn EXCEPT ![k] = "resolving"] /\ DOMAIN conn = Conns
  BY DEF Counts, TypeOK
<1> QED
  BY <1>1 DEF Counted

(* What one connection does leaves the process alone, and moves no other.   *)
LEMMA ConnLeaves ==
  ASSUME NEW k \in Conns, ConnNext(k)
  PROVE  /\ UNCHANGED <<callerVars, ctxDone, isRunning, startVars, open, loop, fixed>>
         /\ conn[k] \in {"resolving", "polling", "reading", "handling", "answering", "apologizing",
                        "closing", "loggingOut"}
         /\ \/ Leaves(k)
            \/ /\ UNCHANGED wg
               /\ \E s \in {"polling", "reading", "handling", "answering", "apologizing",
                             "closing", "loggingOut"} :
                    conn' = [conn EXCEPT ![k] = s]
<1>1. CASE ResolveFails(k)
  BY <1>1 DEF ResolveFails
<1>2. CASE Resolves(k)
  BY <1>2 DEF Resolves
<1>3. CASE Polls(k)
  BY <1>3 DEF Polls, Returns
<1>4. CASE Reads(k)
  BY <1>4 DEF Reads
<1>5. CASE ReadFails(k)
  BY <1>5 DEF ReadFails, Returns
<1>6. CASE Answers(k)
  BY <1>6 DEF Answers
<1>7. CASE MessageFails(k)
  BY <1>7 DEF MessageFails, Returns
<1>8. CASE SendFails(k)
  BY <1>8 DEF SendFails, Returns
<1>11. CASE Handles(k)
  BY <1>11 DEF Handles
<1>12. CASE Apologizes(k)
  BY <1>12 DEF Apologizes
<1>9. CASE ClosesSocket(k)
  BY <1>9 DEF ClosesSocket
<1>10. CASE LogoutEnds(k)
  BY <1>10 DEF LogoutEnds
<1> QED
  BY <1>1, <1>2, <1>3, <1>4, <1>5, <1>6, <1>7, <1>8, <1>9, <1>10, <1>11, <1>12 DEF ConnNext

(* Every step keeps the count. *)
LEMMA CountKept ==
  ASSUME TypeOK, WaitGroupExact, [Next]_vars
  PROVE  WaitGroupExact'
<1> USE DEF connVars
<1>0. ASSUME UNCHANGED wg,
             conn' = [k \in Conns |-> IF conn[k] = "queued" /\ port[k] \in listeners
                                      THEN "refused" ELSE conn[k]]
      PROVE  WaitGroupExact'
  BY <1>0, CountedSame DEF Counted
<1>1. CASE StartNext
  <2>1. CASE StartMarks \/ Serves \/ \E p \in Ports : BindSucceeds(p)
    BY <2>1, CountedSame DEF StartMarks, Serves, BindSucceeds
  <2>2. CASE \E p \in Ports : BindFails(p)
    BY <2>2, <1>0 DEF BindFails
  <2> QED
    BY <1>1, <2>1, <2>2 DEF StartNext
<1>2. CASE CallerNext
  <2>1. CASE Shutdown \/ StopMarks \/ Exit \/ CancelsAfter
    BY <2>1, CountedSame DEF Shutdown, StopMarks, Exit, CancelsAfter
  <2>2. CASE StopDrained \/ StopTimesOut \/ StopGivesUp
    BY <2>2, CountedSame DEF StopDrained, StopTimesOut, StopGivesUp, StopEnds
  <2>3. CASE StopCloses
    BY <2>3, <1>0 DEF StopCloses
  <2> QED
    BY <1>2, <2>1, <2>2, <2>3 DEF CallerNext
<1>3. ASSUME NEW p \in Ports, LoopNext(p)
      PROVE  WaitGroupExact'
  <2>1. CASE LoopPolls(p) \/ AcceptFails(p)
    BY <2>1, CountedSame DEF LoopPolls, AcceptFails, connVars
  <2>2. ASSUME NEW k \in Conns, Accepts(p, k)
        PROVE  WaitGroupExact'
    BY <2>2, CountedSame DEF Accepts, Counted, TypeOK
  <2>3. ASSUME NEW k \in Conns, Counts(p, k)
        PROVE  WaitGroupExact'
    <3>1. k \notin Counted /\ Counted' = Counted \cup {k}
      BY <2>3, CountsOne
    <3> QED
      BY <2>3, <3>1, CountedMore DEF Counts
  <2> QED
    BY <1>3, <2>1, <2>2, <2>3 DEF LoopNext
<1>4. ASSUME NEW k \in Conns, ConnNext(k)
      PROVE  WaitGroupExact'
  <2>1. k \in Counted
    BY <1>4, ConnLeaves DEF Counted
  <2>2. CASE Leaves(k)
    BY <2>1, <2>2, CountedLess
  <2>3. CASE /\ UNCHANGED wg
             /\ \E s \in {"polling", "reading", "handling", "answering", "apologizing",
                           "closing", "loggingOut"} :
                  conn' = [conn EXCEPT ![k] = s]
    <3>1. DOMAIN conn = Conns
      BY DEF TypeOK
    <3>2. k \in Counted' /\ \A j \in Conns \ {k} : conn'[j] = conn[j]
      BY <2>3, <3>1 DEF Counted
    <3> QED
      BY <2>1, <2>3, <3>2, CountedSame
  <2> QED
    BY <1>4, <2>2, <2>3, ConnLeaves
<1>5. ASSUME NEW k \in Conns, HangsUp(k) \/ \E p \in Ports : Connects(k, p)
      PROVE  WaitGroupExact'
  <2>1. CASE HangsUp(k)
    BY <2>1, CountedSame DEF HangsUp
  <2>2. ASSUME NEW p \in Ports, Connects(k, p)
        PROVE  WaitGroupExact'
    <3>1. conn' = [conn EXCEPT ![k] = "queued"] /\ conn[k] = "absent" /\ UNCHANGED wg
      BY <2>2 DEF Connects
    <3>2. DOMAIN conn = Conns
      BY DEF TypeOK
    <3>3. k \notin Counted /\ k \notin Counted' /\ \A j \in Conns \ {k} : conn'[j] = conn[j]
      BY <3>1, <3>2 DEF Counted
    <3> QED
      BY <3>1, <3>3, CountedSame
  <2> QED
    BY <1>5, <2>1, <2>2
<1>6. CASE Tick \/ UNCHANGED vars
  BY <1>6, CountedSame DEF Tick, vars
<1> QED
  BY <1>1, <1>2, <1>3, <1>4, <1>5, <1>6 DEF Next

---------------------------------------------------------------------------
(* Types. *)

(* The types of the process, and those of its sockets. *)
ProcessTypes ==
  /\ main \in {"up", "stopping", "closing", "draining", "stopped", "exited"}
  /\ drain \in [ended : {"no", "drained", "timeout", "cancelled"}, age : 0..DrainTimeout,
                late : SUBSET Conns]
  /\ ctxDone \in BOOLEAN /\ isRunning \in BOOLEAN /\ hasTenant \in BOOLEAN /\ caller \in Callers
  /\ starter \in {"unstarted", "binding", "failed", "serving"}
  /\ unbound \subseteq Ports /\ listeners \subseteq Ports /\ open \subseteq Ports
  /\ loop \in [Ports -> {"off", "polling", "accepting", "counting", "returned"}]

SocketTypes ==
  /\ conn \in [Conns -> {"absent", "queued", "refused", "accepted", "resolving", "polling",
                         "reading", "handling", "answering", "apologizing", "closing",
                         "loggingOut", "gone"}]
  /\ port \in [Conns -> Ports]
  /\ sock \in [Conns -> {"none", "open", "closed"}]
  /\ hungUp \in [Conns -> BOOLEAN]
  /\ armed \in [Conns -> 0..ReadTimeout] /\ quiet \in [Conns -> 0..ReadTimeout]
  /\ closedBy \in [Conns -> {"nothing", "client closed", "read timeout",
                             "context cancelled", "error"}]

LEMMA TypesInParts ==
  TypeOK <=> ProcessTypes /\ SocketTypes /\ wg \in 0..Cardinality(Conns)
BY DEF TypeOK, ProcessTypes, SocketTypes

(* Start, the accept loops and the caller keep the process in its types.    *)
LEMMA ProcessTypesKept ==
  ASSUME ProcessTypes, [Next]_vars
  PROVE  ProcessTypes'
<1> USE DEF callerVars, startVars, fixed
<1>1. CASE StartNext
  <2>1. CASE StartMarks \/ Serves
    <3>1. CASE StartMarks
      BY <3>1 DEF StartMarks, ProcessTypes
    <3>2. CASE Serves
      BY <3>2 DEF Serves, ProcessTypes
    <3> QED
      BY <2>1, <3>1, <3>2
  <2>2. CASE \E p \in Ports : BindSucceeds(p) \/ BindFails(p)
    BY <2>2 DEF BindSucceeds, BindFails, BindsNext, ProcessTypes
  <2> QED
    BY <1>1, <2>1, <2>2 DEF StartNext
<1>2. CASE CallerNext
  <2>1. CASE Shutdown \/ StopMarks \/ StopCloses \/ Exit \/ CancelsAfter
    BY <2>1 DEF Shutdown, StopMarks, StopCloses, Exit, CancelsAfter, CancelsFirst, ProcessTypes
  <2>2. CASE StopDrained \/ StopTimesOut \/ StopGivesUp
    BY <2>2 DEF StopDrained, StopTimesOut, StopGivesUp, StopEnds, ProcessTypes
  <2> QED
    BY <1>2, <2>1, <2>2 DEF CallerNext
<1>3. ASSUME NEW p \in Ports, LoopNext(p)
      PROVE  ProcessTypes'
  BY <1>3 DEF LoopNext, LoopPolls, AcceptFails, Accepts, Counts, ProcessTypes
<1>4. ASSUME NEW k \in Conns, ConnNext(k)
      PROVE  ProcessTypes'
  <2>1. UNCHANGED <<callerVars, ctxDone, isRunning, startVars, open, loop, fixed>>
    BY <1>4, ConnLeaves
  <2> QED
    BY <2>1 DEF ProcessTypes
<1>5. ASSUME NEW k \in Conns, HangsUp(k) \/ \E p \in Ports : Connects(k, p)
      PROVE  ProcessTypes'
  BY <1>5 DEF HangsUp, Connects, ProcessTypes
<1>6. CASE Tick
  BY <1>6, ServerAssumption DEF Tick, Older, ProcessTypes
<1>7. CASE UNCHANGED vars
  BY <1>7 DEF vars, ProcessTypes
<1> QED
  BY <1>1, <1>2, <1>3, <1>4, <1>5, <1>6, <1>7 DEF Next

(* Every goroutine keeps the sockets in their types. *)
LEMMA SocketTypesKept ==
  ASSUME SocketTypes, [Next]_vars
  PROVE  SocketTypes'
<1> USE DEF timers, connVars
<1>1. CASE StartNext
  BY <1>1 DEF StartNext, StartMarks, Serves, BindSucceeds, BindFails, SocketTypes
<1>2. CASE CallerNext
  <2>1. CASE Shutdown \/ StopMarks \/ StopCloses \/ CancelsAfter
    BY <2>1 DEF Shutdown, StopMarks, StopCloses, CancelsAfter, SocketTypes
  <2>2. CASE StopDrained \/ StopTimesOut \/ StopGivesUp
    BY <2>2 DEF StopDrained, StopTimesOut, StopGivesUp, StopEnds, SocketTypes
  <2>3. CASE Exit
    BY <2>3 DEF Exit, SocketTypes
  <2> QED
    BY <1>2, <2>1, <2>2, <2>3 DEF CallerNext
<1>3. ASSUME NEW p \in Ports, LoopNext(p)
      PROVE  SocketTypes'
  <2>1. CASE LoopPolls(p) \/ AcceptFails(p)
    BY <2>1 DEF LoopPolls, AcceptFails, SocketTypes
  <2>2. ASSUME NEW k \in Conns, Accepts(p, k)
        PROVE  SocketTypes'
    <3>1. /\ conn' = [conn EXCEPT ![k] = "accepted"] /\ sock' = [sock EXCEPT ![k] = "open"]
          /\ UNCHANGED <<port, hungUp, armed, quiet, closedBy>>
      BY <2>2 DEF Accepts
    <3> QED
      BY <3>1 DEF SocketTypes
  <2>3. ASSUME NEW k \in Conns, Counts(p, k)
        PROVE  SocketTypes'
    <3>1. /\ conn' = [conn EXCEPT ![k] = "resolving"]
          /\ UNCHANGED <<port, sock, hungUp, armed, quiet, closedBy>>
      BY <2>3 DEF Counts
    <3> QED
      BY <3>1 DEF SocketTypes
  <2> QED
    BY <1>3, <2>1, <2>2, <2>3 DEF LoopNext
<1>4. ASSUME NEW k \in Conns, ConnNext(k)
      PROVE  SocketTypes'
  <2>1. 0 \in 0..ReadTimeout
    BY ServerAssumption
  <2>2. CASE ResolveFails(k)
    BY <2>2 DEF ResolveFails, Leaves, SocketTypes
  <2>7. CASE Resolves(k)
    <3>1. /\ conn' = [conn EXCEPT ![k] = "polling"]
          /\ armed' = [armed EXCEPT ![k] = 0] /\ quiet' = [quiet EXCEPT ![k] = 0]
          /\ UNCHANGED <<port, sock, hungUp, closedBy>>
      BY <2>7 DEF Resolves
    <3> QED
      BY <2>1, <3>1 DEF SocketTypes
  <2>3. CASE Reads(k) \/ ReadFails(k)
    <3>1. CASE Reads(k)
      BY <3>1, <2>1 DEF Reads, Returns, SocketTypes
    <3>2. CASE ReadFails(k)
      BY <3>2, <2>1 DEF ReadFails, Returns, SocketTypes
    <3> QED
      BY <2>3, <3>1, <3>2
  <2>6. CASE Polls(k)
    BY <2>6 DEF Polls, Returns, SocketTypes
  <2>4. CASE Answers(k) \/ MessageFails(k) \/ SendFails(k) \/ Handles(k) \/ Apologizes(k)
    <3>1. CASE Answers(k)
      BY <3>1, <2>1 DEF Answers, Returns, SocketTypes
    <3>2. CASE MessageFails(k)
      BY <3>2, <2>1 DEF MessageFails, SocketTypes
    <3>3. CASE SendFails(k)
      BY <3>3, <2>1 DEF SendFails, Returns, SocketTypes
    <3>4. CASE Handles(k)
      BY <3>4 DEF Handles, SocketTypes
    <3>5. CASE Apologizes(k)
      BY <3>5 DEF Apologizes, SocketTypes
    <3> QED
      BY <2>4, <3>1, <3>2, <3>3, <3>4, <3>5
  <2>5. CASE ClosesSocket(k) \/ LogoutEnds(k)
    BY <2>5 DEF ClosesSocket, LogoutEnds, Leaves, SocketTypes
  <2> QED
    BY <1>4, <2>2, <2>3, <2>4, <2>5, <2>6, <2>7 DEF ConnNext
<1>5. ASSUME NEW k \in Conns, HangsUp(k) \/ \E p \in Ports : Connects(k, p)
      PROVE  SocketTypes'
  <2>1. CASE HangsUp(k)
    BY <2>1 DEF HangsUp, SocketTypes
  <2>2. ASSUME NEW p \in Ports, Connects(k, p)
        PROVE  SocketTypes'
    <3>1. /\ conn' = [conn EXCEPT ![k] = "queued"] /\ port' = [port EXCEPT ![k] = p]
          /\ UNCHANGED <<sock, hungUp, armed, quiet, closedBy>>
      BY <2>2 DEF Connects
    <3> QED
      BY <3>1 DEF SocketTypes
  <2> QED
    BY <1>5, <2>1, <2>2
<1>6. CASE Tick
  <2>1. \A n \in 0..ReadTimeout : Older(n, ReadTimeout) \in 0..ReadTimeout
    BY ServerAssumption DEF Older
  <2>2. /\ armed \in [Conns -> 0..ReadTimeout] /\ quiet \in [Conns -> 0..ReadTimeout]
    BY DEF SocketTypes
  <2>3. armed' \in [Conns -> 0..ReadTimeout] /\ quiet' \in [Conns -> 0..ReadTimeout]
    BY <1>6, <2>1, <2>2 DEF Tick
  <2> QED
    BY <1>6, <2>3 DEF Tick, SocketTypes
<1>7. CASE UNCHANGED vars
  BY <1>7 DEF vars, SocketTypes
<1> QED
  BY <1>1, <1>2, <1>3, <1>4, <1>5, <1>6, <1>7 DEF Next

(* The wait group is typed by what it counts. *)
LEMMA TypesKept ==
  ASSUME TypeOK, WaitGroupExact, [Next]_vars
  PROVE  TypeOK'
<1>1. IsFiniteSet(Conns) /\ Counted' \subseteq Conns
  BY ServerAssumption DEF Counted
<1>2. wg' \in 0..Cardinality(Conns)
  BY <1>1, FS_Subset, FS_CardinalityType, CountKept DEF WaitGroupExact
<1>3. ProcessTypes' /\ SocketTypes'
  BY TypesInParts, ProcessTypesKept, SocketTypesKept
<1> QED
  BY <1>2, <1>3 DEF TypeOK, ProcessTypes, SocketTypes

---------------------------------------------------------------------------
(* Start and Stop. *)

(* Only Start changes what is bound and listed; Stop and the exit close.    *)
LEMMA BoundKept ==
  ASSUME TypeOK, Bound, FailedStartHoldsNoPort, [Next]_vars
  PROVE  Bound' /\ FailedStartHoldsNoPort'
<1> USE DEF startVars, Bound, FailedStartHoldsNoPort
<1>1. CASE StartNext
  <2>1. CASE StartMarks \/ Serves
    BY <2>1 DEF StartMarks, Serves
  <2>2. CASE \E p \in Ports : BindSucceeds(p) \/ BindFails(p)
    BY <2>2 DEF BindSucceeds, BindFails, BindsNext
  <2> QED
    BY <1>1, <2>1, <2>2 DEF StartNext
<1>2. CASE CallerNext
  BY <1>2 DEF CallerNext, Shutdown, StopMarks, StopCloses, StopDrained, StopTimesOut,
              StopGivesUp, StopEnds, Exit, CancelsAfter
<1>3. ASSUME NEW p \in Ports, LoopNext(p)
      PROVE  Bound' /\ FailedStartHoldsNoPort'
  BY <1>3 DEF LoopNext, LoopPolls, AcceptFails, Accepts, Counts, TypeOK
<1>4. ASSUME NEW k \in Conns, ConnNext(k)
      PROVE  UNCHANGED <<starter, listeners, open, loop>>
  BY <1>4 DEF ConnNext, ResolveFails, Resolves, Polls, Reads, ReadFails, Answers, MessageFails,
              SendFails, Handles, Apologizes, ClosesSocket, LogoutEnds
<1>5. ASSUME NEW k \in Conns, HangsUp(k) \/ \E p \in Ports : Connects(k, p)
      PROVE  UNCHANGED <<starter, listeners, open, loop>>
  BY <1>5 DEF HangsUp, Connects
<1>6. CASE Tick \/ UNCHANGED vars
  BY <1>6 DEF Tick, vars
<1> QED
  BY <1>1, <1>2, <1>3, <1>4, <1>5, <1>6 DEF Next

(* Stop is reached in order. *)
LEMMA OrderKept ==
  ASSUME TypeOK, ShutdownOrder, [Next]_vars
  PROVE  ShutdownOrder'
<1> USE DEF callerVars, startVars, fixed, ShutdownOrder, CancelsFirst
<1>1. CASE StartNext
  <2>1. CASE StartMarks
    BY <2>1 DEF StartMarks, Running
  <2>2. CASE Serves
    BY <2>2 DEF Serves
  <2>3. CASE \E p \in Ports : BindSucceeds(p)
    BY <2>3 DEF BindSucceeds, BindsNext
  <2>4. CASE \E p \in Ports : BindFails(p)
    BY <2>4 DEF BindFails, BindsNext, Running
  <2> QED
    BY <1>1, <2>1, <2>2, <2>3, <2>4 DEF StartNext
<1>2. CASE CallerNext
  <2>1. CASE Shutdown
    BY <2>1 DEF Shutdown
  <2>2. CASE StopMarks \/ StopCloses
    BY <2>2 DEF StopMarks, StopCloses
  <2>3. CASE StopDrained \/ StopTimesOut \/ StopGivesUp
    BY <2>3 DEF StopDrained, StopTimesOut, StopGivesUp, StopEnds
  <2>4. CASE Exit \/ CancelsAfter
    BY <2>4 DEF Exit, CancelsAfter
  <2> QED
    BY <1>2, <2>1, <2>2, <2>3, <2>4 DEF CallerNext
<1>3. ASSUME NEW p \in Ports, LoopNext(p)
      PROVE  UNCHANGED <<main, ctxDone, isRunning, starter, caller>>
  BY <1>3 DEF LoopNext, LoopPolls, AcceptFails, Accepts, Counts
<1>4. ASSUME NEW k \in Conns, ConnNext(k)
      PROVE  UNCHANGED <<main, ctxDone, isRunning, starter, caller>>
  BY <1>4 DEF ConnNext, ResolveFails, Resolves, Polls, Reads, ReadFails, Answers, MessageFails,
              SendFails, Handles, Apologizes, ClosesSocket, LogoutEnds
<1>5. ASSUME NEW k \in Conns, HangsUp(k) \/ \E p \in Ports : Connects(k, p)
      PROVE  UNCHANGED <<main, ctxDone, isRunning, starter, caller>>
  BY <1>5 DEF HangsUp, Connects
<1>6. CASE Tick \/ UNCHANGED vars
  BY <1>6 DEF Tick, vars
<1> QED
  BY <1>1, <1>2, <1>3, <1>4, <1>5, <1>6 DEF Next

(* Stop closes what its loops wait on.  A listener it missed, because Start *)
(* was still binding, has no loop yet, and its loop finds the context       *)
(* cancelled; nobody but main stops a server that is still binding.         *)
LEMMA NobodyAcceptsKept ==
  ASSUME TypeOK, Bound, ShutdownOrder, NobodyAccepts, [Next]_vars
  PROVE  NobodyAccepts'
<1> USE DEF callerVars, startVars, fixed, NobodyAccepts
<1>1. CASE StartNext
  <2>1. CASE StartMarks
    BY <2>1 DEF StartMarks
  <2>2. CASE Serves
    BY <2>2 DEF Serves, Bound, TypeOK
  <2>3. ASSUME NEW p \in Ports, BindSucceeds(p)
        PROVE  NobodyAccepts'
    BY <2>3 DEF BindSucceeds, BindsNext, Running, Bound, ShutdownOrder, TypeOK
  <2>4. ASSUME NEW p \in Ports, BindFails(p)
        PROVE  NobodyAccepts'
    BY <2>4 DEF BindFails
  <2> QED
    BY <1>1, <2>1, <2>2, <2>3, <2>4 DEF StartNext
<1>2. CASE CallerNext
  <2>1. CASE Shutdown \/ CancelsAfter
    BY <2>1 DEF Shutdown, CancelsAfter
  <2>2. CASE StopMarks
    <3>1. CASE isRunning
      BY <2>2, <3>1 DEF StopMarks
    <3>2. CASE ~isRunning
      <4>1. starter = "unstarted" /\ ctxDone
        BY <2>2, <3>2 DEF StopMarks, ShutdownOrder
      <4> QED
        BY <2>2, <4>1 DEF StopMarks, Bound, TypeOK
    <3> QED
      BY <3>1, <3>2
  <2>3. CASE StopCloses
    <3>1. starter = "serving" => open' = {}
      BY <2>3 DEF StopCloses, Bound
    <3>2. starter # "serving" => ctxDone /\ \A p \in Ports : loop[p] = "off"
      BY <2>3 DEF StopCloses, Bound, ShutdownOrder
    <3> QED
      BY <2>3, <3>1, <3>2 DEF StopCloses, TypeOK
  <2>4. CASE StopDrained \/ StopTimesOut \/ StopGivesUp
    BY <2>4 DEF StopDrained, StopTimesOut, StopGivesUp, StopEnds
  <2>5. CASE Exit
    BY <2>5 DEF Exit
  <2> QED
    BY <1>2, <2>1, <2>2, <2>3, <2>4, <2>5 DEF CallerNext
<1>3. ASSUME NEW p \in Ports, LoopNext(p)
      PROVE  NobodyAccepts'
  <2>1. UNCHANGED <<main, ctxDone, open>>
    BY <1>3 DEF LoopNext, LoopPolls, AcceptFails, Accepts, Counts
  <2>2. \A q \in Ports : loop'[q] = "accepting" => loop[q] = "accepting" \/ ~ctxDone
    <3>1. DOMAIN loop = Ports
      BY DEF TypeOK
    <3>2. CASE LoopPolls(p)
      BY <3>1, <3>2 DEF LoopPolls
    <3>3. CASE AcceptFails(p)
      BY <3>1, <3>3 DEF AcceptFails
    <3>4. ASSUME NEW k \in Conns, Accepts(p, k) \/ Counts(p, k)
          PROVE  \A q \in Ports : loop'[q] = "accepting" => loop[q] = "accepting"
      BY <3>1, <3>4 DEF Accepts, Counts
    <3> QED
      BY <1>3, <3>2, <3>3, <3>4 DEF LoopNext
  <2> QED
    BY <2>1, <2>2 DEF TypeOK
<1>4. ASSUME NEW k \in Conns, ConnNext(k)
      PROVE  UNCHANGED <<main, ctxDone, open, loop>>
  BY <1>4 DEF ConnNext, ResolveFails, Resolves, Polls, Reads, ReadFails, Answers, MessageFails,
              SendFails, Handles, Apologizes, ClosesSocket, LogoutEnds
<1>5. ASSUME NEW k \in Conns, HangsUp(k) \/ \E p \in Ports : Connects(k, p)
      PROVE  UNCHANGED <<main, ctxDone, open, loop>>
  BY <1>5 DEF HangsUp, Connects
<1>6. CASE Tick \/ UNCHANGED vars
  BY <1>6 DEF Tick, vars
<1> QED
  BY <1>1, <1>2, <1>3, <1>4, <1>5, <1>6 DEF Next

---------------------------------------------------------------------------
(* The sockets. *)

(* closeAndLogout closes before it logs out. *)
LEMMA ClosedFirstKept ==
  ASSUME TypeOK, ClosedFirst, [Next]_vars
  PROVE  ClosedFirst'
<1> USE DEF connVars, fixed, ClosedFirst
<1>0. ASSUME UNCHANGED <<sock, hasTenant>>,
             \A k \in Conns : conn'[k] = conn[k] \/ conn'[k] \notin {"loggingOut", "gone"}
      PROVE  ClosedFirst'
  BY <1>0
<1>1. CASE StartNext
  BY <1>0, <1>1 DEF StartNext, StartMarks, Serves, BindSucceeds, BindFails
<1>2. CASE CallerNext
  <2>1. CASE Shutdown \/ StopMarks \/ StopCloses \/ CancelsAfter
    BY <1>0, <2>1 DEF Shutdown, StopMarks, StopCloses, CancelsAfter
  <2>2. CASE StopDrained \/ StopTimesOut \/ StopGivesUp
    BY <1>0, <2>2 DEF StopDrained, StopTimesOut, StopGivesUp, StopEnds
  <2>3. CASE Exit
    BY <2>3 DEF Exit
  <2> QED
    BY <1>2, <2>1, <2>2, <2>3 DEF CallerNext
<1>3. ASSUME NEW p \in Ports, LoopNext(p)
      PROVE  ClosedFirst'
  <2>1. CASE LoopPolls(p) \/ AcceptFails(p)
    BY <1>0, <2>1 DEF LoopPolls, AcceptFails
  <2>2. ASSUME NEW k \in Conns, Accepts(p, k)
        PROVE  ClosedFirst'
    <3>1. /\ conn' = [conn EXCEPT ![k] = "accepted"] /\ sock' = [sock EXCEPT ![k] = "open"]
          /\ UNCHANGED hasTenant
      BY <2>2 DEF Accepts
    <3>2. DOMAIN conn = Conns /\ DOMAIN sock = Conns
      BY DEF TypeOK
    <3> QED
      BY <3>1, <3>2
  <2>3. ASSUME NEW k \in Conns, Counts(p, k)
        PROVE  ClosedFirst'
    <3>1. conn' = [conn EXCEPT ![k] = "resolving"] /\ UNCHANGED <<sock, hasTenant>>
      BY <2>3 DEF Counts
    <3>2. DOMAIN conn = Conns
      BY DEF TypeOK
    <3> QED
      BY <1>0, <3>1, <3>2
  <2> QED
    BY <1>3, <2>1, <2>2, <2>3 DEF LoopNext
<1>4. ASSUME NEW k \in Conns, ConnNext(k)
      PROVE  ClosedFirst'
  <2>1. CASE ResolveFails(k)
    BY <2>1 DEF ResolveFails, Leaves, TypeOK
  <2>2. CASE ClosesSocket(k) \/ LogoutEnds(k)
    <3>1. CASE ClosesSocket(k)
      BY <3>1 DEF ClosesSocket, TypeOK
    <3>2. CASE LogoutEnds(k)
      BY <3>2 DEF LogoutEnds, Leaves, TypeOK
    <3> QED
      BY <2>2, <3>1, <3>2
  <2>3. ASSUME UNCHANGED <<sock, hasTenant>>,
               \E s \in {"polling", "reading", "handling", "answering", "apologizing", "closing"} :
                 conn' = [conn EXCEPT ![k] = s]
        PROVE  ClosedFirst'
    <3>1. \A j \in Conns : conn'[j] = conn[j] \/ conn'[j] \notin {"loggingOut", "gone"}
      BY <2>3 DEF TypeOK
    <3> QED
      BY <1>0, <2>3, <3>1
  <2>4. CASE Resolves(k)
    BY <2>3, <2>4 DEF Resolves
  <2>5. CASE Polls(k)
    BY <2>3, <2>5 DEF Polls, Returns
  <2>6. CASE Reads(k)
    BY <2>3, <2>6 DEF Reads
  <2>7. CASE ReadFails(k)
    BY <2>3, <2>7 DEF ReadFails, Returns
  <2>8. CASE Answers(k)
    BY <2>3, <2>8 DEF Answers
  <2>9. CASE MessageFails(k)
    BY <2>3, <2>9 DEF MessageFails
  <2>10. CASE SendFails(k)
    BY <2>3, <2>10 DEF SendFails, Returns
  <2>11. CASE Handles(k)
    BY <2>3, <2>11 DEF Handles
  <2>12. CASE Apologizes(k)
    BY <2>3, <2>12 DEF Apologizes
  <2> QED
    BY <1>4, <2>1, <2>2, <2>4, <2>5, <2>6, <2>7, <2>8, <2>9, <2>10, <2>11, <2>12 DEF ConnNext
<1>5. ASSUME NEW k \in Conns, HangsUp(k) \/ \E p \in Ports : Connects(k, p)
      PROVE  ClosedFirst'
  <2>1. CASE HangsUp(k)
    BY <1>0, <2>1 DEF HangsUp
  <2>2. ASSUME NEW p \in Ports, Connects(k, p)
        PROVE  ClosedFirst'
    BY <1>0, <2>2 DEF Connects, TypeOK
  <2> QED
    BY <1>5, <2>1, <2>2
<1>6. CASE Tick \/ UNCHANGED vars
  BY <1>0, <1>6 DEF Tick, vars
<1> QED
  BY <1>1, <1>2, <1>3, <1>4, <1>5, <1>6 DEF Next

(* How a step changes the end of Stop's wait and the count: the wait is     *)
(* reported over with nobody counted, and one who is counted after the wait *)
(* is remembered as late.                                                   *)
LEMMA DrainSteps ==
  ASSUME TypeOK, WaitGroupExact, [Next]_vars
  PROVE  /\ drain'.ended = "drained" =>
              drain.ended = "drained" \/ (Counted = {} /\ UNCHANGED conn)
         /\ drain.late \subseteq drain'.late
         /\ \A k \in Counted' \ Counted : drain'.ended = "drained" => k \in drain'.late
<1> USE DEF callerVars, connVars
<1>0. ASSUME UNCHANGED drain, Counted' \subseteq Counted
      PROVE  /\ drain'.ended = drain.ended /\ drain.late \subseteq drain'.late
             /\ Counted' \ Counted = {}
  BY <1>0
<1>1. CASE StartNext
  BY <1>0, <1>1 DEF StartNext, StartMarks, Serves, BindSucceeds, BindFails, Counted
<1>2. CASE CallerNext
  <2>1. CASE Shutdown \/ StopMarks \/ StopCloses \/ Exit \/ CancelsAfter
    BY <1>0, <2>1 DEF Shutdown, StopMarks, StopCloses, Exit, CancelsAfter, Counted
  <2>2. CASE StopTimesOut \/ StopGivesUp
    BY <2>2 DEF StopTimesOut, StopGivesUp, StopEnds, TypeOK, Counted
  <2>3. CASE StopDrained
    <3>1. Counted = {}
      BY <2>3, CountedFinite, FS_EmptySet DEF StopDrained, WaitGroupExact
    <3> QED
      BY <2>3, <3>1 DEF StopDrained, StopEnds, TypeOK, Counted
  <2> QED
    BY <1>2, <2>1, <2>2, <2>3 DEF CallerNext
<1>3. ASSUME NEW p \in Ports, LoopNext(p)
      PROVE  /\ drain'.ended = drain.ended /\ drain.late \subseteq drain'.late
             /\ \A k \in Counted' \ Counted : drain'.ended = "drained" => k \in drain'.late
  <2>1. CASE LoopPolls(p) \/ AcceptFails(p)
    BY <1>0, <2>1 DEF LoopPolls, AcceptFails, Counted
  <2>2. ASSUME NEW k \in Conns, Accepts(p, k)
        PROVE  UNCHANGED drain /\ Counted' \subseteq Counted
    <3>1. conn' = [conn EXCEPT ![k] = "accepted"] /\ UNCHANGED drain
      BY <2>2 DEF Accepts
    <3>2. DOMAIN conn = Conns
      BY DEF TypeOK
    <3> QED
      BY <3>1, <3>2 DEF Counted
  <2>3. ASSUME NEW k \in Conns, Counts(p, k)
        PROVE  /\ drain'.ended = drain.ended /\ drain.late \subseteq drain'.late
               /\ \A j \in Counted' \ Counted : drain'.ended = "drained" => j \in drain'.late
    <3>1. Counted' = Counted \cup {k}
      BY <2>3, CountsOne
    <3> QED
      BY <2>3, <3>1 DEF Counts, TypeOK
  <2> QED
    BY <1>0, <1>3, <2>1, <2>2, <2>3 DEF LoopNext
<1>4. ASSUME NEW k \in Conns, ConnNext(k)
      PROVE  UNCHANGED drain /\ Counted' \subseteq Counted
  <2>1. k \in Counted /\ DOMAIN conn = Conns
    BY <1>4, ConnLeaves DEF Counted, TypeOK
  <2>2. \A j \in Conns \ {k} : conn'[j] = conn[j]
    BY <1>4, <2>1, ConnLeaves DEF Leaves
  <2> QED
    BY <1>4, <2>1, <2>2, ConnLeaves DEF Counted
<1>5. ASSUME NEW k \in Conns, HangsUp(k) \/ \E p \in Ports : Connects(k, p)
      PROVE  UNCHANGED drain /\ Counted' \subseteq Counted
  <2>1. CASE HangsUp(k)
    BY <2>1 DEF HangsUp, Counted
  <2>2. ASSUME NEW p \in Ports, Connects(k, p)
        PROVE  UNCHANGED drain /\ Counted' \subseteq Counted
    <3>1. conn' = [conn EXCEPT ![k] = "queued"] /\ UNCHANGED drain /\ DOMAIN conn = Conns
      BY <2>2 DEF Connects, TypeOK
    <3> QED
      BY <3>1 DEF Counted
  <2> QED
    BY <1>5, <2>1, <2>2
<1>6. CASE Tick
  BY <1>6 DEF Tick, TypeOK, Counted
<1>7. CASE UNCHANGED vars
  BY <1>0, <1>7 DEF vars, Counted
<1> QED
  BY <1>0, <1>1, <1>2, <1>3, <1>4, <1>5, <1>6, <1>7 DEF Next

(* A connection that was over when the wait was reported over stays so. *)
LEMMA DrainedKept ==
  ASSUME TypeOK, WaitGroupExact, DrainedIsLoggedOut, ClosedFirst, [Next]_vars
  PROVE  DrainedIsLoggedOut'
<1> SUFFICES ASSUME drain'.ended = "drained", NEW k \in Conns \ drain'.late
             PROVE  k \notin Counted' /\ (conn'[k] = "gone" /\ hasTenant' => sock'[k] = "closed")
  BY DEF DrainedIsLoggedOut
<1>1. k \notin Counted
  BY DrainSteps DEF DrainedIsLoggedOut
<1>2. k \notin Counted'
  BY <1>1, DrainSteps
<1>3. conn'[k] = "gone" /\ hasTenant' => sock'[k] = "closed"
  BY ClosedFirstKept DEF ClosedFirst
<1> QED
  BY <1>2, <1>3

---------------------------------------------------------------------------
(* The theorems. *)

LEMMA InitServer == Init => ServerInv
<1> SUFFICES ASSUME Init PROVE ServerInv
  OBVIOUS
<1>1. Counted = {}
  BY DEF Init, Counted
<1>2. WaitGroupExact
  BY <1>1, FS_EmptySet DEF Init, WaitGroupExact
<1>3. ProcessTypes
  <2>1. drain \in [ended : {"no", "drained", "timeout", "cancelled"}, age : 0..DrainTimeout,
                   late : SUBSET Conns]
    BY ServerAssumption DEF Init
  <2>2. loop \in [Ports -> {"off", "polling", "accepting", "counting", "returned"}]
    BY DEF Init
  <2> QED
    BY <2>1, <2>2 DEF Init, ProcessTypes
<1>4. SocketTypes
  BY ServerAssumption DEF Init, SocketTypes
<1>5. wg \in 0..Cardinality(Conns)
  BY ServerAssumption, FS_CardinalityType DEF Init
<1>6. FailedStartHoldsNoPort /\ DrainedIsLoggedOut /\ NobodyAccepts
  BY DEF Init, FailedStartHoldsNoPort, DrainedIsLoggedOut, NobodyAccepts
<1>7. Bound /\ ShutdownOrder /\ ClosedFirst
  BY DEF Init, Bound, ShutdownOrder, ClosedFirst
<1> QED
  BY <1>2, <1>3, <1>4, <1>5, <1>6, <1>7, TypesInParts DEF ServerInv

LEMMA StepServer == ServerInv /\ [Next]_vars => ServerInv'
BY CountKept, TypesKept, BoundKept, OrderKept, NobodyAcceptsKept, ClosedFirstKept, DrainedKept
DEF ServerInv

(* The inductive invariant. *)
THEOREM ServerInvariant == Spec => []ServerInv
BY InitServer, StepServer, PTL DEF Spec

(* Every reachable state is type correct (Server and Connection in          *)
(* internal/server).                                                        *)
THEOREM ServerTypes == Spec => []TypeOK
BY ServerInvariant, PTL DEF ServerInv

(* The wait group counts the connection goroutines exactly, for any number  *)
(* of devices and listeners (server.go:157-173).                            *)
THEOREM WaitGroupCounts == Spec => []WaitGroupExact
BY ServerInvariant, PTL DEF ServerInv

(* A Start that fails leaves no port bound, whatever Stop does meanwhile    *)
(* (server.go:208-215).                                                     *)
THEOREM FailedStartIsClean == Spec => []FailedStartHoldsNoPort
BY ServerInvariant, PTL DEF ServerInv

(* "All connections closed" is true of the connections counted by then: the *)
(* socket is closed and the logout over (server.go:332-336).                *)
THEOREM DrainedLoggedOut == Spec => []DrainedIsLoggedOut
BY ServerInvariant, PTL DEF ServerInv

(* No device is accepted once Stop has returned, even on a port that was    *)
(* bound behind its back (server.go:323-330).                               *)
THEOREM StopEndsAccepting == Spec => NoAcceptAfterStop
<1>1. ServerInv /\ [Next]_vars => [AcceptsNone]_vars
  <2> SUFFICES ASSUME ServerInv, [Next]_vars, main \in {"stopped", "exited"},
                      NEW k \in Conns, conn'[k] = "accepted", conn[k] # "accepted"
               PROVE  FALSE
    BY DEF AcceptsNone
  <2> USE DEF ServerInv, connVars
  <2>1. \A p \in Ports, j \in Conns : ~Accepts(p, j)
    BY DEF Accepts, NobodyAccepts
  <2>2. ~StartNext
    BY DEF StartNext, StartMarks, Serves, BindSucceeds, BindFails
  <2>3. ~CallerNext
    <3>1. ~Shutdown /\ ~StopMarks /\ ~StopCloses
      BY DEF Shutdown, StopMarks, StopCloses
    <3>2. ~StopDrained /\ ~StopTimesOut /\ ~StopGivesUp
      BY DEF StopDrained, StopTimesOut, StopGivesUp, StopEnds
    <3>3. ~Exit /\ ~CancelsAfter
      BY DEF Exit, CancelsAfter
    <3> QED
      BY <3>1, <3>2, <3>3 DEF CallerNext
  <2>4. \A p \in Ports : ~LoopNext(p)
    <3> SUFFICES ASSUME NEW p \in Ports, LoopNext(p) PROVE FALSE
      OBVIOUS
    <3>1. CASE LoopPolls(p)
      BY <3>1 DEF LoopPolls
    <3>2. CASE AcceptFails(p)
      BY <3>2 DEF AcceptFails
    <3>3. ASSUME NEW j \in Conns, Counts(p, j)
          PROVE  FALSE
      BY <3>3 DEF Counts, TypeOK
    <3> QED
      BY <2>1, <3>1, <3>2, <3>3 DEF LoopNext
  <2>5. \A j \in Conns : ~ConnNext(j)
    <3> SUFFICES ASSUME NEW j \in Conns, ConnNext(j) PROVE FALSE
      OBVIOUS
    <3>1. \E s \in {"gone", "polling", "reading", "handling", "answering", "apologizing",
                    "closing", "loggingOut"} :
            conn' = [conn EXCEPT ![j] = s]
      BY ConnLeaves DEF Leaves
    <3>2. DOMAIN conn = Conns
      BY DEF TypeOK
    <3> QED
      BY <3>1, <3>2
  <2>6. \A j \in Conns : ~(HangsUp(j) \/ \E p \in Ports : Connects(j, p))
    <3>1. DOMAIN conn = Conns
      BY DEF TypeOK
    <3>2. \A j \in Conns : ~HangsUp(j)
      BY DEF HangsUp
    <3>3. ASSUME NEW j \in Conns, NEW p \in Ports, Connects(j, p)
          PROVE  FALSE
      <4>1. conn' = [conn EXCEPT ![j] = "queued"]
        BY <3>3 DEF Connects
      <4> QED
        BY <3>1, <4>1
    <3> QED
      BY <3>2, <3>3
  <2>7. ~Tick /\ ~UNCHANGED vars
    BY DEF Tick, vars
  <2> QED
    BY <2>2, <2>3, <2>4, <2>5, <2>6, <2>7 DEF Next
<1> QED
  BY <1>1, ServerInvariant, PTL DEF Spec, NoAcceptAfterStop
===========================================================================
