--------------------------- MODULE ServiceAccount ---------------------------
(* What the gateway promises of its service account's Keycloak sessions,    *)
(* without tokens, tenants, credentials and retries.  A session is opened   *)
(* once, is held by one device's connection from then on, is handed to a    *)
(* logout when the connection lets go of it, and is never taken up again;   *)
(* the logout ends that session and no other; and a session that lives on   *)
(* with nobody caring for it has a reason that excuses it.                  *)
CONSTANTS Holders,   \* the connections that may work in a session
          Sessions,
          None       \* no session

VARIABLES opened,    \* the sessions opened so far
          holds,     \* holds[d]: the session that the connection d works in
          leaving,   \* the sessions being logged out
          live,      \* the sessions that do not end by themselves for now
          excused    \* the sessions that somebody else's failure has left behind
vars == <<opened, holds, leaving, live, excused>>

Init ==
  /\ opened = {} /\ leaving = {} /\ live = {} /\ excused = {}
  /\ holds = [d \in Holders |-> None]

(* A connection lets go of its session s, to a logout, or because s is over *)
(* or there is an excuse.                                                   *)
LetsGoOf(s) ==
  \/ s = None /\ UNCHANGED <<leaving, excused>>
  \/ s # None /\ leaving' = leaving \cup {s} /\ UNCHANGED excused
  \/ /\ s # None /\ (s \in live => s \in excused')
     /\ excused' \in {excused, excused \cup {s}} /\ UNCHANGED leaving

Opens(d, s) ==
  /\ s \in Sessions \ opened
  /\ opened' = opened \cup {s} /\ live' = live \cup {s}
  /\ holds' = [holds EXCEPT ![d] = s]
  /\ LetsGoOf(holds[d])

(* The session was opened and nobody will ever know its tokens.             *)
OpensInVain(d, s) ==
  /\ s \in Sessions \ opened
  /\ opened' = opened \cup {s} /\ live' = live \cup {s} /\ excused' = excused \cup {s}
  /\ \/ UNCHANGED <<holds, leaving>>
     \/ /\ holds[d] # None
        /\ holds' = [holds EXCEPT ![d] = None] /\ leaving' = leaving \cup {holds[d]}

Leaves(d) ==
  /\ holds[d] # None
  /\ holds' = [holds EXCEPT ![d] = None] /\ leaving' = leaving \cup {holds[d]}
  /\ UNCHANGED <<opened, live, excused>>

(* Who cares for a session prolongs it, and may not hear of it.             *)
Renews(s) ==
  /\ s \in leaving \/ \E d \in Holders : holds[d] = s
  /\ live' = live \cup {s} /\ excused' \in {excused, excused \cup {s}}
  /\ UNCHANGED <<opened, holds, leaving>>

(* A logout is over: its session is, or there is an excuse.                 *)
LogoutOver(s) ==
  /\ s \in leaving /\ leaving' = leaving \ {s}
  /\ live' \in {live, live \ {s}}
  /\ excused' \in {excused, excused \cup {s}, excused \ {s}}
  /\ s \in live' => s \in excused'
  /\ UNCHANGED <<opened, holds>>

(* A session ends, or comes near its end.                                   *)
Fades(s) ==
  /\ live' = live \ {s} /\ excused' \in {excused, excused \ {s}}
  /\ UNCHANGED <<opened, holds, leaving>>

Next ==
  \/ \E d \in Holders, s \in Sessions : Opens(d, s) \/ OpensInVain(d, s)
  \/ \E d \in Holders : Leaves(d)
  \/ \E s \in Sessions : Renews(s) \/ LogoutOver(s) \/ Fades(s)

Spec == Init /\ [][Next]_vars
=============================================================================
