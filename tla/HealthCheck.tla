---------------------------- MODULE HealthCheck ----------------------------
(***************************************************************************)
(* The health check server (pkg/proxy/healthcheck): a listener for every   *)
(* service that wants one, answers from the number of local endpoints.     *)
(* SyncServices and SyncEndpoints hold the lock of the server to their     *)
(* end, ServeHTTP while it reads the number.                               *)
(***************************************************************************)
EXTENDS Naturals

CONSTANTS Services, HealthPorts, NoService

ASSUME NoServiceAssumption ==
  /\ NoService \notin Services /\ NoService \notin HealthPorts
  /\ NoService \notin [port: HealthPorts, endpoints: {0, 1}]

VARIABLES
  hcs,       \* hcs.services: port and endpoints, NoService for none
  listening, \* the open listeners: who listens on the port, NoService for nobody
  busy,      \* ports that other processes of the node listen on
  conns,     \* client connections: a service that accepted one and still serves it
  stuck,     \* the service whose handler keeps the lock for ever, NoService for none
  wanted,    \* history: the services of the last SyncServices
  fresh      \* history: the services a client connected to since then

hvars == <<hcs, listening, busy, conns, stuck, wanted, fresh>>

HealthInit ==
  /\ hcs = [s \in Services |-> NoService]
  /\ listening = [p \in HealthPorts |-> NoService]
  /\ busy \in SUBSET HealthPorts /\ conns = {} /\ stuck = NoService
  /\ wanted = [s \in Services |-> NoService] /\ fresh = {}

\* A service with another port keeps its listener.
KeptByName(new) == {s \in Services : hcs[s] # NoService /\ new[s] # NoService}

\* Services that are not wanted any more, or on another port, are closed.
Kept(new) == {s \in Services : hcs[s] # NoService /\ hcs[s].port = new[s]}

\* One by one, in any order, the others are opened.  Listen fails when the port is
\* taken, and the service is left out.
Opened(new) ==
  LET missing == {s \in Services : new[s] # NoService} \ Kept(new)
      free(p) == p \notin busy /\ \A s \in Kept(new) : hcs[s].port # p
  IN  {opened \in SUBSET {s \in missing : free(new[s])} :
         \A s \in missing : free(new[s]) =>
           \E t \in opened : new[t] = new[s] /\ \A u \in opened : new[u] = new[t] => u = t}

\* The listeners of services that are dropped stay open.
LeavesListeners(new) ==
  /\ stuck = NoService
  /\ \E opened \in Opened(new) :
       /\ hcs' = [s \in Services |->
                    IF s \in Kept(new) THEN hcs[s]
                    ELSE IF s \in opened THEN [port |-> new[s], endpoints |-> 0]
                    ELSE NoService]
       /\ listening' = [p \in HealthPorts |->
                          IF \E s \in opened : new[s] = p THEN CHOOSE s \in opened : new[s] = p
                          ELSE listening[p]]
  /\ wanted' = new /\ fresh' = {}
  /\ UNCHANGED <<busy, conns, stuck>>

SyncServices(new) ==
  /\ stuck = NoService
  /\ \E opened \in Opened(new) :
       /\ hcs' = [s \in Services |->
                    IF s \in Kept(new) THEN hcs[s]
                    ELSE IF s \in opened THEN [port |-> new[s], endpoints |-> 0]
                    ELSE NoService]
       /\ listening' = [p \in HealthPorts |->
                          IF \E s \in opened : new[s] = p THEN CHOOSE s \in opened : new[s] = p
                          ELSE IF listening[p] \in Kept(new) THEN listening[p]
                          ELSE NoService]
  /\ wanted' = new /\ fresh' = {}
  /\ UNCHANGED <<busy, conns, stuck>>

\* Endpoints of unknown services are dropped, services that are not named have none.
SyncEndpoints(new) ==
  /\ stuck = NoService
  /\ hcs' = [s \in Services |->
               IF hcs[s] = NoService THEN NoService ELSE [hcs[s] EXCEPT !.endpoints = new[s]]]
  /\ UNCHANGED <<listening, busy, conns, stuck, wanted, fresh>>

Connect(p) ==
  /\ listening[p] # NoService
  /\ conns' = conns \cup {listening[p]} /\ fresh' = fresh \cup {listening[p]}
  /\ UNCHANGED <<hcs, listening, busy, stuck, wanted>>

Disconnect(s) ==
  /\ s \in conns /\ conns' = conns \ {s}
  /\ UNCHANGED <<hcs, listening, busy, stuck, wanted, fresh>>

\* The number of endpoints is read through the map.  For a service that is gone
\* that panics; net/http recovers the goroutine and closes the connection, and
\* the lock stays taken.
ServeHTTP(s) ==
  /\ s \in conns /\ stuck = NoService
  /\ IF hcs[s] = NoService
     THEN stuck' = s /\ conns' = conns \ {s}
     ELSE UNCHANGED <<stuck, conns>>
  /\ UNCHANGED <<hcs, listening, busy, wanted, fresh>>

OtherListens(p) ==
  /\ listening[p] = NoService /\ p \notin busy /\ busy' = busy \cup {p}
  /\ UNCHANGED <<hcs, listening, conns, stuck, wanted, fresh>>

OtherCloses(p) ==
  /\ p \in busy /\ busy' = busy \ {p} /\ UNCHANGED <<hcs, listening, conns, stuck, wanted, fresh>>

HealthNext ==
  \/ \E new \in [Services -> HealthPorts \cup {NoService}] : SyncServices(new)
  \/ \E new \in [Services -> {0, 1}] : SyncEndpoints(new)
  \/ \E p \in HealthPorts : Connect(p) \/ OtherListens(p) \/ OtherCloses(p)
  \/ \E s \in Services : Disconnect(s) \/ ServeHTTP(s)

HealthSpec == HealthInit /\ [][HealthNext]_hvars

-----------------------------------------------------------------------------

\* Listeners, map and the last SyncServices agree: a service that is served has one
\* listener, on the port that was last asked for, and nothing is left of a service that
\* was closed or has moved, whichever ports other services or processes took meanwhile.
ListenersMatchServices ==
  \A s \in Services :
    IF hcs[s] = NoService THEN \A p \in HealthPorts : listening[p] # s
    ELSE {p \in HealthPorts : listening[p] = s} = {wanted[s]} /\ hcs[s].port = wanted[s]

\* A client can block the server for ever only on a connection that is older than the
\* last SyncServices: closing a listener keeps its connections, but nobody gets a new one
\* to a service that the map does not have.
OnlyOldConnectionsBlock == stuck \notin fresh

=============================================================================
