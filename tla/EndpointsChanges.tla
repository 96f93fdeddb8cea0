-------------------------- MODULE EndpointsChanges --------------------------
(***************************************************************************)
(* pkg/proxy/util/endpoints.go: the pending Endpoints changes, their       *)
(* application to the proxier's endpoints map, and the connections that    *)
(* applying them leaves stale.                                             *)
(***************************************************************************)
EXTENDS ProxyTypes

EndpointsChange ==
  [previous: EndpointsPortMap \cup {Nil}, current: EndpointsPortMap \cup {Nil}]

ASSUME NilEndpointsChangeAssumption == Nil \notin EndpointsChange

EndpointsChangeMap == [SvcNames -> EndpointsChange \cup {Nil}]

NewEndpointsChangeMap == [n \in SvcNames |-> Nil]

NewEndpointsMap == [n \in SvcNames |-> NoEndpointsPorts]

EndpointsPending(items) == {n \in SvcNames : items[n] # Nil}

\* A change that is pending is not brought up to date.
KeepsFirstEndpoints(items, n, previous, current) ==
  LET prev   == endpointsToEndpointsMap(previous)
      cur    == endpointsToEndpointsMap(current)
  IN  [items EXCEPT ![n] = IF items[n] # Nil THEN items[n]
                           ELSE IF prev = cur THEN Nil
                           ELSE [previous |-> prev, current |-> cur]]

EndpointsChangesUpdate(items, n, previous, current) ==
  LET prev   == IF items[n] = Nil THEN endpointsToEndpointsMap(previous)
                                  ELSE items[n].previous
      cur    == endpointsToEndpointsMap(current)
  IN  [items EXCEPT ![n] = IF prev = cur
                           THEN Nil
                           ELSE [previous |-> prev, current |-> cur]]

EpUnmerge(ports, other) ==
  [p \in PortNames |-> IF p \in EpPortsOf(other) THEN {} ELSE ports[p]]

EpMerge(ports, other) ==
  [p \in PortNames |-> IF p \in EpPortsOf(other) THEN other[p] ELSE ports[p]]

\* The items are applied and stay in the change map.
UpdateEndpointsMap(endpointsMap, items) ==
  [n \in SvcNames |->
    IF items[n] = Nil
    THEN endpointsMap[n]
    ELSE EpMerge(EpUnmerge(endpointsMap[n], items[n].previous),
                 items[n].current)]

-----------------------------------------------------------------------------
(* detectStaleConnections *)

EndpointsAt(m, p) == IF m = Nil THEN {} ELSE m[p]

EndpointServicePair == [ip: IPs, svc: ServicePortNames]

\* Endpoints an item removes, or re-adds with another port or locality; only
\* the address part of the pair is used when it is flushed.
StaleEndpoints(items) ==
  UNION {{[ip |-> e.ip, svc |-> sp] :
             e \in EndpointsAt(items[sp[1]].previous, sp[2])
                     \ EndpointsAt(items[sp[1]].current, sp[2])} :
         sp \in {sp \in ServicePortNames : items[sp[1]] # Nil}}

\* Service ports whose backends go from none to some.
StaleServiceNames(items) ==
  {sp \in ServicePortNames :
     /\ items[sp[1]] # Nil
     /\ EndpointsAt(items[sp[1]].current, sp[2]) # {}
     /\ EndpointsAt(items[sp[1]].previous, sp[2]) = {}}

=============================================================================
