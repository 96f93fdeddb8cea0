--------------------------- MODULE ServiceChanges ---------------------------
(***************************************************************************)
(* pkg/proxy/util/services.go: the pending Service changes (the change     *)
(* map) and their application to the proxier's service map.                *)
(***************************************************************************)
EXTENDS ProxyTypes

ServiceChange ==
  [previous: ServicePortMap \cup {Nil}, current: ServicePortMap \cup {Nil}]

ASSUME NilServiceChangeAssumption == Nil \notin ServiceChange

ServiceChangeMap == [SvcNames -> ServiceChange \cup {Nil}]

NewServiceChangeMap == [n \in SvcNames |-> Nil]

NewServiceMap == [n \in SvcNames |-> NoServicePorts]

ServicesPending(items) == {n \in SvcNames : items[n] # Nil}

\* Every change fixes what was there before.
ForgetsPrevious(items, n, previous, current) ==
  LET prev   == serviceToServiceMap(previous)
      cur    == serviceToServiceMap(current)
  IN  [items EXCEPT ![n] = IF prev = cur
                           THEN Nil
                           ELSE [previous |-> prev, current |-> cur]]

\* A change that is pending is not brought up to date.
KeepsFirstChange(items, n, previous, current) ==
  LET prev   == serviceToServiceMap(previous)
      cur    == serviceToServiceMap(current)
  IN  [items EXCEPT ![n] = IF items[n] # Nil THEN items[n]
                           ELSE IF prev = cur THEN Nil
                           ELSE [previous |-> prev, current |-> cur]]

\* The first change of a name since the map was last emptied fixes what was
\* there before; every change replaces what is there now; a change that ends
\* where it began is dropped.
ServiceChangesUpdate(items, n, previous, current) ==
  LET prev   == IF items[n] = Nil THEN serviceToServiceMap(previous)
                                  ELSE items[n].previous
      cur    == serviceToServiceMap(current)
  IN  [items EXCEPT ![n] = IF prev = cur
                           THEN Nil
                           ELSE [previous |-> prev, current |-> cur]]

SvcMerge(ports, other) ==
  [p \in PortNames |-> IF p \in SvcPortsOf(other) THEN other[p] ELSE ports[p]]

SvcUnmerge(ports, other, existing) ==
  [p \in PortNames |-> IF p \in SvcPortsOf(other) \ existing THEN Nil
                                                             ELSE ports[p]]

\* The items are applied and stay in the change map.
UpdateServiceMap(serviceMap, items) ==
  [n \in SvcNames |->
    IF items[n] = Nil
    THEN serviceMap[n]
    ELSE SvcUnmerge(SvcMerge(serviceMap[n], items[n].current),
                    items[n].previous, SvcPortsOf(items[n].current))]

\* The cluster IPs of the UDP ports that applying the items removes.
StaleServices(serviceMap, items) ==
  {serviceMap[sp[1]][sp[2]].ip :
     sp \in {sp \in ServicePortNames :
               /\ items[sp[1]] # Nil
               /\ sp[2] \in SvcPortsOf(items[sp[1]].previous)
               /\ sp[2] \notin SvcPortsOf(items[sp[1]].current)
               /\ serviceMap[sp[1]][sp[2]] # Nil
               /\ serviceMap[sp[1]][sp[2]].protocol = "udp"}}

=============================================================================
