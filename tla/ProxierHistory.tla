--------------------------- MODULE ProxierHistory ---------------------------
(***************************************************************************)
(* Which events the proxier can lose.                                      *)
(*                                                                         *)
(* A sync applies the pending changes to the maps at its start and empties *)
(* the change maps near its end.  History variables record the names with  *)
(* an event in between (late), and the names whose applied change was left *)
(* in the change map by a sync that returned early (applied).  They are    *)
(* added to Proxier without restricting it.                                *)
(***************************************************************************)
EXTENDS ProxierViews

VARIABLES svcApplied, svcLate, epApplied, epLate

histVars == <<svcApplied, svcLate, epApplied, epLate>>

hvars == <<vars, histVars>>

\* From applying the changes to taking the lock under which they are removed.
SvcWindow == stage \in {"endpointsMap", "kernel", "decide", "full", "services"}

EpWindow ==
  stage \in {"kernel", "decide", "full", "services", "serviceItems", "endpoints"}

HInit == Init /\ svcApplied = {} /\ svcLate = {} /\ epApplied = {} /\ epLate = {}

ServiceHistory ==
  /\ svcApplied' = CASE \E t \in Threads : SyncServiceMap(t) -> ServicesPending(serviceChanges)
                     [] ClearServiceItems                    -> {}
                     [] OTHER                                -> svcApplied
  /\ svcLate' = svcLate \cup {n \in SvcNames : /\ svcObj'[n] # svcObj[n]
                                               /\ SvcWindow \/ n \in svcApplied}

EndpointsHistory ==
  /\ epApplied' = CASE SyncEndpointsMap    -> EndpointsPending(endpointsChanges)
                    [] ClearEndpointsItems -> {}
                    [] OTHER               -> epApplied
  /\ epLate' = epLate \cup {n \in SvcNames : /\ epObj'[n] # epObj[n]
                                             /\ EpWindow \/ n \in epApplied}

HNext ==
  /\ Next
  /\ IF crashes' # crashes
     THEN svcApplied' = {} /\ svcLate' = {} /\ epApplied' = {} /\ epLate' = {}
     ELSE ServiceHistory /\ EndpointsHistory

HSpec == HInit /\ [][HNext]_hvars

-----------------------------------------------------------------------------

SvcEntries(m) == IF m = Nil THEN NoServicePorts ELSE m

EpEntries(m) == IF m = Nil THEN NoEndpointsPorts ELSE m

\* The two maps are where the events say they are, for every name without a late
\* event: a map has what the last event said, or what was there before the change
\* that is still to be applied.  So an event is lost only in the window between
\* UpdateServiceMap and the lock, or after a sync that found no dummy link.
MapsExact ==
  /\ \A n \in SvcNames \ svcLate :
       serviceMap[n] =
         IF serviceChanges[n] = Nil \/ n \in svcApplied
         THEN SvcEntries(serviceToServiceMap(svcObj[n]))
         ELSE SvcEntries(serviceChanges[n].previous)
  /\ \A n \in SvcNames \ epLate :
       endpointsMap[n] =
         IF endpointsChanges[n] = Nil \/ n \in epApplied
         THEN EpEntries(endpointsToEndpointsMap(epObj[n]))
         ELSE EpEntries(endpointsChanges[n].previous)

\* A UDP flow to a cluster IP goes to an endpoint that the service port has in the
\* endpoints map, between syncs, when no call failed and no event of the name was
\* late: removing an endpoint removes the flows to it, and no packet brings them
\* back.  It is about Services whose cluster addresses are not handed on: the model's
\* objects give a port number to one port only.
NoStaleClusterFlows ==
  mu = Nil /\ faults = 0 /\ crashes = 0 =>
    \A f \in conntrack : \A sp \in ServicePorts(serviceMap) :
      /\ sp[1] \notin svcLate \cup epLate
      /\ f.ip = InfoOf(sp).ip /\ f.port = InfoOf(sp).port /\ IsUdp(sp)
      /\ f.natIP # Nil
      => \E e \in endpointsMap[sp[1]][sp[2]] : e.ip = f.natIP

\* The keys of the rules that the Service as the last event had it asks for.
ObjectKeys(sp) ==
  LET info == ServiceEntries(svcObj[sp[1]])[sp[2]]
  IN  IF info = Nil THEN {}
      ELSE Keys(info, info.externalIPs, IF info.nodePort = 0 THEN {} ELSE NodeIPs)

\* A rule has the session affinity its Service asks for, although AddIpvsService
\* leaves a rule that exists as it is: between syncs, once every event has been
\* handled and none was late, for keys that only one service port asks for, when
\* no call failed.
AffinityFollowsService ==
  (/\ mu = Nil /\ faults = 0 /\ crashes = 0
   /\ svcLate = {} /\ ServicesPending(serviceChanges) = {}) =>
    \A sp \in ServicePortNames : \A k \in ObjectKeys(sp) :
      /\ \A other \in ServicePortNames \ {sp} : k \notin ObjectKeys(other)
      /\ CreateLibIpvsService(k) \in ipvs.services
      => (CreateLibIpvsService(k) \in ipvs.persistent
            <=> ServiceEntries(svcObj[sp[1]])[sp[2]].affinity)

=============================================================================
