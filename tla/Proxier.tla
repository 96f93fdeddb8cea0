------------------------------- MODULE Proxier -------------------------------
(***************************************************************************)
(* pkg/proxy/ipvs/proxier.go: the informer callbacks, the periodic loop    *)
(* and syncProxyRules, with the kernel state that a sync edits.            *)
(*                                                                         *)
(* The threads are the two informer handlers (one Service event at a time, *)
(* one Endpoints event at a time), the two config goroutines that announce *)
(* that the caches are synced, and the periodic loop.  Each may call       *)
(* syncProxyRules, which runs under the mutex mu and is one action per     *)
(* stretch of code between two points at which another thread, or the      *)
(* kernel's traffic, can be observed.                                      *)
(***************************************************************************)
EXTENDS ServiceChanges, EndpointsChanges, Ipvs, LocalPorts, Conntrack

CONSTANTS
  LocalIPs,     \* addresses of this node's interfaces, the dummy link's apart
  NodeIPs,      \* those of them that GetNodeIPs returns
  ClientIPs,    \* service addresses that clients send UDP packets to
  OtherPorts,   \* local ports that other processes of the node may open
  FaultyCalls,  \* names of the system calls that may fail
  MaxEvents,    \* bound on the informer events of a behaviour
  MaxFaults,    \* bound on the failing system calls
  MaxCrashes    \* bound on the restarts of the process

ASSUME AddressAssumption ==
  NodeIPs \subseteq LocalIPs /\ LocalIPs \subseteq IPs /\ ClientIPs \subseteq IPs

ASSUME OtherPortsAssumption ==
  OtherPorts \subseteq {lp \in LocalPort : lp.desc = "other"}

ASSUME BoundAssumption == MaxEvents \in Nat /\ MaxFaults \in Nat /\ MaxCrashes \in Nat

VARIABLES
  svcObj, epObj,                    \* the objects the handlers were last given
  serviceChanges, endpointsChanges, \* Items of the two change maps
  serviceMap, endpointsMap,
  servicesSynced, endpointsSynced, initialized,
  pc,                               \* where each thread is
  mu,                               \* the thread that holds the mutex, or Nil
  stage,                            \* the part of syncProxyRules that is next
  sync,                             \* the locals of syncProxyRules
  kernelClusterMap,                 \* the dummy link's addresses when last listed
  portsMap,                         \* the local ports held since the last sync
  ipvs, dummy, sockets, conntrack,  \* the kernel
  masq,                             \* the masquerade rule is in iptables
  otherSockets,                     \* sockets of other processes
  events, faults, crashes

objVars    == <<svcObj, epObj>>
changeVars == <<serviceChanges, endpointsChanges>>
mapVars    == <<serviceMap, endpointsMap>>
initVars   == <<servicesSynced, endpointsSynced, initialized>>
ctlVars    == <<pc, mu, stage>>
kernelVars == <<ipvs, dummy, sockets, conntrack, masq>>
boundVars  == <<events, faults, crashes>>
vars == <<objVars, changeVars, mapVars, initVars, ctlVars, sync,
          kernelClusterMap, portsMap, kernelVars, otherSockets, boundVars>>

Threads ==
  {"serviceHandler", "endpointsHandler", "serviceConfig", "endpointsConfig",
   "syncLoop"}

ASSUME NilThreadAssumption == Nil \notin Threads

Places == {"start", "idle", "updated", "sync", "done"}

Stages ==
  {"none", "endpointsMap", "kernel", "decide", "full", "services",
   "serviceItems", "endpoints", "endpointsItems", "finish"}

SyncLocals ==
  [todo: SUBSET ServicePortNames,        \* service ports a loop has left
   items: SUBSET SvcNames,               \* change items a loop has left
   replacementPortsMap: SUBSET LocalPort,
   activeServiceMap: SUBSET ServiceKeys,
   activeBindIP: SUBSET IPs,
   staleServices: SUBSET IPs,
   staleEndpoints: SUBSET EndpointServicePair,
   kernelIpvsMap: [services: SUBSET ServiceKeys,
                   servers: SUBSET [svc: ServiceKeys, dst: Servers]],
   nodeIPs: SUBSET IPs]

NoIpvsMap == [services |-> {}, servers |-> {}]

NoLocals ==
  [todo |-> {}, items |-> {}, replacementPortsMap |-> {},
   activeServiceMap |-> {}, activeBindIP |-> {}, staleServices |-> {},
   staleEndpoints |-> {}, kernelIpvsMap |-> NoIpvsMap, nodeIPs |-> {}]

TypeOK ==
  /\ svcObj \in [SvcNames -> ApiService \cup {Nil}]
  /\ epObj \in [SvcNames -> ApiEndpoints \cup {Nil}]
  /\ serviceChanges \in ServiceChangeMap
  /\ endpointsChanges \in EndpointsChangeMap
  /\ serviceMap \in [SvcNames -> ServicePortMap]
  /\ endpointsMap \in [SvcNames -> EndpointsPortMap]
  /\ servicesSynced \in BOOLEAN
  /\ endpointsSynced \in BOOLEAN
  /\ initialized \in BOOLEAN
  /\ pc \in [Threads -> Places]
  /\ mu \in Threads \cup {Nil}
  /\ stage \in Stages
  /\ sync \in SyncLocals
  /\ kernelClusterMap \in SUBSET IPs
  /\ portsMap \in SUBSET LocalPort
  /\ ipvs \in IpvsTables
  /\ dummy \in SUBSET IPs
  /\ sockets \in SUBSET LocalPort
  /\ conntrack \in SUBSET Flows
  /\ masq \in BOOLEAN
  /\ otherSockets \in SUBSET OtherPorts
  /\ events \in Nat /\ faults \in Nat /\ crashes \in Nat

-----------------------------------------------------------------------------
(* The process as it starts: everything in memory is empty. *)

StartPc == [t \in Threads |-> IF t \in {"serviceHandler", "endpointsHandler"}
                              THEN "idle" ELSE "start"]

Init ==
  /\ svcObj = [n \in SvcNames |-> Nil] /\ epObj = [n \in SvcNames |-> Nil]
  /\ serviceChanges = NewServiceChangeMap
  /\ endpointsChanges = NewEndpointsChangeMap
  /\ serviceMap = NewServiceMap /\ endpointsMap = NewEndpointsMap
  /\ servicesSynced = FALSE /\ endpointsSynced = FALSE /\ initialized = FALSE
  /\ pc = StartPc /\ mu = Nil /\ stage = "none" /\ sync = NoLocals
  /\ kernelClusterMap = {} /\ portsMap = {}
  /\ ipvs = NoIpvs /\ dummy = {} /\ sockets = {} /\ conntrack = {}
  /\ masq = FALSE /\ otherSockets = {}
  /\ events = 0 /\ faults = 0 /\ crashes = 0

\* The process dies (a panic, a kill) and is started again: the kernel closes
\* its sockets and keeps everything else.
Crash ==
  /\ crashes < MaxCrashes /\ crashes' = crashes + 1
  /\ svcObj' = [n \in SvcNames |-> Nil] /\ epObj' = [n \in SvcNames |-> Nil]
  /\ serviceChanges' = NewServiceChangeMap
  /\ endpointsChanges' = NewEndpointsChangeMap
  /\ serviceMap' = NewServiceMap /\ endpointsMap' = NewEndpointsMap
  /\ servicesSynced' = FALSE /\ endpointsSynced' = FALSE /\ initialized' = FALSE
  /\ pc' = StartPc /\ mu' = Nil /\ stage' = "none" /\ sync' = NoLocals
  /\ kernelClusterMap' = {} /\ portsMap' = {} /\ sockets' = {}
  /\ UNCHANGED <<ipvs, dummy, conntrack, masq, otherSockets, events, faults>>

-----------------------------------------------------------------------------
(* A step makes its system calls without a fault, or with one that fails.  A *)
(* call is a tuple: its name and, where it matters, what it was called for. *)

NoFault == <<"none">>

Fault(call) ==
  IF call = NoFault THEN UNCHANGED faults
                    ELSE /\ call[1] \in FaultyCalls
                         /\ faults < MaxFaults /\ faults' = faults + 1

-----------------------------------------------------------------------------
(* Informer callbacks *)

NeverLocked == FALSE

\* The loops over the items hold the lock that Update takes.
ServiceItemsLocked == stage = "serviceItems"

EndpointsItemsLocked == stage = "endpointsItems"

ServiceEvent(n, new) ==
  /\ pc["serviceHandler"] = "idle"
  /\ ~ServiceItemsLocked
  /\ events < MaxEvents /\ events' = events + 1
  /\ svcObj' = [svcObj EXCEPT ![n] = new]
  /\ serviceChanges' = ServiceChangesUpdate(serviceChanges, n, svcObj[n], new)
  /\ pc' = [pc EXCEPT !["serviceHandler"] =
                        IF ServicesPending(serviceChanges') # {} THEN "updated"
                                                                 ELSE "idle"]
  /\ UNCHANGED <<epObj, endpointsChanges, mapVars, initVars, mu, stage, sync,
                 kernelClusterMap, portsMap, kernelVars, otherSockets, faults,
                 crashes>>

OnServiceAdd(n) ==
  svcObj[n] = Nil /\ \E new \in ServiceObjs[n] : ServiceEvent(n, new)

\* The periodic resync of the informer delivers an update with no change.
OnServiceUpdate(n) ==
  svcObj[n] # Nil /\ \E new \in ServiceObjs[n] : ServiceEvent(n, new)

OnServiceDelete(n) == svcObj[n] # Nil /\ ServiceEvent(n, Nil)

EndpointsEvent(n, new) ==
  /\ pc["endpointsHandler"] = "idle"
  /\ ~EndpointsItemsLocked
  /\ events < MaxEvents /\ events' = events + 1
  /\ epObj' = [epObj EXCEPT ![n] = new]
  /\ endpointsChanges' = EndpointsChangesUpdate(endpointsChanges, n, epObj[n], new)
  /\ pc' = [pc EXCEPT !["endpointsHandler"] =
                        IF EndpointsPending(endpointsChanges') # {} THEN "updated"
                                                                    ELSE "idle"]
  /\ UNCHANGED <<svcObj, serviceChanges, mapVars, initVars, mu, stage, sync,
                 kernelClusterMap, portsMap, kernelVars, otherSockets, faults,
                 crashes>>

OnEndpointsAdd(n) ==
  epObj[n] = Nil /\ \E new \in EndpointsObjs[n] : EndpointsEvent(n, new)

OnEndpointsUpdate(n) ==
  epObj[n] # Nil /\ \E new \in EndpointsObjs[n] : EndpointsEvent(n, new)

OnEndpointsDelete(n) == epObj[n] # Nil /\ EndpointsEvent(n, Nil)

\* The second half of every callback: sync if initialized.
isInitialized(t) ==
  /\ pc[t] = "updated"
  /\ pc' = [pc EXCEPT ![t] = IF initialized THEN "sync" ELSE "idle"]
  /\ UNCHANGED <<objVars, changeVars, mapVars, initVars, mu, stage, sync,
                 kernelClusterMap, portsMap, kernelVars, otherSockets, boundVars>>

OnServiceSynced ==
  /\ pc["serviceConfig"] = "start" /\ mu = Nil
  /\ servicesSynced' = TRUE
  /\ initialized' = endpointsSynced
  /\ pc' = [pc EXCEPT !["serviceConfig"] = "sync"]
  /\ UNCHANGED <<objVars, changeVars, mapVars, endpointsSynced, mu, stage, sync,
                 kernelClusterMap, portsMap, kernelVars, otherSockets, boundVars>>

OnEndpointsSynced ==
  /\ pc["endpointsConfig"] = "start" /\ mu = Nil
  /\ endpointsSynced' = TRUE
  /\ pc' = [pc EXCEPT !["endpointsConfig"] = "sync"]
  /\ UNCHANGED <<objVars, changeVars, mapVars, servicesSynced, initialized, mu,
                 stage, sync, kernelClusterMap, portsMap, kernelVars,
                 otherSockets, boundVars>>

-----------------------------------------------------------------------------
(* The periodic loop *)

\* EnsureIPtablesMASQ, before the first tick: if it fails the loop returns.
SyncLoopStart(f) ==
  /\ pc["syncLoop"] = "start"
  /\ Fault(f)
  /\ masq' = (masq \/ f = NoFault)
  /\ pc' = [pc EXCEPT !["syncLoop"] = IF f = NoFault THEN "idle" ELSE "done"]
  /\ UNCHANGED <<objVars, changeVars, mapVars, initVars, mu, stage, sync,
                 kernelClusterMap, portsMap, ipvs, dummy, sockets, conntrack,
                 otherSockets, events, crashes>>

\* A tick: Sync ensures the masquerade rule, logs an error, and syncs.
SyncTick(f) ==
  /\ pc["syncLoop"] = "idle"
  /\ Fault(f)
  /\ masq' = (masq \/ f = NoFault)
  /\ pc' = [pc EXCEPT !["syncLoop"] = "sync"]
  /\ UNCHANGED <<objVars, changeVars, mapVars, initVars, mu, stage, sync,
                 kernelClusterMap, portsMap, ipvs, dummy, sockets, conntrack,
                 otherSockets, events, crashes>>

-----------------------------------------------------------------------------
(* syncProxyRules *)

\* Where a thread goes when its call of syncProxyRules returns.
Returned(t) == IF t \in {"serviceConfig", "endpointsConfig"} THEN "done" ELSE "idle"

\* mu is free and the caches are not synced: the call returns at once.
SyncTooEarly(t) ==
  /\ pc[t] = "sync" /\ mu = Nil
  /\ ~endpointsSynced \/ ~servicesSynced
  /\ pc' = [pc EXCEPT ![t] = Returned(t)]
  /\ UNCHANGED <<objVars, changeVars, mapVars, initVars, mu, stage, sync,
                 kernelClusterMap, portsMap, kernelVars, otherSockets, boundVars>>

\* Take mu and apply the Service changes.
SyncServiceMap(t) ==
  /\ pc[t] = "sync" /\ mu = Nil
  /\ endpointsSynced /\ servicesSynced
  /\ mu' = t
  /\ stage' = "endpointsMap"
  /\ serviceMap' = UpdateServiceMap(serviceMap, serviceChanges)
  /\ sync' = [sync EXCEPT !.staleServices = StaleServices(serviceMap, serviceChanges)]
  /\ UNCHANGED <<objVars, changeVars, endpointsMap, initVars, pc,
                 kernelClusterMap, portsMap, kernelVars, otherSockets, boundVars>>

IsUdp(sp) ==
  /\ serviceMap[sp[1]][sp[2]] # Nil
  /\ serviceMap[sp[1]][sp[2]].protocol = "udp"

\* Apply the Endpoints changes; the addresses of UDP services that get their
\* first endpoint join the stale ones.
SyncEndpointsMap ==
  /\ stage = "endpointsMap"
  /\ stage' = "kernel"
  /\ endpointsMap' = UpdateEndpointsMap(endpointsMap, endpointsChanges)
  /\ sync' = [sync EXCEPT
       !.staleEndpoints = StaleEndpoints(endpointsChanges),
       !.staleServices  = @ \cup
          {serviceMap[sp[1]][sp[2]].ip :
             sp \in {sp \in StaleServiceNames(endpointsChanges) : IsUdp(sp)}}]
  /\ UNCHANGED <<objVars, changeVars, serviceMap, initVars, pc, mu,
                 kernelClusterMap, portsMap, kernelVars, otherSockets, boundVars>>

\* GetDummyLink fails and the sync returns.
SyncNoDummyLink ==
  /\ stage = "kernel"
  /\ Fault(<<"dummyLink">>)
  /\ pc' = [pc EXCEPT ![mu] = Returned(mu)]
  /\ mu' = Nil /\ stage' = "none" /\ sync' = NoLocals
  /\ UNCHANGED <<objVars, changeVars, mapVars, initVars, kernelClusterMap,
                 portsMap, kernelVars, otherSockets, events, crashes>>

ReadCalls ==
  {NoFault, <<"services">>, <<"addresses">>, <<"nodeIPs">>}
    \cup {<<"servers", k>> : k \in ListIpvsService(ipvs)}

ListsNoServers(f) ==
  [services |-> IF f = <<"services">> THEN {} ELSE ListIpvsService(ipvs), servers |-> {}]

BuildIpvsMap(f) ==
  IF f = <<"services">>
  THEN NoIpvsMap
  ELSE LET services == ListIpvsService(ipvs)
       IN  [services |-> services,
            servers  |-> ListIpvsServer(ipvs, {k \in services : f # <<"servers", k>>})]

\* A failure leaves the map of the last sync.
BuildClusterMap(f) == IF f = <<"addresses">> THEN kernelClusterMap ELSE dummy

\* No address: the error is logged and no node rule is looked at.
GetNodeIPs(f) == IF f = <<"nodeIPs">> THEN {} ELSE NodeIPs

\* Read the kernel's state, and whether there are Service changes.
SyncReadKernel(f) ==
  /\ stage = "kernel"
  /\ Fault(f)
  /\ kernelClusterMap' = BuildClusterMap(f)
  /\ sync' = [sync EXCEPT !.kernelIpvsMap = BuildIpvsMap(f),
                          !.nodeIPs       = GetNodeIPs(f)]
  /\ stage' = IF ServicesPending(serviceChanges) = {} THEN "decide" ELSE "services"
  /\ UNCHANGED <<objVars, changeVars, mapVars, initVars, pc, mu, portsMap,
                 kernelVars, otherSockets, events, crashes>>

ServicePorts(sm) == {sp \in ServicePortNames : sm[sp[1]][sp[2]] # Nil}

\* There were no Service changes: a full sync if there are no Endpoints changes
\* either.
SyncDecide ==
  /\ stage = "decide"
  /\ IF EndpointsPending(endpointsChanges) = {}
     THEN /\ stage' = "full"
          /\ sync' = [sync EXCEPT !.todo = ServicePorts(serviceMap)]
     ELSE /\ stage' = "services"
          /\ UNCHANGED sync
  /\ UNCHANGED <<objVars, changeVars, mapVars, initVars, pc, mu,
                 kernelClusterMap, portsMap, kernelVars, otherSockets, boundVars>>

-----------------------------------------------------------------------------
(* Addresses, local ports and rules of one service port *)

Key(ip, port, info) == [ip |-> ip, port |-> port, protocol |-> info.protocol]

Keys(info, external, nodeIPs) ==
  {Key(info.ip, info.port, info)}
    \cup {Key(ip, info.port, info) : ip \in external}
    \cup {Key(ip, info.nodePort, info) : ip \in nodeIPs}

\* The keys under which the service port may have rules.
AllKeys(info) ==
  Keys(info, info.externalIPs, IF info.nodePort = 0 THEN {} ELSE sync.nodeIPs)

OpensAnyPort(lp, open, f) == lp \in portsMap \/ f # <<"open">>

\* The local port is held already, or can be opened now.
Holds(lp, open, f) ==
  lp \in portsMap \/ (f # <<"open">> /\ CanOpen(lp, open \cup otherSockets))

\* The addresses of the dummy link, the cluster IP just bound among them, are
\* local too; an error means not local.
LocalExternalIPs(info, f) ==
  IF f = <<"isLocalIP">> THEN {} ELSE info.externalIPs \cap (LocalIPs \cup dummy')

ExternalHeld(sp, info, f) ==
  {lp \in {ExternalPortOf(sp, info, ip) : ip \in LocalExternalIPs(info, f)} :
     Holds(lp, sockets, f)}

NodePortHeld(sp, info, f) ==
  {lp \in {NodePortOf(sp, info)} :
     info.nodePort # 0 /\ Holds(lp, sockets \cup ExternalHeld(sp, info, f), f)}

\* Rules for ports that could not be opened too.
AllKeysHeld(sp, info, f) == AllKeys(info)

\* The keys whose rules are installed: a local address or node port that could
\* not be opened is skipped.
HeldKeys(sp, info, f) ==
  Keys(info,
       {ip \in info.externalIPs :
          ip \in LocalExternalIPs(info, f)
            => ExternalPortOf(sp, info, ip) \in ExternalHeld(sp, info, f)},
       IF NodePortHeld(sp, info, f) = {} THEN {} ELSE sync.nodeIPs)

\* The sockets are opened, and the flows to a UDP node port that is opened now
\* are flushed.
HoldPorts(sp, info, f) ==
  /\ sockets' = sockets \cup ExternalHeld(sp, info, f) \cup NodePortHeld(sp, info, f)
  /\ conntrack' =
       ClearUdpConntrackForPort(conntrack,
         {lp.port : lp \in {lp \in NodePortHeld(sp, info, f) \ portsMap :
                              lp.protocol = "udp" /\ f # <<"conntrack">>}})

\* Servers are added to new rules only.
SkipsKnownRules(t, keys, sp) ==
  AddIpvsServer(t,
    [svc: keys \ sync.kernelIpvsMap.services,
     dst: {[ip |-> e.ip, port |-> e.port] : e \in endpointsMap[sp[1]][sp[2]]}])

\* Every server the kernel had is deleted, and only the new ones are added.
DeletesCurrentServers(t, keys, sp) ==
  LET old == {s \in sync.kernelIpvsMap.servers : s.svc \in keys}
      new == [svc: keys,
              dst: {[ip |-> e.ip, port |-> e.port] : e \in endpointsMap[sp[1]][sp[2]]}]
  IN  AddIpvsServer(DeleteIpvsServer(t, old), new \ old)

\* Make the real servers under the keys those of the endpoints map, given what
\* the kernel had when it was read.
CreateEndpointRule(t, keys, sp) ==
  LET old == {s \in sync.kernelIpvsMap.servers : s.svc \in keys}
      new == [svc: keys,
              dst: {[ip |-> e.ip, port |-> e.port] : e \in endpointsMap[sp[1]][sp[2]]}]
  IN  DeleteIpvsServer(AddIpvsServer(t, new \ old), old \ new)

PortCalls(info) ==
  {NoFault, <<"bind">>, <<"isLocalIP">>, <<"open">>, <<"conntrack">>}
    \cup {<<"service", k>> : k \in AllKeys(info)}
    \cup {<<"server", k>> : k \in AllKeys(info)}

-----------------------------------------------------------------------------
(* Full sync *)

\* The cluster IP cannot be bound: the service port is skipped.
FullSyncNotBound(sp) ==
  LET info == serviceMap[sp[1]][sp[2]] IN
  /\ stage = "full" /\ sp \in sync.todo
  /\ info.ip \notin kernelClusterMap
  /\ Fault(<<"bind">>)
  /\ sync' = [sync EXCEPT !.todo = @ \ {sp}]
  /\ UNCHANGED <<objVars, changeVars, mapVars, initVars, ctlVars,
                 kernelClusterMap, portsMap, kernelVars, otherSockets, events,
                 crashes>>

FullSyncPort(sp, f) ==
  LET info       == serviceMap[sp[1]][sp[2]]
      keys       == HeldKeys(sp, info, f)
      hasCluster == keys \cap sync.kernelIpvsMap.services
      created    == {k \in keys \ hasCluster : f # <<"service", k>>}
      reached    == {k \in hasCluster \cup created : f # <<"server", k>>}
  IN
  /\ stage = "full" /\ sp \in sync.todo
  /\ f # <<"bind">> /\ Fault(f)
  /\ dummy' = IF info.ip \in kernelClusterMap
              THEN dummy ELSE AddDummyClusterIp(dummy, info.ip)
  /\ HoldPorts(sp, info, f)
  /\ ipvs' = CreateEndpointRule(AddIpvsService(ipvs, created, info.affinity),
                                reached, sp)
  /\ sync' = [sync EXCEPT
       !.todo                = @ \ {sp},
       !.activeBindIP        = @ \cup {info.ip},
       !.activeServiceMap    = @ \cup keys,
       !.replacementPortsMap = @ \cup ExternalHeld(sp, info, f)
                                 \cup NodePortHeld(sp, info, f)]
  /\ UNCHANGED <<objVars, changeVars, mapVars, initVars, ctlVars,
                 kernelClusterMap, portsMap, masq, otherSockets, events, crashes>>

UnusedCalls ==
  {NoFault, <<"services">>, <<"addresses">>}
    \cup {<<"service", k>> : k \in ListIpvsService(ipvs)}
    \cup {<<"unbind", ip>> : ip \in dummy}

\* After the last service port: remove what no service port made active.
CheckUnusedRule(f) ==
  /\ stage = "full" /\ sync.todo = {}
  /\ Fault(f)
  /\ ipvs' = IF f = <<"services">>
             THEN ipvs
             ELSE DeleteIpvsService(ipvs,
                    {k \in ListIpvsService(ipvs) \ sync.activeServiceMap :
                       f # <<"service", k>>})
  /\ dummy' = IF f \in {<<"services">>, <<"addresses">>}
              THEN dummy
              ELSE DeleteDummyClusterIp(dummy,
                     {ip \in dummy \ sync.activeBindIP : f # <<"unbind", ip>>})
  /\ stage' = "services"
  /\ UNCHANGED <<objVars, changeVars, mapVars, initVars, pc, mu, sync,
                 kernelClusterMap, portsMap, sockets, conntrack, masq,
                 otherSockets, events, crashes>>

-----------------------------------------------------------------------------
(* Service changes: the items are taken in any order, and the ports of one *)
(* item are deleted first and then added one by one                        *)

\* Take serviceChanges.Lock if there are items.
SyncServices ==
  /\ stage = "services"
  /\ IF ServicesPending(serviceChanges) = {}
     THEN stage' = "endpoints" /\ UNCHANGED sync
     ELSE /\ stage' = "serviceItems"
          /\ sync' = [sync EXCEPT !.items = ServicesPending(serviceChanges)]
  /\ UNCHANGED <<objVars, changeVars, mapVars, initVars, pc, mu,
                 kernelClusterMap, portsMap, kernelVars, otherSockets, boundVars>>

\* The rules of the previous object are kept.
KeepsPreviousRules(n) == {}

PreviousKeys(n) ==
  UNION {AllKeys(serviceChanges[n].previous[p]) :
           p \in SvcPortsOf(serviceChanges[n].previous)}

\* The cluster IP stays bound, another service may share it.
DeletePrevious(n, f) ==
  /\ stage = "serviceItems" /\ sync.todo = {} /\ n \in sync.items
  /\ Fault(f)
  /\ ipvs' = DeleteIpvsService(ipvs, {k \in PreviousKeys(n) : f # <<"service", k>>})
  /\ sync' = [sync EXCEPT !.items = @ \ {n},
                          !.todo = {n} \X SvcPortsOf(serviceChanges[n].current)]
  /\ UNCHANGED <<objVars, changeVars, mapVars, initVars, ctlVars,
                 kernelClusterMap, portsMap, dummy, sockets, conntrack, masq,
                 otherSockets, events, crashes>>

AddCurrentNotBound(sp) ==
  /\ stage = "serviceItems" /\ sp \in sync.todo
  /\ Fault(<<"bind">>)
  /\ sync' = [sync EXCEPT !.todo = @ \ {sp}]
  /\ UNCHANGED <<objVars, changeVars, mapVars, initVars, ctlVars,
                 kernelClusterMap, portsMap, kernelVars, otherSockets, events,
                 crashes>>

\* The rules are created without real servers.
AddCurrent(sp, f) ==
  LET info == serviceChanges[sp[1]].current[sp[2]]
      keys == {k \in HeldKeys(sp, info, f) : f # <<"service", k>>}
  IN
  /\ stage = "serviceItems" /\ sp \in sync.todo
  /\ f # <<"bind">> /\ Fault(f)
  /\ dummy' = AddDummyClusterIp(dummy, info.ip)
  /\ HoldPorts(sp, info, f)
  /\ ipvs' = AddIpvsService(ipvs, keys, info.affinity)
  /\ sync' = [sync EXCEPT
       !.todo                = @ \ {sp},
       !.replacementPortsMap = @ \cup ExternalHeld(sp, info, f)
                                 \cup NodePortHeld(sp, info, f)]
  /\ UNCHANGED <<objVars, changeVars, mapVars, initVars, ctlVars,
                 kernelClusterMap, portsMap, masq, otherSockets, events, crashes>>

KeepsServiceItems ==
  /\ stage = "serviceItems" /\ sync.todo = {} /\ sync.items = {}
  /\ stage' = "endpoints"
  /\ UNCHANGED <<objVars, changeVars, mapVars, initVars, pc, mu, sync,
                 kernelClusterMap, portsMap, kernelVars, otherSockets, boundVars>>

ClearServiceItems ==
  /\ stage = "serviceItems" /\ sync.todo = {} /\ sync.items = {}
  /\ serviceChanges' = NewServiceChangeMap
  /\ stage' = "endpoints"
  /\ UNCHANGED <<objVars, endpointsChanges, mapVars, initVars, pc, mu, sync,
                 kernelClusterMap, portsMap, kernelVars, otherSockets, boundVars>>

-----------------------------------------------------------------------------
(* Endpoints changes *)

ChangedPorts(n) ==
  {n} \X (EpPortsOf(endpointsChanges[n].previous)
            \cup EpPortsOf(endpointsChanges[n].current))

\* Take endpointsChanges.Lock if there are items.
SyncEndpoints ==
  /\ stage = "endpoints"
  /\ IF EndpointsPending(endpointsChanges) = {}
     THEN stage' = "finish" /\ UNCHANGED sync
     ELSE /\ stage' = "endpointsItems"
          /\ sync' = [sync EXCEPT !.todo =
               UNION {ChangedPorts(n) : n \in EndpointsPending(endpointsChanges)}]
  /\ UNCHANGED <<objVars, changeVars, mapVars, initVars, pc, mu,
                 kernelClusterMap, portsMap, kernelVars, otherSockets, boundVars>>

\* The real servers of one changed port, if its service is known.
SyncEndpointChange(sp, f) ==
  LET info == serviceMap[sp[1]][sp[2]] IN
  /\ stage = "endpointsItems" /\ sp \in sync.todo
  /\ Fault(f)
  /\ ipvs' = IF info = Nil
             THEN ipvs
             ELSE CreateEndpointRule(ipvs, {k \in AllKeys(info) : f # <<"server", k>>}, sp)
  /\ sync' = [sync EXCEPT !.todo = @ \ {sp}]
  /\ UNCHANGED <<objVars, changeVars, mapVars, initVars, ctlVars,
                 kernelClusterMap, portsMap, dummy, sockets, conntrack, masq,
                 otherSockets, events, crashes>>

ClearEndpointsItems ==
  /\ stage = "endpointsItems" /\ sync.todo = {}
  /\ endpointsChanges' = NewEndpointsChangeMap
  /\ stage' = "finish"
  /\ UNCHANGED <<objVars, serviceChanges, mapVars, initVars, pc, mu, sync,
                 kernelClusterMap, portsMap, kernelVars, otherSockets, boundVars>>

-----------------------------------------------------------------------------
(* End of a sync: close the local ports that were not asked for again, flush *)
(* the stale flows, release mu                                             *)

UnusedPorts == portsMap \ sync.replacementPortsMap

FlushesNothing(flows, pairs) == flows

\* Only the flows to the cluster IP are flushed.
deleteEndpointConnections(flows, pairs) ==
  ClearUDPConntrackForPeers(flows,
    {<<serviceMap[q.svc[1]][q.svc[2]].ip, q.ip>> : q \in {q \in pairs : IsUdp(q.svc)}})

SyncFinish(f) ==
  /\ stage = "finish"
  /\ Fault(f)
  /\ sockets' = sockets \ UnusedPorts
  /\ portsMap' = sync.replacementPortsMap
  /\ conntrack' = IF f # NoFault
                  THEN conntrack
                  ELSE deleteEndpointConnections(
                         ClearUDPConntrackForIP(conntrack, sync.staleServices),
                         sync.staleEndpoints)
  /\ pc' = [pc EXCEPT ![mu] = Returned(mu)]
  /\ mu' = Nil /\ stage' = "none" /\ sync' = NoLocals
  /\ UNCHANGED <<objVars, changeVars, mapVars, initVars, kernelClusterMap,
                 ipvs, dummy, masq, otherSockets, events, crashes>>

-----------------------------------------------------------------------------
(* The rest of the node *)

\* A client's first packet to a UDP service: the kernel remembers the server
\* it picks, or that there was none.
Traffic(k) ==
  LET dsts == {s.dst.ip : s \in {s \in ipvs.servers : s.svc = k}} IN
  /\ k \in ipvs.services /\ k.ip \in ClientIPs /\ k.protocol = IPPROTO_UDP
  /\ \E ip \in IF dsts = {} THEN {Nil} ELSE dsts :
       conntrack' = conntrack \cup {[ip |-> k.ip, port |-> k.port, natIP |-> ip]}
  /\ UNCHANGED <<objVars, changeVars, mapVars, initVars, ctlVars, sync,
                 kernelClusterMap, portsMap, ipvs, dummy, sockets, masq,
                 otherSockets, boundVars>>

OtherOpen(lp) ==
  /\ CanOpen(lp, sockets \cup otherSockets)
  /\ otherSockets' = otherSockets \cup {lp}
  /\ UNCHANGED <<objVars, changeVars, mapVars, initVars, ctlVars, sync,
                 kernelClusterMap, portsMap, kernelVars, boundVars>>

OtherClose(lp) ==
  /\ lp \in otherSockets
  /\ otherSockets' = otherSockets \ {lp}
  /\ UNCHANGED <<objVars, changeVars, mapVars, initVars, ctlVars, sync,
                 kernelClusterMap, portsMap, kernelVars, boundVars>>

-----------------------------------------------------------------------------
(* Specification *)

MasqCalls == {NoFault, <<"masq">>}

FlushCalls == {NoFault, <<"conntrack">>}

SyncBegin(t) == SyncTooEarly(t) \/ SyncServiceMap(t)

SyncRead == SyncNoDummyLink \/ (\E f \in ReadCalls : SyncReadKernel(f)) \/ SyncDecide

FullSync ==
  \/ \E sp \in sync.todo :
       \/ FullSyncNotBound(sp)
       \/ stage = "full" /\ \E f \in PortCalls(serviceMap[sp[1]][sp[2]]) : FullSyncPort(sp, f)
  \/ \E f \in UnusedCalls : CheckUnusedRule(f)

ServiceItemsSync ==
  \/ SyncServices
  \/ \E n \in sync.items : stage = "serviceItems" /\
       \E f \in {NoFault} \cup {<<"service", k>> : k \in PreviousKeys(n)} : DeletePrevious(n, f)
  \/ \E sp \in sync.todo :
       \/ AddCurrentNotBound(sp)
       \/ stage = "serviceItems" /\
          \E f \in PortCalls(serviceChanges[sp[1]].current[sp[2]]) : AddCurrent(sp, f)
  \/ ClearServiceItems

ServerCalls(info) ==
  {NoFault} \cup IF info = Nil THEN {} ELSE {<<"server", k>> : k \in AllKeys(info)}

EndpointsItemsSync ==
  \/ SyncEndpoints
  \/ \E sp \in sync.todo : stage = "endpointsItems" /\
       \E f \in ServerCalls(serviceMap[sp[1]][sp[2]]) : SyncEndpointChange(sp, f)
  \/ ClearEndpointsItems

\* A step of the syncProxyRules call that holds mu.
SyncStep ==
  \/ SyncEndpointsMap \/ SyncRead \/ FullSync \/ ServiceItemsSync
  \/ EndpointsItemsSync \/ (\E f \in FlushCalls : SyncFinish(f))

Informers ==
  \E n \in SvcNames :
    \/ OnServiceAdd(n) \/ OnServiceUpdate(n) \/ OnServiceDelete(n)
    \/ OnEndpointsAdd(n) \/ OnEndpointsUpdate(n) \/ OnEndpointsDelete(n)

Loop == \E f \in MasqCalls : SyncLoopStart(f) \/ SyncTick(f)

Node ==
  \/ \E k \in ipvs.services : Traffic(k)
  \/ \E lp \in OtherPorts : OtherOpen(lp) \/ OtherClose(lp)

Next ==
  \/ Informers
  \/ \E t \in Threads : isInitialized(t) \/ SyncBegin(t)
  \/ OnServiceSynced \/ OnEndpointsSynced
  \/ Loop \/ SyncStep
  \/ Node \/ Crash

Spec == Init /\ [][Next]_vars

\* Goroutines that can run do run, a free mu is taken by a thread that waits
\* for it, the caches sync and the ticker ticks.
Fairness ==
  /\ WF_vars(OnServiceSynced) /\ WF_vars(OnEndpointsSynced)
  /\ WF_vars(\E t \in Threads : isInitialized(t))
  /\ WF_vars(\E t \in Threads : SyncBegin(t))
  /\ WF_vars(SyncStep) /\ WF_vars(Loop)

FairSpec == Spec /\ Fairness

=============================================================================
