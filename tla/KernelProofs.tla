----------------------------- MODULE KernelProofs -----------------------------
(***************************************************************************)
(* What the proxier does to the kernel.  The sockets with which it holds   *)
(* local ports: none is lost, and no two claim the same port.  The rules:  *)
(* a sync takes no wanted rule away, and a full sync leaves exactly the    *)
(* wanted ones.                                                            *)
(***************************************************************************)
EXTENDS ProxierProofs

-----------------------------------------------------------------------------
(* Sockets *)

\* No two of the sockets claim the same port.
Disjoint(open) == \A a, b \in open : a # b => ~Conflict(a, b)

\* Opening a port that the kernel lets the proxier open keeps the sockets disjoint.
LEMMA OpenDisjoint ==
  ASSUME NEW open, Disjoint(open), NEW lp, CanOpen(lp, open)
  PROVE  Disjoint(open \cup {lp})
BY Zenon DEF Disjoint, CanOpen, Conflict

\* The local ports of one service port are held without taking a port from
\* another: a port is held since an earlier sync, or is opened now.
LEMMA HoldPortsDisjoint ==
  ASSUME TypeOK, NEW sp \in ServicePortNames, NEW info \in ServiceInfo, NEW f,
         portsMap \subseteq sockets, Disjoint(sockets \cup otherSockets)
  PROVE  Disjoint(sockets \cup ExternalHeld(sp, info, f) \cup NodePortHeld(sp, info, f)
                    \cup otherSockets)
<1> DEFINE open == sockets \cup otherSockets
           E    == ExternalHeld(sp, info, f)
<1>1. \A a \in E : a \in open \/ CanOpen(a, open)
  BY DEF ExternalHeld, Holds
<1>2. ASSUME NEW a \in E, NEW b \in E, a # b PROVE ~Conflict(a, b)
  <2>1. PICK i \in IPs : a = ExternalPortOf(sp, info, i)
    BY DEF ExternalHeld, LocalExternalIPs, ServiceInfo
  <2>2. PICK j \in IPs : b = ExternalPortOf(sp, info, j)
    BY DEF ExternalHeld, LocalExternalIPs, ServiceInfo
  <2>3. i # j /\ i # "" /\ j # ""
    BY <1>2, <2>1, <2>2, IPsAssumption
  <2> QED BY <2>1, <2>2, <2>3 DEF Conflict, ExternalPortOf
<1>3. Disjoint(open \cup E)
  BY <1>1, <1>2, Zenon DEF Disjoint, CanOpen, Conflict
<1>4. \A a \in NodePortHeld(sp, info, f) :
        a = NodePortOf(sp, info) /\ (a \in open \/ CanOpen(a, open \cup E))
  <2>1. sockets \cup E \cup otherSockets = open \cup E
    OBVIOUS
  <2> QED BY <2>1 DEF NodePortHeld, Holds
<1>5. CASE NodePortHeld(sp, info, f) = {}
  <2>1. sockets \cup E \cup NodePortHeld(sp, info, f) \cup otherSockets = open \cup E
    BY <1>5
  <2> QED BY <1>3, <2>1
<1>6. CASE NodePortHeld(sp, info, f) # {}
  <2> DEFINE lp == NodePortOf(sp, info)
  <2>1. NodePortHeld(sp, info, f) = {lp} /\ (lp \in open \/ CanOpen(lp, open \cup E))
    BY <1>4, <1>6
  <2>2. Disjoint((open \cup E) \cup {lp})
    <3> HIDE DEF lp, open, E
    <3>1. CASE lp \in open
      <4>1. (open \cup E) \cup {lp} = open \cup E
        BY <3>1
      <4> QED BY <1>3, <4>1
    <3>2. CASE CanOpen(lp, open \cup E)
      BY <1>3, <3>2, OpenDisjoint
    <3> QED BY <2>1, <3>1, <3>2
  <2>3. sockets \cup E \cup NodePortHeld(sp, info, f) \cup otherSockets
          = (open \cup E) \cup {lp}
    <3> HIDE DEF lp, E
    <3> QED BY <2>1
  <2> QED BY <2>2, <2>3
<1> QED BY <1>5, <1>6

-----------------------------------------------------------------------------
(* The steps *)

\* The other processes of the node open ports that are free.
LEMMA NodeSockets ==
  ASSUME NoSocketLeak, Node
  PROVE  NoSocketLeak'
<1>1. UNCHANGED <<sync, portsMap, sockets>>
  BY OutsideSteps
<1>2. ASSUME NEW k, Traffic(k) PROVE otherSockets' = otherSockets
  BY <1>2 DEF Traffic
<1>3. ASSUME NEW lp, OtherClose(lp) PROVE NoSocketLeak'
  <2>1. otherSockets' \subseteq otherSockets
    BY <1>3 DEF OtherClose
  <2> QED BY <1>1, <2>1 DEF NoSocketLeak
<1>4. ASSUME NEW lp, OtherOpen(lp) PROVE NoSocketLeak'
  <2>1. otherSockets' = otherSockets \cup {lp} /\ CanOpen(lp, sockets \cup otherSockets)
    BY <1>4 DEF OtherOpen
  <2>2. Disjoint((sockets \cup otherSockets) \cup {lp})
    BY <2>1, OpenDisjoint, SMTT(30) DEF NoSocketLeak, Disjoint
  <2>3. sockets' \cup otherSockets' = (sockets \cup otherSockets) \cup {lp}
    BY <1>1, <2>1
  <2>4. Disjoint(sockets' \cup otherSockets')
    BY <2>2, <2>3
  <2> QED BY <1>1, <2>4 DEF NoSocketLeak, Disjoint
<1>5. CASE otherSockets' = otherSockets
  BY <1>1, <1>5 DEF NoSocketLeak
<1> QED BY <1>2, <1>3, <1>4, <1>5 DEF Node

\* The step that syncs one service port adds the sockets it opens to the ports
\* held for the next sync.
LEMMA PortSockets ==
  ASSUME NoSocketLeak, TypeOK, NEW sp \in ServicePortNames, NEW info \in ServiceInfo,
         NEW f, HoldPorts(sp, info, f), UNCHANGED <<portsMap, otherSockets>>,
         sync'.replacementPortsMap =
           sync.replacementPortsMap \cup ExternalHeld(sp, info, f)
                                    \cup NodePortHeld(sp, info, f)
  PROVE  NoSocketLeak'
<1>1. sockets' = sockets \cup ExternalHeld(sp, info, f) \cup NodePortHeld(sp, info, f)
  BY DEF HoldPorts
<1>2. portsMap \subseteq sockets /\ Disjoint(sockets \cup otherSockets)
  BY DEF NoSocketLeak, Disjoint
<1>3. Disjoint(sockets' \cup otherSockets')
  BY <1>1, <1>2, HoldPortsDisjoint
<1>4. sockets' = portsMap' \cup sync'.replacementPortsMap
  BY <1>1 DEF NoSocketLeak
<1> QED BY <1>3, <1>4 DEF NoSocketLeak, Disjoint

\* No step loses a socket or lets two claim one port.
LEMMA SocketStep ==
  ASSUME Inv, LocalsFresh, NoSocketLeak, Next
  PROVE  NoSocketLeak'
<1>1. CASE Node
  BY <1>1, NodeSockets
<1>2. CASE \/ Informers
           \/ \E t \in Threads : isInitialized(t) \/ SyncTooEarly(t)
           \/ OnServiceSynced \/ OnEndpointsSynced \/ Loop
  <2>1. otherSockets' = otherSockets
    <3>1. CASE Informers
      BY <3>1, Zenon DEF Informers, OnServiceAdd, OnServiceUpdate, OnServiceDelete,
                  OnEndpointsAdd, OnEndpointsUpdate, OnEndpointsDelete, ServiceEvent,
                  EndpointsEvent
    <3>2. CASE Loop
      BY <3>2, Zenon DEF Loop, SyncLoopStart, SyncTick
    <3> QED BY <1>2, <3>1, <3>2, Zenon
            DEF isInitialized, SyncTooEarly, OnServiceSynced, OnEndpointsSynced
  <2> QED BY <1>2, <2>1, OutsideSteps DEF NoSocketLeak
<1>3. CASE Crash
  BY <1>3, Zenon DEF Crash, NoLocals, NoSocketLeak
<1>4. ASSUME SyncNoDummyLink PROVE NoSocketLeak'
  <2>1. sync.replacementPortsMap = {} /\ sync'.replacementPortsMap = {}
    BY <1>4 DEF SyncNoDummyLink, NoLocals, LocalsFresh
  <2> QED BY <1>4, <2>1 DEF SyncNoDummyLink, kernelVars, NoSocketLeak
<1>5. ASSUME NEW f, SyncFinish(f) PROVE NoSocketLeak'
  <2>1. sync'.replacementPortsMap = {} /\ portsMap' = sync.replacementPortsMap
    BY <1>5 DEF SyncFinish, NoLocals
  <2>2. sockets' = sync.replacementPortsMap /\ otherSockets' = otherSockets
    BY <1>5 DEF SyncFinish, UnusedPorts, NoSocketLeak
  <2> QED BY <2>1, <2>2 DEF NoSocketLeak
<1>6. ASSUME NEW sp \in sync.todo, NEW f, FullSyncPort(sp, f) PROVE NoSocketLeak'
  <2> DEFINE info == serviceMap[sp[1]][sp[2]]
  <2>1. sp \in ServicePortNames /\ info \in ServiceInfo
    BY <1>6, FullSyncInfo, Zenon DEF FullSyncPort
  <2>2. HoldPorts(sp, info, f) /\ UNCHANGED <<portsMap, otherSockets>>
    BY <1>6, Zenon DEF FullSyncPort
  <2>3. sync'.replacementPortsMap =
          sync.replacementPortsMap \cup ExternalHeld(sp, info, f)
                                   \cup NodePortHeld(sp, info, f)
    BY <1>6, Zenon DEF FullSyncPort, Inv, TypeOK, SyncLocals
  <2> HIDE DEF info
  <2> QED BY <2>1, <2>2, <2>3, PortSockets DEF Inv
<1>7. ASSUME NEW sp \in sync.todo, NEW f, AddCurrent(sp, f) PROVE NoSocketLeak'
  <2> DEFINE info == serviceChanges[sp[1]].current[sp[2]]
  <2>1. sp \in ServicePortNames /\ info \in ServiceInfo
    BY <1>7, ItemInfo, Zenon DEF AddCurrent
  <2>2. HoldPorts(sp, info, f) /\ UNCHANGED <<portsMap, otherSockets>>
    BY <1>7, Zenon DEF AddCurrent
  <2>3. sync'.replacementPortsMap =
          sync.replacementPortsMap \cup ExternalHeld(sp, info, f)
                                   \cup NodePortHeld(sp, info, f)
    BY <1>7, Zenon DEF AddCurrent, Inv, TypeOK, SyncLocals
  <2> HIDE DEF info
  <2> QED BY <2>1, <2>2, <2>3, PortSockets DEF Inv
<1>8. ASSUME UNCHANGED <<portsMap, sockets, otherSockets>>,
             sync'.replacementPortsMap = sync.replacementPortsMap
      PROVE  NoSocketLeak'
  BY <1>8 DEF NoSocketLeak
<1> USE DEF Inv, TypeOK, SyncLocals, kernelVars
<1>9. ASSUME NEW t \in Threads, SyncServiceMap(t) PROVE NoSocketLeak'
  BY <1>8, <1>9 DEF SyncServiceMap
<1>10. ASSUME SyncEndpointsMap \/ SyncDecide \/ SyncServices \/ SyncEndpoints
       PROVE  NoSocketLeak'
  BY <1>8, <1>10, Zenon DEF SyncEndpointsMap, SyncDecide, SyncServices, SyncEndpoints
<1>11. ASSUME NEW f, SyncReadKernel(f) \/ CheckUnusedRule(f) PROVE NoSocketLeak'
  BY <1>8, <1>11, Zenon DEF SyncReadKernel, CheckUnusedRule
<1>12. ASSUME NEW sp, NEW f,
              \/ FullSyncNotBound(sp) \/ AddCurrentNotBound(sp)
              \/ DeletePrevious(sp, f) \/ SyncEndpointChange(sp, f)
       PROVE  NoSocketLeak'
  BY <1>8, <1>12, Zenon DEF FullSyncNotBound, AddCurrentNotBound, DeletePrevious,
                     SyncEndpointChange
<1>13. ASSUME ClearServiceItems \/ ClearEndpointsItems PROVE NoSocketLeak'
  BY <1>8, <1>13, Zenon DEF ClearServiceItems, ClearEndpointsItems
<1> HIDE DEF Inv, TypeOK, SyncLocals, kernelVars
<1> QED
  BY <1>1, <1>2, <1>3, <1>4, <1>5, <1>6, <1>7, <1>9, <1>10, <1>11, <1>12, <1>13,
     NextCases, Zenon

\* The open sockets are exactly those the proxier knows of, and they are
\* disjoint from each other and from those of other processes, through faults,
\* early returns and restarts, for every set of services.
THEOREM NoSocketLeakCorrect == Spec => []NoSocketLeak
<1>1. Init => NoSocketLeak
  <2> SUFFICES ASSUME Init PROVE NoSocketLeak
    OBVIOUS
  <2>1. sockets = {} /\ portsMap = {} /\ otherSockets = {} /\ sync.replacementPortsMap = {}
    BY DEF Init, NoLocals
  <2> QED BY <2>1 DEF NoSocketLeak
<1>2. Inv /\ LocalsFresh /\ NoSocketLeak /\ [Next]_vars => NoSocketLeak'
  <2>1. ASSUME NoSocketLeak, UNCHANGED vars PROVE NoSocketLeak'
    BY <2>1 DEF NoSocketLeak, vars, kernelVars
  <2> QED BY <2>1, SocketStep, Zenon
<1> QED BY <1>1, <1>2, InvAlways, PTL DEF Spec

-----------------------------------------------------------------------------
(* Rules: the invariants of the full sync *)

AfterRead ==
  {"decide", "full", "services", "serviceItems", "endpoints", "endpointsItems", "finish"}

\* The service ports the full sync is through with.
Synced == ServicePorts(serviceMap) \ sync.todo

\* While no call has failed, the rules wanted of the service ports the full sync
\* is through with are marked active, and only for those are local ports held.
ActiveInv ==
  faults = 0 =>
    /\ stage \in AfterRead => sync.nodeIPs = NodeIPs
    /\ stage = "full" =>
         /\ \A lp \in sync.replacementPortsMap : lp.svc \notin sync.todo
         /\ \A sp \in Synced :
              WantedKeys(sp, sync.replacementPortsMap) \subseteq sync.activeServiceMap

\* The real servers the kernel has under the key, and had when it was read.
ServersUnder(k) ==
  {d \in Servers : CreateLibIpvsServer([svc |-> k, dst |-> d]) \in ipvs.servers}

ReadUnder(k) == {d \in Servers : [svc |-> k, dst |-> d] \in sync.kernelIpvsMap.servers}

\* The service ports the full sync is through with that want the rule.
SyncedOwners(k) == {sp \in Synced : k \in WantedKeys(sp, sync.replacementPortsMap)}

\* The kernel keeps no real server without its service.
NoOrphans == \A s \in ipvs.servers : s.svc \in ipvs.services

\* What was read of the kernel is still there when the full sync starts.
ReadInv ==
  /\ stage \in {"decide", "full"} =>
       /\ kernelClusterMap \subseteq dummy
       /\ Lib(sync.kernelIpvsMap.services) \subseteq ipvs.services
  /\ stage = "decide" => \A k \in ServiceKeys : ServersUnder(k) = ReadUnder(k)

\* The kernel matches the maps for the service ports the full sync is through
\* with, and is as it was read where none of them has a rule.
ProgressInv ==
  stage = "full" =>
    /\ sync.activeServiceMap =
         UNION {WantedKeys(sp, sync.replacementPortsMap) : sp \in Synced}
    /\ sync.activeBindIP = {InfoOf(sp).ip : sp \in Synced}
    /\ sync.activeBindIP \subseteq dummy
    /\ Lib(sync.activeServiceMap) \subseteq ipvs.services
    /\ \A k \in ServiceKeys :
         /\ SyncedOwners(k) = {} => ServersUnder(k) = ReadUnder(k)
         /\ \A sp \in Synced :
              SyncedOwners(k) = {sp} => ServersUnder(k) = WantedServers(sp)

ExactInv == faults = 0 => ReadInv /\ ProgressInv

\* No external address of a Service object is the cluster IP of one.
ClusterIPs == UNION {{o.clusterIP : o \in ServiceObjs[n]} : n \in SvcNames}

ExternalApart ==
  \A n \in SvcNames : \A o \in ServiceObjs[n] : o.externalIPs \cap ClusterIPs = {}

\* The entries of a port map come from such objects.
ApartPorts(m) ==
  \A p \in SvcPortsOf(m) : m[p].ip \in ClusterIPs /\ m[p].externalIPs \cap ClusterIPs = {}

\* Only cluster IPs are bound to the dummy link.
ApartInv ==
  /\ dummy \subseteq ClusterIPs
  /\ \A n \in SvcNames :
       /\ svcObj[n] \in ServiceObjs[n] \cup {Nil}
       /\ serviceChanges[n] # Nil => /\ ApartPorts(serviceChanges[n].previous)
                                     /\ ApartPorts(serviceChanges[n].current)
       /\ ApartPorts(serviceMap[n])

-----------------------------------------------------------------------------
(* Rules: what the operators do *)

\* The real servers of a service port are real servers.
LEMMA WantedServersType ==
  ASSUME TypeOK, NEW sp \in ServicePortNames
  PROVE  WantedServers(sp) \in SUBSET Servers
<1>1. endpointsMap[sp[1]][sp[2]] \in SUBSET EndpointsInfo
  BY DEF TypeOK, EndpointsPortMap, ServicePortNames
<1> QED BY <1>1 DEF WantedServers, EndpointsInfo, Servers

\* CreateEndpointRule adds the wanted servers that were not read, takes away the
\* read ones that are not wanted, and leaves the other keys alone.
LEMMA EndpointRuleServers ==
  ASSUME TypeOK, NEW t \in IpvsTables, NEW keys \in SUBSET ServiceKeys,
         NEW sp \in ServicePortNames, NEW k \in ServiceKeys, NEW d \in Servers
  PROVE  LET r    == [svc |-> k, dst |-> d]
             s    == CreateLibIpvsServer(r)
             read == r \in sync.kernelIpvsMap.servers
             has  == s \in t.servers
         IN  s \in CreateEndpointRule(t, keys, sp).servers <=>
               IF k \notin keys THEN has
               ELSE IF d \in WantedServers(sp)
                    THEN has \/ (~read /\ CreateLibIpvsService(k) \in t.services)
                    ELSE has /\ ~read
<1> DEFINE r   == [svc |-> k, dst |-> d]
           s   == CreateLibIpvsServer(r)
           All == [svc: ServiceKeys, dst: Servers]
           old == {x \in sync.kernelIpvsMap.servers : x.svc \in keys}
           new == [svc: keys, dst: WantedServers(sp)]
           Add == {x \in new \ old : CreateLibIpvsService(x.svc) \in t.services}
<1>1. r \in All /\ new \subseteq All /\ old \subseteq All
  BY WantedServersType, Zenon DEF TypeOK, SyncLocals
<1>2. CreateEndpointRule(t, keys, sp).servers =
        (t.servers \cup {CreateLibIpvsServer(x) : x \in Add})
          \ {CreateLibIpvsServer(x) : x \in old \ new}
  BY DEF CreateEndpointRule, DeleteIpvsServer, AddIpvsServer, IpvsTables, WantedServers
<1>3. \A x \in All : CreateLibIpvsServer(x) = s => x = r
  BY <1>1, LibServerInjective, Zenon
<1>4. s \in {CreateLibIpvsServer(x) : x \in Add} <=> r \in Add
  <2> HIDE DEF r, All, old, new
  <2> QED BY <1>1, <1>3
<1>5. s \in {CreateLibIpvsServer(x) : x \in old \ new} <=> r \in old \ new
  <2> HIDE DEF r, All, old, new
  <2> QED BY <1>1, <1>3
<1>6. r \in new <=> k \in keys /\ d \in WantedServers(sp)
  OBVIOUS
<1>7. r \in old <=> k \in keys /\ r \in sync.kernelIpvsMap.servers
  OBVIOUS
<1>8. r \in Add <=> r \in new /\ r \notin old /\ CreateLibIpvsService(k) \in t.services
  BY Zenon
<1> HIDE DEF r, s, old, new, Add, All
<1>9. s \in CreateEndpointRule(t, keys, sp).servers <=>
        (s \in t.servers \/ r \in Add) /\ ~(r \in old /\ r \notin new)
  BY <1>2, <1>4, <1>5, Zenon
<1> QED BY <1>6, <1>7, <1>8, <1>9, Zenon DEF r, s

\* The ports held for a service port name it as their owner.
LEMMA ExternalHeldFor ==
  ASSUME NEW sp, NEW info, NEW f, NEW lp \in ExternalHeld(sp, info, f)
  PROVE  lp.svc = sp
<1>1. PICK ip : lp = ExternalPortOf(sp, info, ip)
  BY Zenon DEF ExternalHeld
<1> QED BY <1>1 DEF ExternalPortOf

\* The same for its node port.
LEMMA NodePortHeldFor ==
  ASSUME NEW sp, NEW info, NEW f, NEW lp \in NodePortHeld(sp, info, f)
  PROVE  lp.svc = sp
<1>1. lp = NodePortOf(sp, info)
  BY Zenon DEF NodePortHeld
<1> QED BY <1>1 DEF NodePortOf

\* The addresses of a service port in the service map.
LEMMA ApartEntry ==
  ASSUME Inv, ApartInv, NEW sp \in ServicePorts(serviceMap)
  PROVE  InfoOf(sp).ip \in ClusterIPs /\ InfoOf(sp).externalIPs \cap ClusterIPs = {}
<1>1. sp \in ServicePortNames /\ serviceMap[sp[1]][sp[2]] # Nil
  BY Zenon DEF ServicePorts
<1>2. sp[1] \in SvcNames /\ sp[2] \in PortNames
  BY <1>1, Zenon DEF ServicePortNames
<1>3. serviceMap[sp[1]] # Nil
  BY <1>2, NilAssumption, Zenon DEF Inv, TypeOK
<1>4. sp[2] \in SvcPortsOf(serviceMap[sp[1]])
  BY <1>1, <1>2, <1>3, Zenon DEF SvcPortsOf
<1>5. ApartPorts(serviceMap[sp[1]])
  BY <1>2, Zenon DEF ApartInv
<1> QED BY <1>4, <1>5, Zenon DEF ApartPorts, InfoOf

\* What the step that syncs one service port in the full sync changes.
LEMMA FullSyncPortStep ==
  ASSUME Inv, NEW sp \in sync.todo, NEW f, FullSyncPort(sp, f)
  PROVE  /\ stage = "full" /\ stage' = "full" /\ Fault(f)
         /\ UNCHANGED <<serviceMap, endpointsMap, portsMap, kernelClusterMap>>
         /\ dummy \subseteq dummy' /\ dummy' \subseteq dummy \cup {InfoOf(sp).ip}
         /\ sync'.todo = sync.todo \ {sp}
         /\ sync'.nodeIPs = sync.nodeIPs /\ sync'.kernelIpvsMap = sync.kernelIpvsMap
         /\ sync'.activeBindIP = sync.activeBindIP \cup {InfoOf(sp).ip}
         /\ sync'.activeServiceMap =
              sync.activeServiceMap \cup HeldKeys(sp, InfoOf(sp), f)
         /\ sync'.replacementPortsMap =
              sync.replacementPortsMap \cup ExternalHeld(sp, InfoOf(sp), f)
                                       \cup NodePortHeld(sp, InfoOf(sp), f)
<1>1. /\ stage = "full" /\ stage' = "full" /\ Fault(f)
      /\ UNCHANGED <<serviceMap, endpointsMap, portsMap, kernelClusterMap>>
  BY Zenon DEF FullSyncPort, mapVars, ctlVars
<1>2. dummy \subseteq dummy' /\ dummy' \subseteq dummy \cup {InfoOf(sp).ip}
  BY Zenon DEF FullSyncPort, AddDummyClusterIp, InfoOf
<1>3. sync' = [sync EXCEPT
       !.todo                = @ \ {sp},
       !.activeBindIP        = @ \cup {InfoOf(sp).ip},
       !.activeServiceMap    = @ \cup HeldKeys(sp, InfoOf(sp), f),
       !.replacementPortsMap = @ \cup ExternalHeld(sp, InfoOf(sp), f)
                                 \cup NodePortHeld(sp, InfoOf(sp), f)]
  BY Zenon DEF FullSyncPort, InfoOf
<1>4. sync \in SyncLocals
  BY DEF Inv, TypeOK
<1> QED BY <1>1, <1>2, <1>3, <1>4 DEF SyncLocals

\* The keys of the rules a full sync installs for a service port are those that
\* are wanted of it, given the local ports it then holds.
LEMMA HeldKeysAreWanted ==
  ASSUME Inv, ActiveInv, NEW sp \in sync.todo, NEW f, FullSyncPort(sp, f), faults' = 0
  PROVE  WantedKeys(sp, sync.replacementPortsMap)' = HeldKeys(sp, InfoOf(sp), f)
<1> DEFINE info == InfoOf(sp)
           held == sync'.replacementPortsMap
           EH   == ExternalHeld(sp, info, f)
           NH   == NodePortHeld(sp, info, f)
<1>1. f = NoFault /\ faults = 0
  BY FullSyncPortStep, NoFaultYet, Zenon DEF Inv
<1>2. /\ sync.nodeIPs = NodeIPs
      /\ \A lp \in sync.replacementPortsMap : lp.svc # sp
  BY <1>1, FullSyncPortStep, SMTT(30) DEF ActiveInv, AfterRead
<1>3. held = sync.replacementPortsMap \cup EH \cup NH
  BY FullSyncPortStep, Zenon
<1>4. \A lp \in EH : lp.desc = "externalIP"
  BY SMTT(30) DEF ExternalHeld, ExternalPortOf
<1>5. NH \subseteq {NodePortOf(sp, info)}
  BY Zenon DEF NodePortHeld
<1>6. \A ip : ExternalPortOf(sp, info, ip) \in held <=> ExternalPortOf(sp, info, ip) \in EH
  BY <1>2, <1>3, <1>5, Zenon DEF ExternalPortOf, NodePortOf
<1>7. NodePortOf(sp, info) \in held <=> NH # {}
  BY <1>2, <1>3, <1>4, <1>5, Zenon DEF NodePortOf
<1>8. LocalExternalIPs(info, f) = info.externalIPs \cap (LocalIPs \cup dummy')
  BY <1>1 DEF LocalExternalIPs, NoFault
<1>9. serviceMap' = serviceMap
  BY FullSyncPortStep, Zenon
<1>10. WantedKeys(sp, sync.replacementPortsMap)' =
         Keys(info, {ip \in info.externalIPs :
                       ip \in LocalIPs \cup dummy' => ExternalPortOf(sp, info, ip) \in held},
              IF NodePortOf(sp, info) \in held THEN NodeIPs ELSE {})
  BY <1>9, Zenon DEF WantedKeys, ServedExternalIPs, InfoOf
<1>11. HeldKeys(sp, info, f) =
         Keys(info, {ip \in info.externalIPs :
                       ip \in LocalExternalIPs(info, f) => ExternalPortOf(sp, info, ip) \in EH},
              IF NH = {} THEN {} ELSE sync.nodeIPs)
  BY Zenon DEF HeldKeys
<1> HIDE DEF info, held, EH, NH
<1>12. {ip \in info.externalIPs :
          ip \in LocalIPs \cup dummy' => ExternalPortOf(sp, info, ip) \in held}
       = {ip \in info.externalIPs :
            ip \in LocalExternalIPs(info, f) => ExternalPortOf(sp, info, ip) \in EH}
  <2>1. \A ip \in info.externalIPs :
          ip \in LocalExternalIPs(info, f) <=> ip \in LocalIPs \cup dummy'
    BY <1>8, Zenon
  <2> QED BY <1>6, <2>1, Zenon
<1>13. (IF NodePortOf(sp, info) \in held THEN NodeIPs ELSE {})
         = (IF NH = {} THEN {} ELSE sync.nodeIPs)
  BY <1>2, <1>7
<1> QED BY <1>10, <1>11, <1>12, <1>13, SMTT(30) DEF info

\* A step of the full sync for one service port does not make another want more.
LEMMA OthersWantNoMore ==
  ASSUME Inv, NEW sp \in sync.todo, NEW f, FullSyncPort(sp, f), NEW o, o # sp
  PROVE  /\ WantedKeys(o, sync.replacementPortsMap)'
              \subseteq WantedKeys(o, sync.replacementPortsMap)
         /\ (dummy' \ dummy) \cap InfoOf(o).externalIPs = {} =>
              WantedKeys(o, sync.replacementPortsMap)'
                = WantedKeys(o, sync.replacementPortsMap)
<1> DEFINE info == InfoOf(o)
           held == sync.replacementPortsMap
           Served(addrs, ports) ==
             {ip \in info.externalIPs :
                ip \in LocalIPs \cup addrs => ExternalPortOf(o, info, ip) \in ports}
           Nodes(ports) == IF NodePortOf(o, info) \in ports THEN NodeIPs ELSE {}
<1>1. \A lp \in held' : lp \in held \/ lp.svc = sp
  <2>1. \A lp \in ExternalHeld(sp, InfoOf(sp), f) : lp.svc = sp
    BY ExternalHeldFor, Zenon
  <2>2. \A lp \in NodePortHeld(sp, InfoOf(sp), f) : lp.svc = sp
    BY NodePortHeldFor, Zenon
  <2>3. held' = held \cup ExternalHeld(sp, InfoOf(sp), f) \cup NodePortHeld(sp, InfoOf(sp), f)
    BY FullSyncPortStep, Zenon
  <2> QED BY <2>1, <2>2, <2>3, Zenon
<1>2. /\ \A ip : ExternalPortOf(o, info, ip) \in held' <=> ExternalPortOf(o, info, ip) \in held
      /\ NodePortOf(o, info) \in held' <=> NodePortOf(o, info) \in held
  <2>1. held \subseteq held'
    BY FullSyncPortStep, Zenon
  <2>2. /\ \A ip : ExternalPortOf(o, info, ip).svc = o
        /\ NodePortOf(o, info).svc = o
    BY Zenon DEF ExternalPortOf, NodePortOf
  <2> QED BY <1>1, <2>1, <2>2, Zenon
<1>3. /\ WantedKeys(o, held) = Keys(info, Served(dummy, held), Nodes(held))
      /\ WantedKeys(o, held)' = Keys(info, Served(dummy', held'), Nodes(held'))
  <2>1. serviceMap' = serviceMap
    BY FullSyncPortStep, Zenon
  <2>2. WantedKeys(o, held) = Keys(info, Served(dummy, held), Nodes(held))
    BY Zenon DEF WantedKeys, ServedExternalIPs
  <2>3. WantedKeys(o, held)' = Keys(info, Served(dummy', held'), Nodes(held'))
    BY <2>1, Zenon DEF WantedKeys, ServedExternalIPs, InfoOf
  <2> QED BY <2>2, <2>3, Zenon
<1>4. Nodes(held') = Nodes(held)
  BY <1>2, Zenon
<1>5. dummy \subseteq dummy'
  BY FullSyncPortStep, Zenon
<1>6. Served(dummy', held') \subseteq Served(dummy, held)
  BY <1>2, <1>5, Zenon
<1>7. (dummy' \ dummy) \cap info.externalIPs = {}
        => Served(dummy', held') = Served(dummy, held)
  <2>1. ASSUME (dummy' \ dummy) \cap info.externalIPs = {}, NEW ip \in info.externalIPs
        PROVE  ip \in LocalIPs \cup dummy' <=> ip \in LocalIPs \cup dummy
    BY <1>5, <2>1, Zenon
  <2> QED BY <1>2, <2>1, Zenon
<1> HIDE DEF Served, Nodes
<1>8. WantedKeys(o, held)' \subseteq WantedKeys(o, held)
  BY <1>3, <1>4, <1>6, KeysMonotone, SMTT(30)
<1>9. (dummy' \ dummy) \cap info.externalIPs = {} => WantedKeys(o, held)' = WantedKeys(o, held)
  BY <1>3, <1>4, <1>7, Zenon
<1> QED BY <1>8, <1>9, Zenon

-----------------------------------------------------------------------------
(* Rules: no disruption *)

\* The steps before and in the full sync, while no call has failed.
LEMMA FullSyncCases ==
  ASSUME Inv, Next, faults' = 0, stage' \in {"decide", "full"}
  PROVE  \/ SyncReadKernel(NoFault) \/ SyncDecide
         \/ \E sp \in sync.todo : FullSyncPort(sp, NoFault)
         \/ UNCHANGED <<stage, sync, mapVars, kernelClusterMap, dummy, ipvs>>
<1>1. ASSUME NEW f, Fault(f) PROVE f = NoFault
  BY <1>1, NoFaultYet DEF Inv
<1>2. CASE \/ Informers \/ Node
           \/ \E t \in Threads : isInitialized(t) \/ SyncTooEarly(t)
           \/ OnServiceSynced \/ OnEndpointsSynced \/ Loop
  BY <1>2, OutsideSteps
<1>3. ASSUME NEW x, NEW f,
             \/ Crash \/ SyncNoDummyLink \/ SyncServiceMap(x) \/ SyncEndpointsMap
             \/ CheckUnusedRule(f) \/ SyncServices \/ ClearServiceItems \/ SyncEndpoints
             \/ ClearEndpointsItems \/ SyncFinish(f)
      PROVE  FALSE
  BY <1>3, Zenon DEF Crash, SyncNoDummyLink, SyncServiceMap, SyncEndpointsMap, CheckUnusedRule,
              SyncServices, ClearServiceItems, SyncEndpoints, ClearEndpointsItems,
              SyncFinish
<1>4. ASSUME NEW x, NEW f,
             DeletePrevious(x, f) \/ AddCurrent(x, f) \/ SyncEndpointChange(x, f)
      PROVE  FALSE
  BY <1>4, Zenon DEF DeletePrevious, AddCurrent, SyncEndpointChange, ctlVars
<1>5. ASSUME NEW x, FullSyncNotBound(x) \/ AddCurrentNotBound(x) PROVE FALSE
  <2>1. Fault(<<"bind">>)
    BY <1>5 DEF FullSyncNotBound, AddCurrentNotBound
  <2> QED BY <1>1, <2>1 DEF NoFault
<1>6. ASSUME NEW f, SyncReadKernel(f) PROVE SyncReadKernel(NoFault)
  BY <1>1, <1>6, Zenon DEF SyncReadKernel
<1>7. ASSUME NEW sp \in sync.todo, NEW f, FullSyncPort(sp, f)
      PROVE  \E o \in sync.todo : FullSyncPort(o, NoFault)
  <2>1. f = NoFault
    BY <1>1, <1>7, FullSyncPortStep, Zenon
  <2> QED BY <1>7, <2>1
<1> QED BY <1>2, <1>3, <1>4, <1>5, <1>6, <1>7, NextCases, Zenon

\* Once the kernel is read, the node's addresses are known, unless a call failed.
LEMMA NodeIPsStep ==
  ASSUME Inv, ActiveInv, Next, faults' = 0, stage' \in AfterRead
  PROVE  sync'.nodeIPs = NodeIPs
<1>1. faults = 0
  BY FaultsGrow
<1>2. stage \in AfterRead => sync.nodeIPs = NodeIPs
  BY <1>1 DEF ActiveInv
<1>3. CASE \/ Informers \/ Node
           \/ \E t \in Threads : isInitialized(t) \/ SyncTooEarly(t)
           \/ OnServiceSynced \/ OnEndpointsSynced \/ Loop
  BY <1>2, <1>3, OutsideSteps
<1>4. ASSUME NEW x, NEW f,
             \/ Crash \/ SyncNoDummyLink \/ SyncServiceMap(x) \/ SyncEndpointsMap
             \/ SyncFinish(f)
      PROVE  FALSE
  BY <1>4, Zenon DEF Crash, SyncNoDummyLink, SyncServiceMap, SyncEndpointsMap, SyncFinish,
              AfterRead
<1>5. ASSUME NEW f, SyncReadKernel(f) PROVE sync'.nodeIPs = NodeIPs
  <2>1. f = NoFault
    BY <1>5, NoFaultYet DEF SyncReadKernel, Inv
  <2>2. GetNodeIPs(f) = NodeIPs
    BY <2>1 DEF GetNodeIPs, NoFault
  <2> QED BY <1>5, <2>2, Zenon DEF SyncReadKernel, Inv, TypeOK, SyncLocals
<1>6. ASSUME stage \in AfterRead, sync'.nodeIPs = sync.nodeIPs PROVE sync'.nodeIPs = NodeIPs
  BY <1>2, <1>6
<1> USE DEF Inv, TypeOK, SyncLocals, AfterRead
<1>7. ASSUME SyncDecide \/ SyncServices \/ SyncEndpoints PROVE sync'.nodeIPs = NodeIPs
  BY <1>6, <1>7, Zenon DEF SyncDecide, SyncServices, SyncEndpoints
<1>8. ASSUME NEW f, CheckUnusedRule(f) \/ ClearServiceItems \/ ClearEndpointsItems
      PROVE  sync'.nodeIPs = NodeIPs
  BY <1>6, <1>8, Zenon DEF CheckUnusedRule, ClearServiceItems, ClearEndpointsItems
<1>9. ASSUME NEW x, NEW f,
             \/ FullSyncNotBound(x) \/ AddCurrentNotBound(x)
             \/ DeletePrevious(x, f) \/ SyncEndpointChange(x, f)
      PROVE  sync'.nodeIPs = NodeIPs
  BY <1>6, <1>9, Zenon DEF FullSyncNotBound, AddCurrentNotBound, DeletePrevious,
                    SyncEndpointChange
<1>10. ASSUME NEW x, NEW f, FullSyncPort(x, f) \/ AddCurrent(x, f)
       PROVE  sync'.nodeIPs = NodeIPs
  BY <1>6, <1>10, Zenon DEF FullSyncPort, AddCurrent
<1> HIDE DEF Inv, TypeOK, SyncLocals, AfterRead
<1> QED BY <1>3, <1>4, <1>5, <1>7, <1>8, <1>9, <1>10, NextCases, Zenon

\* Every step keeps the rules of the finished service ports active.
LEMMA ActiveStep ==
  ASSUME Inv, LocalsFresh, ActiveInv, Next
  PROVE  ActiveInv'
<1> DEFINE Goal ==
      /\ \A lp \in sync.replacementPortsMap : lp.svc \notin sync.todo
      /\ \A sp \in Synced :
           WantedKeys(sp, sync.replacementPortsMap) \subseteq sync.activeServiceMap
<1> SUFFICES ASSUME faults' = 0, stage' = "full" PROVE Goal'
  BY NodeIPsStep, Zenon DEF ActiveInv
<1>1. faults = 0 /\ (stage = "full" => Goal)
  BY FaultsGrow, Zenon DEF ActiveInv
<1>2. CASE SyncReadKernel(NoFault)
  BY <1>2 DEF SyncReadKernel
<1>3. CASE SyncDecide
  <2>1. stage = "decide" /\ serviceMap' = serviceMap
    BY <1>3 DEF SyncDecide, mapVars
  <2>2. sync' = [sync EXCEPT !.todo = ServicePorts(serviceMap)]
    BY <1>3 DEF SyncDecide
  <2>3. sync'.todo = ServicePorts(serviceMap) /\ sync'.replacementPortsMap = {}
    BY <2>1, <2>2 DEF LocalsFresh, Inv, TypeOK, SyncLocals
  <2>4. Synced' = {}
    BY <2>1, <2>3 DEF Synced
  <2> QED BY <2>3, <2>4, Zenon
<1>4. ASSUME NEW sp \in sync.todo, FullSyncPort(sp, NoFault) PROVE Goal'
  <2>1. Goal
    BY <1>1, <1>4, FullSyncPortStep, Zenon
  <2>2. sync'.todo = sync.todo \ {sp} /\ serviceMap' = serviceMap
    BY <1>4, FullSyncPortStep, Zenon
  <2>3. /\ sync.activeServiceMap \subseteq sync'.activeServiceMap
        /\ HeldKeys(sp, InfoOf(sp), NoFault) \subseteq sync'.activeServiceMap
    <3>1. sync'.activeServiceMap
            = sync.activeServiceMap \cup HeldKeys(sp, InfoOf(sp), NoFault)
      BY <1>4, FullSyncPortStep, Zenon
    <3> QED BY <3>1, Zenon
  <2>4. ASSUME NEW lp \in sync'.replacementPortsMap PROVE lp.svc \notin sync'.todo
    <3>1. CASE lp \in sync.replacementPortsMap
      BY <2>1, <2>2, <3>1, Zenon
    <3>2. CASE lp \in ExternalHeld(sp, InfoOf(sp), NoFault)
      BY <2>2, <3>2, ExternalHeldFor, Zenon
    <3>3. CASE lp \in NodePortHeld(sp, InfoOf(sp), NoFault)
      BY <2>2, <3>3, NodePortHeldFor, Zenon
    <3>4. sync'.replacementPortsMap =
            sync.replacementPortsMap \cup ExternalHeld(sp, InfoOf(sp), NoFault)
                                     \cup NodePortHeld(sp, InfoOf(sp), NoFault)
      BY <1>4, FullSyncPortStep, Zenon
    <3> QED BY <2>4, <3>1, <3>2, <3>3, <3>4, Zenon
  <2>5. ASSUME NEW o \in Synced'
        PROVE  WantedKeys(o, sync.replacementPortsMap)' \subseteq sync'.activeServiceMap
    <3>1. CASE o = sp
      BY <1>4, <2>3, <3>1, HeldKeysAreWanted, Zenon
    <3>2. CASE o # sp
      <4>1. o \in Synced
        BY <2>2, <3>2, Zenon DEF Synced, ServicePorts
      <4>2. WantedKeys(o, sync.replacementPortsMap)'
              \subseteq WantedKeys(o, sync.replacementPortsMap)
        BY <1>4, <3>2, OthersWantNoMore, Zenon
      <4> QED BY <2>1, <2>3, <4>1, <4>2, Zenon
    <3> QED BY <3>1, <3>2, Zenon
  <2> QED BY <2>4, <2>5
<1>5. CASE UNCHANGED <<stage, sync, mapVars, kernelClusterMap, dummy, ipvs>>
  <2>1. Goal /\ UNCHANGED <<sync, serviceMap, dummy>>
    BY <1>1, <1>5, Zenon DEF mapVars
  <2> QED BY <2>1, Zenon DEF Synced, ServicePorts, WantedKeys, ServedExternalIPs, InfoOf
<1> HIDE DEF Goal
<1> QED BY <1>2, <1>3, <1>4, <1>5, FullSyncCases, Zenon

\* The invariant holds throughout.
LEMMA ActiveAlways == Spec => [](Inv /\ LocalsFresh /\ ActiveInv)
<1>1. Init => ActiveInv
  BY Zenon DEF Init, ActiveInv, AfterRead
<1>2. Inv /\ LocalsFresh /\ ActiveInv /\ [Next]_vars => ActiveInv'
  <2>1. ASSUME ActiveInv, UNCHANGED vars PROVE ActiveInv'
    <3>1. UNCHANGED <<faults, stage, sync, serviceMap, dummy>>
      BY <2>1 DEF vars, boundVars, ctlVars, mapVars, kernelVars
    <3> QED BY <2>1, <3>1, Zenon DEF ActiveInv, Synced, ServicePorts, WantedKeys,
                              ServedExternalIPs, InfoOf
  <2> QED BY <2>1, ActiveStep, Zenon
<1> QED BY <1>1, <1>2, InvAlways, PTL DEF Spec

\* The wanted keys are keys.
LEMMA WantedKeysType ==
  ASSUME TypeOK, NEW sp \in ServicePorts(serviceMap), NEW held
  PROVE  WantedKeys(sp, held) \in SUBSET ServiceKeys
<1>1. InfoOf(sp) \in ServiceInfo
  BY ServicePortsType, Zenon DEF InfoOf
<1>2. ServedExternalIPs(sp, InfoOf(sp), held) \in SUBSET IPs
  BY <1>1 DEF ServedExternalIPs, ServiceInfo
<1>3. (IF NodePortOf(sp, InfoOf(sp)) \in held THEN NodeIPs ELSE {}) \in SUBSET IPs
  BY AddressAssumption
<1> QED BY <1>1, <1>2, <1>3, KeysType DEF WantedKeys

\* More local ports mean more wanted keys.
LEMMA WantedKeysMonotone ==
  ASSUME NEW sp, NEW held, NEW more, held \subseteq more
  PROVE  WantedKeys(sp, held) \subseteq WantedKeys(sp, more)
<1>1. ServedExternalIPs(sp, InfoOf(sp), held) \subseteq ServedExternalIPs(sp, InfoOf(sp), more)
  BY Zenon DEF ServedExternalIPs
<1>2. (IF NodePortOf(sp, InfoOf(sp)) \in held THEN NodeIPs ELSE {})
        \subseteq (IF NodePortOf(sp, InfoOf(sp)) \in more THEN NodeIPs ELSE {})
  OBVIOUS
<1> QED BY <1>1, <1>2, KeysMonotone, Zenon DEF WantedKeys

\* CreateEndpointRule for a service port takes a wanted server from no rule that
\* only one service port can have.
LEMMA EndpointRuleKeeps ==
  ASSUME TypeOK, NEW t \in IpvsTables, t.servers = ipvs.servers,
         NEW o \in ServicePorts(serviceMap), NEW keys, keys \subseteq AllKeys(InfoOf(o)),
         sync.nodeIPs = NodeIPs, ipvs' = CreateEndpointRule(t, keys, o),
         NEW sp \in ServicePorts(serviceMap), NEW k \in ServiceKeys, Sole(sp, k)
  PROVE  KeepsServers(sp, k)
<1>1. /\ o \in ServicePortNames /\ sp \in ServicePortNames
      /\ InfoOf(o) \in ServiceInfo
  BY ServicePortsType, Zenon DEF InfoOf
<1>2. keys \in SUBSET ServiceKeys
  BY <1>1, AllKeysType, Zenon
<1>3. k \in keys => o = sp
  <2>1. AllKeys(InfoOf(o)) = Keys(InfoOf(o), InfoOf(o).externalIPs,
                                  IF InfoOf(o).nodePort = 0 THEN {} ELSE NodeIPs)
    BY Zenon DEF AllKeys
  <2> QED BY <2>1, Zenon DEF Sole
<1>4. ASSUME NEW d \in WantedServers(sp),
             CreateLibIpvsServer([svc |-> k, dst |-> d]) \in ipvs.servers
      PROVE  CreateLibIpvsServer([svc |-> k, dst |-> d]) \in ipvs'.servers
  <2>1. d \in Servers
    BY <1>1, WantedServersType, Zenon
  <2>2. k \in keys => d \in WantedServers(o)
    BY <1>3, Zenon
  <2> QED BY <1>1, <1>2, <1>4, <2>1, <2>2, EndpointRuleServers, Zenon
<1> QED BY <1>4, Zenon DEF KeepsServers

\* The removal of the rules that are not active spares those that are.
LEMMA UnusedRuleKeeps ==
  ASSUME Inv, ActiveInv, NEW f, CheckUnusedRule(f), faults' = 0,
         NEW sp \in ServicePorts(serviceMap),
         NEW k \in WantedKeys(sp, sync.replacementPortsMap)
  PROVE  /\ CreateLibIpvsService(k) \in ipvs.services
              => CreateLibIpvsService(k) \in ipvs'.services
         /\ KeepsServers(sp, k)
<1>1. f = NoFault /\ faults = 0
  BY NoFaultYet, Zenon DEF CheckUnusedRule, Inv
<1>2. sp \in Synced /\ stage = "full"
  BY Zenon DEF CheckUnusedRule, Synced
<1>3. k \in sync.activeServiceMap /\ k \in ServiceKeys
  BY <1>1, <1>2, WantedKeysType, Zenon DEF ActiveInv, Inv
<1> DEFINE gone == ListIpvsService(ipvs) \ sync.activeServiceMap
<1>4. gone \in SUBSET ServiceKeys
  BY ListIpvsServiceType, Zenon DEF Inv, TypeOK
<1>5. {j \in gone : f # <<"service", j>>} = gone /\ f # <<"services">>
  BY <1>1, Zenon DEF NoFault
<1>6. ipvs' = DeleteIpvsService(ipvs, gone)
  BY <1>5, Zenon DEF CheckUnusedRule
<1>7. CreateLibIpvsService(k) \notin Lib(gone)
  BY <1>3, <1>4, LibMember, Zenon
<1> HIDE DEF gone
<1>8. \A d : CreateLibIpvsServer([svc |-> k, dst |-> d]).svc = CreateLibIpvsService(k)
  BY Zenon DEF CreateLibIpvsServer
<1> QED BY <1>6, <1>7, <1>8, Zenon DEF DeleteIpvsService, KeepsServers

\* A step of a full sync or of the loop over the Endpoints items leaves in place
\* what the maps ask for.
LEMMA NothingDisturbed ==
  ASSUME Inv, ActiveInv, Next, faults' = 0, stage \in {"full", "endpointsItems"},
         NEW sp \in ServicePorts(serviceMap),
         NEW k \in WantedKeys(sp, portsMap \cap sync'.replacementPortsMap)
  PROVE  /\ CreateLibIpvsService(k) \in ipvs.services
              => CreateLibIpvsService(k) \in ipvs'.services
         /\ Sole(sp, k) => KeepsServers(sp, k)
<1> DEFINE Goal == /\ CreateLibIpvsService(k) \in ipvs.services
                        => CreateLibIpvsService(k) \in ipvs'.services
                   /\ Sole(sp, k) => KeepsServers(sp, k)
<1> SUFFICES Goal
  BY Zenon
<1>1. k \in ServiceKeys
  BY WantedKeysType, Zenon DEF Inv
<1>2. sync.nodeIPs = NodeIPs
  BY FaultsGrow, Zenon DEF ActiveInv, AfterRead
<1>3. ASSUME ipvs' = ipvs PROVE Goal
  BY <1>3, Zenon DEF KeepsServers
<1>4. ASSUME NEW t \in IpvsTables, t.servers = ipvs.servers,
             ipvs.services \subseteq t.services,
             NEW o \in ServicePorts(serviceMap), NEW keys,
             keys \subseteq AllKeys(InfoOf(o)),
             ipvs' = CreateEndpointRule(t, keys, o)
      PROVE  Goal
  <2>1. ipvs'.services = t.services
    BY <1>4, EndpointRuleServices, Zenon
  <2> QED BY <1>1, <1>2, <1>4, <2>1, EndpointRuleKeeps, Zenon DEF Inv
<1>5. CASE \/ Informers \/ Node
           \/ \E t \in Threads : isInitialized(t) \/ SyncTooEarly(t)
           \/ OnServiceSynced \/ OnEndpointsSynced \/ Loop
  BY <1>3, <1>5, OutsideSteps, Zenon
<1>6. ASSUME NEW x, NEW f,
             \/ Crash \/ SyncNoDummyLink \/ SyncServiceMap(x) \/ SyncEndpointsMap
             \/ SyncReadKernel(f) \/ SyncDecide \/ FullSyncNotBound(x)
             \/ AddCurrentNotBound(x) \/ SyncServices \/ ClearServiceItems
             \/ SyncEndpoints \/ ClearEndpointsItems \/ SyncFinish(f)
      PROVE  Goal
  <2>1. ipvs' = ipvs
    BY <1>6, Zenon DEF Crash, SyncNoDummyLink, SyncServiceMap, SyncEndpointsMap,
         SyncReadKernel, SyncDecide, FullSyncNotBound, AddCurrentNotBound, SyncServices,
         ClearServiceItems, SyncEndpoints, ClearEndpointsItems, SyncFinish, kernelVars
  <2> QED BY <1>3, <2>1, Zenon
<1>7. ASSUME NEW x, NEW f, DeletePrevious(x, f) \/ AddCurrent(x, f) PROVE Goal
  BY <1>7, Zenon DEF DeletePrevious, AddCurrent
<1>8. ASSUME NEW o \in sync.todo, NEW f, FullSyncPort(o, f) PROVE Goal
  <2> DEFINE keys    == HeldKeys(o, InfoOf(o), f)
             has     == keys \cap sync.kernelIpvsMap.services
             created == {j \in keys \ has : f # <<"service", j>>}
             reached == {j \in has \cup created : f # <<"server", j>>}
             t       == AddIpvsService(ipvs, created, InfoOf(o).affinity)
  <2>1. stage = "full" /\ ipvs' = CreateEndpointRule(t, reached, o)
    BY <1>8, Zenon DEF FullSyncPort, InfoOf
  <2>2. o \in ServicePorts(serviceMap)
    BY <1>8, <2>1, Zenon DEF Inv, LoopsVisitEntries
  <2>3. o \in ServicePortNames /\ InfoOf(o) \in ServiceInfo
    BY <2>2, ServicePortsType, Zenon DEF InfoOf, Inv
  <2>4. keys \in SUBSET ServiceKeys
    BY <2>3, HeldTypes, Zenon DEF Inv
  <2>5. created \in SUBSET ServiceKeys /\ ipvs \in IpvsTables
    BY <2>4, Zenon DEF Inv, TypeOK
  <2>6. reached \subseteq AllKeys(InfoOf(o))
    BY HeldKeysAmongAll, Zenon
  <2> HIDE DEF created, reached
  <2>7. t \in IpvsTables
    BY <2>5, AddIpvsServiceType, Zenon
  <2>8. t.servers = ipvs.servers /\ ipvs.services \subseteq t.services
    BY <2>5 DEF AddIpvsService, IpvsTables
  <2> HIDE DEF t, Goal
  <2> QED BY <1>4, <2>1, <2>2, <2>6, <2>7, <2>8, Zenon
<1>9. ASSUME NEW o \in sync.todo, NEW f, SyncEndpointChange(o, f) PROVE Goal
  <2> DEFINE reached == {j \in AllKeys(InfoOf(o)) : f # <<"server", j>>}
  <2>1. CASE InfoOf(o) = Nil
    <3>1. ipvs' = ipvs
      BY <1>9, <2>1 DEF SyncEndpointChange, InfoOf
    <3> QED BY <1>3, <3>1, Zenon
  <2>2. CASE InfoOf(o) # Nil
    <3>1. ipvs' = CreateEndpointRule(ipvs, reached, o)
      BY <1>9, <2>2 DEF SyncEndpointChange, InfoOf
    <3>2. o \in ServicePorts(serviceMap)
      BY <1>9, <2>2, Zenon DEF ServicePorts, InfoOf, Inv, TypeOK, SyncLocals
    <3>3. ipvs \in IpvsTables /\ reached \subseteq AllKeys(InfoOf(o))
      BY Zenon DEF Inv, TypeOK
    <3> HIDE DEF reached, Goal
    <3> QED BY <1>4, <3>1, <3>2, <3>3, Zenon
  <2> QED BY <2>1, <2>2, Zenon
<1>10. ASSUME NEW f, CheckUnusedRule(f) PROVE Goal
  <2>1. sync' = sync
    BY <1>10, Zenon DEF CheckUnusedRule
  <2>2. k \in WantedKeys(sp, sync.replacementPortsMap)
    BY <2>1, WantedKeysMonotone, Zenon
  <2> QED BY <1>10, <2>2, UnusedRuleKeeps, Zenon
<1> HIDE DEF Goal
<1> QED BY <1>5, <1>6, <1>7, <1>8, <1>9, <1>10, NextCases, Zenon

\* While no call has failed, neither a full sync nor a sync of Endpoints changes
\* takes away a rule or a real server that the maps ask for, whatever the other
\* threads do meanwhile.
THEOREM NothingIsDisrupted == Spec => NoDisruption
<1>1. ASSUME Inv, LocalsFresh, ActiveInv, [Next]_vars
      PROVE  [faults' = 0 /\ crashes' = crashes /\ stage \in {"full", "endpointsItems"} =>
                \A sp \in ServicePorts(serviceMap) :
                  \A k \in WantedKeys(sp, portsMap \cap sync'.replacementPortsMap) :
                    /\ CreateLibIpvsService(k) \in ipvs.services
                         => CreateLibIpvsService(k) \in ipvs'.services
                    /\ Sole(sp, k) => KeepsServers(sp, k)]_vars
  <2>1. CASE Next
    BY <1>1, <2>1, NothingDisturbed, Zenon
  <2> QED BY <1>1, <2>1, Zenon
<1> QED BY <1>1, ActiveAlways, PTL DEF Spec, NoDisruption

-----------------------------------------------------------------------------
(* Rules: no real server without its service *)

Orphanless(t) == \A s \in t.servers : s.svc \in t.services

\* None of the calls leaves a real server without its service.
LEMMA CallsLeaveNoOrphans ==
  ASSUME NEW t \in IpvsTables, Orphanless(t), NEW keys, NEW affinity, NEW sp
  PROVE  /\ Orphanless(AddIpvsService(t, keys, affinity))
         /\ Orphanless(DeleteIpvsService(t, keys))
         /\ Orphanless(CreateEndpointRule(t, keys, sp))
<1>1. Orphanless(AddIpvsService(t, keys, affinity))
  BY DEF Orphanless, AddIpvsService, IpvsTables
<1>2. Orphanless(DeleteIpvsService(t, keys))
  BY Zenon DEF Orphanless, DeleteIpvsService
<1>3. \A servers : Orphanless(AddIpvsServer(t, servers))
  BY DEF Orphanless, AddIpvsServer, IpvsTables, CreateLibIpvsServer
<1>4. \A more : AddIpvsServer(t, more).services = t.services
  BY DEF AddIpvsServer, IpvsTables
<1>5. \A more, fewer : /\ DeleteIpvsServer(AddIpvsServer(t, more), fewer).services = t.services
                       /\ DeleteIpvsServer(AddIpvsServer(t, more), fewer).servers
                            \subseteq AddIpvsServer(t, more).servers
  BY DEF DeleteIpvsServer, AddIpvsServer, IpvsTables
<1>6. \A more, fewer : Orphanless(DeleteIpvsServer(AddIpvsServer(t, more), fewer))
  BY <1>3, <1>4, <1>5, Zenon DEF Orphanless
<1>7. Orphanless(CreateEndpointRule(t, keys, sp))
  BY <1>6, Zenon DEF CreateEndpointRule
<1> QED BY <1>1, <1>2, <1>7

\* No step leaves a real server without its service.
LEMMA NoOrphansStep ==
  ASSUME Inv, NoOrphans, Next
  PROVE  NoOrphans'
<1>1. Orphanless(ipvs) /\ ipvs \in IpvsTables /\ (NoOrphans' <=> Orphanless(ipvs'))
  BY Zenon DEF NoOrphans, Orphanless, Inv, TypeOK
<1>2. ASSUME ipvs' = ipvs PROVE Orphanless(ipvs')
  BY <1>1, <1>2
<1>3. CASE \/ Informers \/ Node
           \/ \E t \in Threads : isInitialized(t) \/ SyncTooEarly(t)
           \/ OnServiceSynced \/ OnEndpointsSynced \/ Loop
  BY <1>1, <1>3, OutsideSteps
<1>4. ASSUME NEW x, NEW f,
             \/ Crash \/ SyncNoDummyLink \/ SyncServiceMap(x) \/ SyncEndpointsMap
             \/ SyncReadKernel(f) \/ SyncDecide \/ FullSyncNotBound(x)
             \/ AddCurrentNotBound(x) \/ SyncServices \/ ClearServiceItems
             \/ SyncEndpoints \/ ClearEndpointsItems \/ SyncFinish(f)
      PROVE  NoOrphans'
  <2>1. ipvs' = ipvs
    BY <1>4, Zenon DEF Crash, SyncNoDummyLink, SyncServiceMap, SyncEndpointsMap,
         SyncReadKernel, SyncDecide, FullSyncNotBound, AddCurrentNotBound, SyncServices,
         ClearServiceItems, SyncEndpoints, ClearEndpointsItems, SyncFinish, kernelVars
  <2> QED BY <1>1, <2>1
<1>5. ASSUME NEW x, NEW f, DeletePrevious(x, f) \/ CheckUnusedRule(f) PROVE NoOrphans'
  <2>1. ipvs' = ipvs \/ \E keys : ipvs' = DeleteIpvsService(ipvs, keys)
    BY <1>5 DEF DeletePrevious, CheckUnusedRule
  <2> QED BY <1>1, <2>1, CallsLeaveNoOrphans, Zenon
<1>6. ASSUME NEW x, NEW f, AddCurrent(x, f) PROVE NoOrphans'
  <2>1. \E keys, affinity : ipvs' = AddIpvsService(ipvs, keys, affinity)
    BY <1>6, Zenon DEF AddCurrent
  <2> QED BY <1>1, <2>1, CallsLeaveNoOrphans
<1>7. ASSUME NEW x, NEW f, SyncEndpointChange(x, f) PROVE NoOrphans'
  <2>1. ipvs' = ipvs \/ \E keys : ipvs' = CreateEndpointRule(ipvs, keys, x)
    BY <1>7, Zenon DEF SyncEndpointChange
  <2> QED BY <1>1, <2>1, CallsLeaveNoOrphans, Zenon
<1>8. ASSUME NEW x \in sync.todo, NEW f, FullSyncPort(x, f) PROVE NoOrphans'
  <2> DEFINE info    == serviceMap[x[1]][x[2]]
             keys    == HeldKeys(x, info, f)
             has     == keys \cap sync.kernelIpvsMap.services
             created == {j \in keys \ has : f # <<"service", j>>}
             reached == {j \in has \cup created : f # <<"server", j>>}
             t       == AddIpvsService(ipvs, created, info.affinity)
  <2>1. stage = "full" /\ ipvs' = CreateEndpointRule(t, reached, x)
    BY <1>8, Zenon DEF FullSyncPort
  <2>2. x \in ServicePortNames /\ info \in ServiceInfo
    BY <1>8, <2>1, FullSyncInfo, Zenon
  <2>3. keys \in SUBSET ServiceKeys
    BY <2>2, HeldTypes, Zenon DEF Inv
  <2>4. t \in IpvsTables
    BY <1>1, <2>3, AddIpvsServiceType, Zenon
  <2> HIDE DEF created, reached
  <2>5. Orphanless(t)
    BY <1>1, CallsLeaveNoOrphans, Zenon
  <2> HIDE DEF t
  <2> QED BY <1>1, <2>1, <2>4, <2>5, CallsLeaveNoOrphans, Zenon
<1> QED BY <1>3, <1>4, <1>5, <1>6, <1>7, <1>8, NextCases, Zenon

-----------------------------------------------------------------------------
(* Rules: external addresses and cluster IPs are kept apart *)

\* The port map of a Service object has the object's addresses.
LEMMA ServiceToMapApart ==
  ASSUME ExternalApart, NEW n \in SvcNames, NEW o \in ServiceObjs[n] \cup {Nil}
  PROVE  ApartPorts(serviceToServiceMap(o))
<1>1. CASE o = Nil \/ ShouldSkipService(o)
  BY <1>1, Zenon DEF serviceToServiceMap, ApartPorts, SvcPortsOf
<1>2. CASE o # Nil /\ ~ShouldSkipService(o)
  <2>1. o.clusterIP \in ClusterIPs /\ o.externalIPs \cap ClusterIPs = {}
    BY <1>2, SMTT(30) DEF ExternalApart, ClusterIPs
  <2> DEFINE m == serviceToServiceMap(o)
  <2>2. m = [p \in PortNames |-> IF o.ports[p] = Nil THEN Nil
                                 ELSE NewServiceInfo(o.ports[p], o)]
    BY <1>2 DEF serviceToServiceMap
  <2>3. SvcPortsOf(m) \subseteq PortNames
    BY DEF SvcPortsOf
  <2>4. \A p \in SvcPortsOf(m) : m[p] # Nil
    BY DEF SvcPortsOf
  <2>5. ASSUME NEW p \in SvcPortsOf(m)
        PROVE  m[p].ip = o.clusterIP /\ m[p].externalIPs = o.externalIPs
    <3>1. p \in PortNames /\ m[p] # Nil
      BY <2>3, <2>4, Zenon
    <3> HIDE DEF m
    <3>2. m[p] = NewServiceInfo(o.ports[p], o)
      BY <2>2, <3>1, Zenon
    <3> QED BY <3>2, SMTT(30) DEF NewServiceInfo
  <2> QED BY <2>1, <2>5, Zenon DEF ApartPorts
<1> QED BY <1>1, <1>2, Zenon

\* A Service callback puts such port maps into the change map.
LEMMA ServiceEventApart ==
  ASSUME ExternalApart, Inv, ApartInv, NEW n \in SvcNames,
         NEW new \in ServiceObjs[n] \cup {Nil}, ServiceEvent(n, new)
  PROVE  ApartInv'
<1> DEFINE prev == IF serviceChanges[n] = Nil THEN serviceToServiceMap(svcObj[n])
                                              ELSE serviceChanges[n].previous
           cur  == serviceToServiceMap(new)
<1>1. ApartPorts(prev) /\ ApartPorts(cur)
  BY ServiceToMapApart, Zenon DEF ApartInv
<1>2. /\ dummy' = dummy /\ serviceMap' = serviceMap
      /\ svcObj' = [svcObj EXCEPT ![n] = new]
      /\ serviceChanges' = ServiceChangesUpdate(serviceChanges, n, svcObj[n], new)
  BY Zenon DEF ServiceEvent, mapVars, kernelVars
<1>3. serviceChanges' = [serviceChanges EXCEPT ![n] = IF prev = cur THEN Nil
                                                     ELSE [previous |-> prev, current |-> cur]]
  BY <1>2, Zenon DEF ServiceChangesUpdate
<1> HIDE DEF prev, cur
<1>4. svcObj \in [SvcNames -> ApiService \cup {Nil}] /\ serviceChanges \in ServiceChangeMap
  BY Zenon DEF Inv, TypeOK
<1>5. ASSUME NEW m \in SvcNames, serviceChanges'[m] # Nil
      PROVE  /\ ApartPorts(serviceChanges'[m].previous)
             /\ ApartPorts(serviceChanges'[m].current)
  <2>1. CASE m = n
    <3>1. serviceChanges'[m] = [previous |-> prev, current |-> cur]
      BY <1>3, <1>4, <1>5, <2>1, Zenon DEF ServiceChangeMap
    <3>2. serviceChanges'[m].previous = prev /\ serviceChanges'[m].current = cur
      BY <3>1, SMTT(30)
    <3> QED BY <1>1, <3>2, Zenon
  <2>2. CASE m # n
    <3>1. serviceChanges'[m] = serviceChanges[m]
      BY <1>3, <1>4, <2>2, Zenon DEF ServiceChangeMap
    <3> QED BY <1>5, <3>1, Zenon DEF ApartInv
  <2> QED BY <2>1, <2>2, Zenon
<1>6. \A m \in SvcNames : svcObj'[m] \in ServiceObjs[m] \cup {Nil}
  BY <1>2, <1>4, Zenon DEF ApartInv
<1> QED BY <1>2, <1>5, <1>6, Zenon DEF ApartInv

\* Every step keeps external addresses off the dummy link.
LEMMA ApartStep ==
  ASSUME ExternalApart, Inv, ApartInv, Next
  PROVE  ApartInv'
<1>1. ASSUME UNCHANGED <<svcObj, serviceChanges, serviceMap>>, dummy' \subseteq ClusterIPs
      PROVE  ApartInv'
  BY <1>1, Zenon DEF ApartInv
<1>2. dummy \subseteq ClusterIPs
  BY Zenon DEF ApartInv
<1>3. CASE Informers
  <2>1. PICK n \in SvcNames :
          \/ \E new \in ServiceObjs[n] \cup {Nil} : ServiceEvent(n, new)
          \/ \E new : EndpointsEvent(n, new)
    BY <1>3, Zenon DEF Informers, OnServiceAdd, OnServiceUpdate, OnServiceDelete,
                OnEndpointsAdd, OnEndpointsUpdate, OnEndpointsDelete
  <2>2. ASSUME NEW new, EndpointsEvent(n, new) PROVE ApartInv'
    BY <1>1, <1>2, <2>2, Zenon DEF EndpointsEvent, mapVars, kernelVars
  <2> QED BY <2>1, <2>2, ServiceEventApart, Zenon
<1>4. CASE Crash
  <2>1. /\ svcObj' = [n \in SvcNames |-> Nil] /\ dummy' = dummy
        /\ serviceChanges' = NewServiceChangeMap /\ serviceMap' = NewServiceMap
    BY <1>4, Zenon DEF Crash
  <2>2. \A n \in SvcNames : serviceChanges'[n] = Nil /\ svcObj'[n] = Nil
    BY <2>1 DEF NewServiceChangeMap
  <2>3. ASSUME NEW n \in SvcNames PROVE ApartPorts(serviceMap'[n])
    BY <2>1 DEF NewServiceMap, NoServicePorts, ApartPorts, SvcPortsOf
  <2> QED BY <1>2, <2>1, <2>2, <2>3, Zenon DEF ApartInv
<1>5. ASSUME NEW t, SyncServiceMap(t) PROVE ApartInv'
  <2>1. /\ UNCHANGED <<svcObj, serviceChanges, dummy>>
        /\ serviceMap' = UpdateServiceMap(serviceMap, serviceChanges)
    BY <1>5 DEF SyncServiceMap, objVars, changeVars, kernelVars
  <2>2. ASSUME NEW n \in SvcNames, NEW p \in SvcPortsOf(serviceMap'[n])
        PROVE  /\ serviceMap'[n][p].ip \in ClusterIPs
               /\ serviceMap'[n][p].externalIPs \cap ClusterIPs = {}
    <3>1. p \in PortNames /\ serviceMap'[n][p] # Nil
      BY <2>2, Zenon DEF SvcPortsOf
    <3>2. \/ serviceMap'[n][p] = serviceMap[n][p]
          \/ /\ serviceChanges[n] # Nil /\ p \in SvcPortsOf(serviceChanges[n].current)
             /\ serviceMap'[n][p] = serviceChanges[n].current[p]
      BY <2>1, <3>1, UpdateServiceMapEntry, SMTT(30)
    <3>3. CASE serviceMap'[n][p] = serviceMap[n][p]
      <4>1. p \in SvcPortsOf(serviceMap[n])
        BY <3>1, <3>3, NilAssumption, Zenon DEF SvcPortsOf, Inv, TypeOK
      <4> QED BY <3>3, <4>1, Zenon DEF ApartInv, ApartPorts
    <3> QED BY <3>2, <3>3, Zenon DEF ApartInv, ApartPorts
  <2>3. \A n \in SvcNames : ApartPorts(serviceMap'[n])
    BY <2>2, Zenon DEF ApartPorts
  <2> QED BY <2>1, <2>3, Zenon DEF ApartInv
<1>6. ASSUME ClearServiceItems PROVE ApartInv'
  <2>1. UNCHANGED <<svcObj, serviceMap, dummy>> /\ serviceChanges' = NewServiceChangeMap
    BY <1>6, Zenon DEF ClearServiceItems, objVars, mapVars, kernelVars
  <2>2. \A n \in SvcNames : serviceChanges'[n] = Nil
    BY <2>1 DEF NewServiceChangeMap
  <2> QED BY <2>1, <2>2, Zenon DEF ApartInv
<1> USE DEF objVars, changeVars, mapVars, kernelVars
<1>7. ASSUME NEW sp \in sync.todo, NEW f, FullSyncPort(sp, f) PROVE ApartInv'
  <2>1. UNCHANGED <<svcObj, serviceChanges, serviceMap>>
    BY <1>7, Zenon DEF FullSyncPort
  <2>2. sp \in ServicePorts(serviceMap) /\ dummy' \subseteq dummy \cup {InfoOf(sp).ip}
    BY <1>7, FullSyncPortStep, Zenon DEF Inv, LoopsVisitEntries
  <2>3. InfoOf(sp).ip \in ClusterIPs
    BY <2>2, ApartEntry, Zenon
  <2> QED BY <1>1, <1>2, <2>1, <2>2, <2>3, Zenon
<1>8. ASSUME NEW sp \in sync.todo, NEW f, AddCurrent(sp, f) PROVE ApartInv'
  <2>1. UNCHANGED <<svcObj, serviceChanges, serviceMap>>
    BY <1>8, Zenon DEF AddCurrent
  <2>2. dummy' = dummy \cup {serviceChanges[sp[1]].current[sp[2]].ip}
    BY <1>8, Zenon DEF AddCurrent, AddDummyClusterIp
  <2>3. sp[1] \in SvcNames
    BY Zenon DEF Inv, TypeOK, SyncLocals, ServicePortNames
  <2>4. serviceChanges[sp[1]] # Nil /\ sp[2] \in SvcPortsOf(serviceChanges[sp[1]].current)
    BY <1>8, Zenon DEF AddCurrent, Inv, LoopsVisitEntries
  <2>5. serviceChanges[sp[1]].current[sp[2]].ip \in ClusterIPs
    BY <2>3, <2>4, Zenon DEF ApartInv, ApartPorts
  <2> QED BY <1>1, <1>2, <2>1, <2>2, <2>5, Zenon
<1>9. ASSUME NEW f, CheckUnusedRule(f) PROVE ApartInv'
  <2>1. UNCHANGED <<svcObj, serviceChanges, serviceMap>> /\ dummy' \subseteq dummy
    BY <1>9, Zenon DEF CheckUnusedRule, DeleteDummyClusterIp
  <2> QED BY <1>1, <1>2, <2>1
<1>10. ASSUME NEW x, NEW f,
              \/ SyncEndpointsMap \/ SyncNoDummyLink \/ SyncDecide \/ SyncReadKernel(f)
              \/ FullSyncNotBound(x) \/ AddCurrentNotBound(x) \/ SyncServices
              \/ DeletePrevious(x, f) \/ SyncEndpoints \/ SyncEndpointChange(x, f)
              \/ ClearEndpointsItems \/ SyncFinish(f)
       PROVE  ApartInv'
  <2>1. UNCHANGED <<svcObj, serviceChanges, serviceMap, dummy>>
    BY <1>10, Zenon DEF SyncEndpointsMap, SyncNoDummyLink, SyncDecide, SyncReadKernel,
         FullSyncNotBound, AddCurrentNotBound, SyncServices, DeletePrevious,
         SyncEndpoints, SyncEndpointChange, ClearEndpointsItems, SyncFinish
  <2> QED BY <1>1, <1>2, <2>1
<1>11. CASE \/ Node \/ \E t \in Threads : isInitialized(t) \/ SyncTooEarly(t)
            \/ OnServiceSynced \/ OnEndpointsSynced \/ Loop
  <2>1. UNCHANGED <<svcObj, serviceChanges, serviceMap, dummy>>
    BY <1>11, Zenon DEF Node, Traffic, OtherOpen, OtherClose, isInitialized,
         SyncTooEarly, OnServiceSynced, OnEndpointsSynced, Loop, SyncLoopStart, SyncTick
  <2> QED BY <1>1, <1>2, <2>1
<1> HIDE DEF objVars, changeVars, mapVars, kernelVars
<1> QED BY <1>3, <1>4, <1>5, <1>6, <1>7, <1>8, <1>9, <1>10, <1>11, NextCases, Zenon

-----------------------------------------------------------------------------
(* Rules: the full sync *)

\* What the full sync does for one service port when no call fails: its cluster
\* IP is bound, its rules are there, and the servers under them are made those
\* of the endpoints map, given what was read.
LEMMA FullSyncPortRules ==
  ASSUME Inv, ReadInv, NEW sp \in sync.todo, FullSyncPort(sp, NoFault)
  PROVE  LET K == HeldKeys(sp, InfoOf(sp), NoFault) IN
         /\ K \in SUBSET ServiceKeys
         /\ InfoOf(sp).ip \in dummy'
         /\ ipvs.services \subseteq ipvs'.services /\ Lib(K) \subseteq ipvs'.services
         /\ \A k \in ServiceKeys : \A d \in Servers :
              LET r == [svc |-> k, dst |-> d]
                  s == CreateLibIpvsServer(r)
              IN  s \in ipvs'.servers <=>
                    IF k \notin K THEN s \in ipvs.servers
                    ELSE IF d \in WantedServers(sp)
                         THEN s \in ipvs.servers \/ r \notin sync.kernelIpvsMap.servers
                         ELSE s \in ipvs.servers /\ r \notin sync.kernelIpvsMap.servers
<1> DEFINE K       == HeldKeys(sp, InfoOf(sp), NoFault)
           has     == K \cap sync.kernelIpvsMap.services
           created == K \ has
           t       == AddIpvsService(ipvs, created, InfoOf(sp).affinity)
<1>1. stage = "full"
  BY FullSyncPortStep, Zenon
<1>2. sp \in ServicePortNames /\ InfoOf(sp) \in ServiceInfo
  BY <1>1, FullSyncInfo, Zenon DEF InfoOf
<1>3. K \in SUBSET ServiceKeys /\ ipvs \in IpvsTables
  BY <1>2, HeldTypes, Zenon DEF Inv, TypeOK
<1>4. ipvs' = CreateEndpointRule(t, K, sp)
  <2>1. /\ {k \in K \ has : NoFault # <<"service", k>>} = created
        /\ {k \in has \cup created : NoFault # <<"server", k>>} = K
    BY Zenon DEF NoFault
  <2>2. ipvs' = CreateEndpointRule(
                  AddIpvsService(ipvs, {k \in K \ has : NoFault # <<"service", k>>},
                                 InfoOf(sp).affinity),
                  {k \in has \cup {k \in K \ has : NoFault # <<"service", k>>} :
                     NoFault # <<"server", k>>}, sp)
    BY Zenon DEF FullSyncPort, InfoOf
  <2> HIDE DEF K, has, created
  <2> QED BY <2>1, <2>2, Zenon
<1>5. t \in IpvsTables
  BY <1>3, AddIpvsServiceType, Zenon
<1>6. /\ t.servers = ipvs.servers
      /\ t.services = ipvs.services \cup (Lib(created) \ ipvs.services)
  BY <1>3 DEF AddIpvsService, IpvsTables
<1>7. ipvs'.services = t.services
  BY <1>4, <1>5, EndpointRuleServices, Zenon
<1>8. ASSUME NEW k \in K PROVE CreateLibIpvsService(k) \in t.services
  <2>1. CASE k \in has
    <3>1. CreateLibIpvsService(k) \in Lib(sync.kernelIpvsMap.services)
      BY <2>1 DEF Lib
    <3> QED BY <1>1, <1>6, <3>1, Zenon DEF ReadInv
  <2>2. CASE k \notin has
    <3>1. CreateLibIpvsService(k) \in Lib(created)
      BY <2>2, Zenon DEF Lib
    <3> QED BY <1>6, <3>1, Zenon
  <2> QED BY <2>1, <2>2, Zenon
<1>9. InfoOf(sp).ip \in dummy'
  BY <1>1, Zenon DEF FullSyncPort, InfoOf, AddDummyClusterIp, ReadInv
<1> HIDE DEF K, has, created, t
<1>10. Lib(K) \subseteq ipvs'.services
  BY <1>7, <1>8, Zenon DEF Lib
<1>11. ipvs.services \subseteq ipvs'.services
  BY <1>6, <1>7, Zenon
<1>12. ASSUME NEW k \in ServiceKeys, NEW d \in Servers
       PROVE  LET r == [svc |-> k, dst |-> d]
                  s == CreateLibIpvsServer(r)
              IN  s \in ipvs'.servers <=>
                    IF k \notin K THEN s \in ipvs.servers
                    ELSE IF d \in WantedServers(sp)
                         THEN s \in ipvs.servers \/ r \notin sync.kernelIpvsMap.servers
                         ELSE s \in ipvs.servers /\ r \notin sync.kernelIpvsMap.servers
  <2> DEFINE r == [svc |-> k, dst |-> d]
             s == CreateLibIpvsServer(r)
  <2>1. s \in ipvs'.servers <=>
          IF k \notin K THEN s \in t.servers
          ELSE IF d \in WantedServers(sp)
               THEN \/ s \in t.servers
                    \/ r \notin sync.kernelIpvsMap.servers
                       /\ CreateLibIpvsService(k) \in t.services
               ELSE s \in t.servers /\ r \notin sync.kernelIpvsMap.servers
    BY <1>2, <1>3, <1>4, <1>5, EndpointRuleServers, Zenon DEF Inv
  <2> HIDE DEF r, s
  <2>2. s \in ipvs'.servers <=>
          IF k \notin K THEN s \in ipvs.servers
          ELSE IF d \in WantedServers(sp)
               THEN s \in ipvs.servers \/ r \notin sync.kernelIpvsMap.servers
               ELSE s \in ipvs.servers /\ r \notin sync.kernelIpvsMap.servers
    BY <1>6, <1>8, <2>1, Zenon
  <2> QED BY <2>2, Zenon DEF r, s
<1> QED BY <1>3, <1>9, <1>10, <1>11, <1>12, Zenon DEF K

\* Reading the kernel without a fault shows what is there.
LEMMA ReadKernelExact ==
  ASSUME Inv, NoOrphans, SyncReadKernel(NoFault)
  PROVE  ReadInv'
<1> DEFINE L == ListIpvsService(ipvs)
<1>1. UNCHANGED <<ipvs, dummy>> /\ stage' # "full" /\ kernelClusterMap' = dummy
  BY DEF SyncReadKernel, kernelVars, BuildClusterMap, NoFault
<1>2. sync'.kernelIpvsMap = BuildIpvsMap(NoFault)
  BY Zenon DEF SyncReadKernel, Inv, TypeOK, SyncLocals
<1>3. {k \in L : NoFault # <<"servers", k>>} = L
  BY DEF NoFault
<1>4. BuildIpvsMap(NoFault) = [services |-> L, servers |-> ListIpvsServer(ipvs, L)]
  <2>1. NoFault # <<"services">>
    BY DEF NoFault
  <2> QED BY <1>3, <2>1, Zenon DEF BuildIpvsMap
<1>5. ipvs \in IpvsTables
  BY Zenon DEF Inv, TypeOK
<1>6. L \in SUBSET ServiceKeys
  BY <1>5, ListIpvsServiceType
<1>7. Lib(L) \subseteq ipvs.services
  BY <1>5, <1>6, ListIpvsServiceIs, Zenon DEF Lib
<1>8. ASSUME NEW k \in ServiceKeys PROVE (ServersUnder(k) = ReadUnder(k))'
  <2>1. ASSUME NEW d \in Servers
        PROVE  CreateLibIpvsServer([svc |-> k, dst |-> d]) \in ipvs.servers
                 <=> [svc |-> k, dst |-> d] \in ListIpvsServer(ipvs, L)
    <3>1. CreateLibIpvsServer([svc |-> k, dst |-> d]).svc = CreateLibIpvsService(k)
      BY Zenon DEF CreateLibIpvsServer
    <3>2. CreateLibIpvsServer([svc |-> k, dst |-> d]) \in ipvs.servers => k \in L
      BY <1>5, <3>1, ListIpvsServiceIs, Zenon DEF NoOrphans
    <3>3. [svc |-> k, dst |-> d] \in ListIpvsServer(ipvs, L)
            <=> k \in L /\ CreateLibIpvsServer([svc |-> k, dst |-> d]) \in ipvs.servers
      BY <1>5, ListIpvsServerIs, Zenon
    <3> QED BY <3>2, <3>3, Zenon
  <2> HIDE DEF L
  <2>2. sync'.kernelIpvsMap.servers = ListIpvsServer(ipvs, L)
    BY <1>2, <1>4, SMTT(30)
  <2> QED BY <1>1, <2>1, <2>2, Zenon DEF ServersUnder, ReadUnder
<1> HIDE DEF L
<1>9. sync'.kernelIpvsMap.services = L
  BY <1>2, <1>4, SMTT(30)
<1> QED BY <1>1, <1>7, <1>8, <1>9, Zenon DEF ReadInv

\* The full sync for one service port leaves the wanted keys of the others alone.
LEMMA OthersWantTheSame ==
  ASSUME Inv, ApartInv, ApartInv', NEW sp \in sync.todo, NEW f, FullSyncPort(sp, f),
         NEW o \in ServicePorts(serviceMap), o # sp
  PROVE  WantedKeys(o, sync.replacementPortsMap)' = WantedKeys(o, sync.replacementPortsMap)
<1>1. InfoOf(o).externalIPs \cap ClusterIPs = {}
  BY ApartEntry, Zenon
<1>2. dummy' \subseteq ClusterIPs
  BY Zenon DEF ApartInv
<1>3. (dummy' \ dummy) \cap InfoOf(o).externalIPs = {}
  BY <1>1, <1>2, Zenon
<1> QED BY <1>3, OthersWantNoMore, Zenon

\* The full sync for one service port makes the kernel match for that one too.
LEMMA FullSyncPortExact ==
  ASSUME Inv, ActiveInv, ApartInv, ApartInv', ReadInv, ProgressInv,
         NEW sp \in sync.todo, FullSyncPort(sp, NoFault), faults' = 0
  PROVE  (ReadInv /\ ProgressInv)'
<1> DEFINE held == sync.replacementPortsMap
           K    == HeldKeys(sp, InfoOf(sp), NoFault)
<1>1. /\ stage = "full" /\ stage' = "full"
      /\ UNCHANGED <<serviceMap, endpointsMap, kernelClusterMap>>
      /\ dummy \subseteq dummy'
      /\ sync'.todo = sync.todo \ {sp} /\ sync'.kernelIpvsMap = sync.kernelIpvsMap
      /\ sync'.activeBindIP = sync.activeBindIP \cup {InfoOf(sp).ip}
      /\ sync'.activeServiceMap = sync.activeServiceMap \cup K
  BY FullSyncPortStep, Zenon
<1>2. /\ K \in SUBSET ServiceKeys /\ InfoOf(sp).ip \in dummy'
      /\ ipvs.services \subseteq ipvs'.services /\ Lib(K) \subseteq ipvs'.services
  BY FullSyncPortRules, Zenon
<1>3. sp \in ServicePorts(serviceMap) /\ sp \notin Synced /\ Synced' = Synced \cup {sp}
  BY <1>1, Zenon DEF Inv, LoopsVisitEntries, Synced
<1>4. WantedKeys(sp, held)' = K
  BY HeldKeysAreWanted, Zenon
<1>5. \A o \in Synced : WantedKeys(o, held)' = WantedKeys(o, held)
  BY <1>3, OthersWantTheSame, Zenon DEF Synced
<1>6. \A o : InfoOf(o)' = InfoOf(o) /\ WantedServers(o)' = WantedServers(o)
  BY <1>1, Zenon DEF InfoOf, WantedServers
<1>7. ReadInv'
  BY <1>1, <1>2, Zenon DEF ReadInv
<1>8. sync'.activeBindIP = {InfoOf(o)'.ip : o \in Synced'}
  BY <1>1, <1>3, <1>6, Zenon DEF ProgressInv
<1>9. sync'.activeBindIP \subseteq dummy'
  BY <1>1, <1>2, Zenon DEF ProgressInv
<1> HIDE DEF K
<1>10. (sync.activeServiceMap = UNION {WantedKeys(o, held) : o \in Synced})'
  <2> DEFINE Old(o) == WantedKeys(o, held)
             New(o) == WantedKeys(o, held)'
  <2>1. sync.activeServiceMap = UNION {Old(o) : o \in Synced}
    BY <1>1, Zenon DEF ProgressInv
  <2>2. New(sp) = K /\ \A o \in Synced : New(o) = Old(o)
    BY <1>4, <1>5, Zenon
  <2> DEFINE A == UNION {Old(o) : o \in Synced}
             B == UNION {New(o) : o \in Synced'}
  <2> HIDE DEF Old, New
  <2>3. /\ \A k : k \in A <=> \E o \in Synced : k \in Old(o)
        /\ \A k : k \in B <=> \E o \in Synced' : k \in New(o)
    BY Zenon
  <2> HIDE DEF A, B
  <2>4. \A k : k \in B <=> k \in A \/ k \in K
    BY <1>3, <2>2, <2>3, SMTT(30)
  <2>5. sync'.activeServiceMap = B
    BY <1>1, <2>1, <2>4, Zenon DEF A
  <2> QED BY <2>5, Zenon DEF B, New
<1>11. Lib(sync'.activeServiceMap) \subseteq ipvs'.services
  BY <1>1, <1>2, Zenon DEF ProgressInv, Lib
<1>12. ASSUME NEW k \in ServiceKeys
       PROVE  (/\ SyncedOwners(k) = {} => ServersUnder(k) = ReadUnder(k)
               /\ \A o \in Synced :
                    SyncedOwners(k) = {o} => ServersUnder(k) = WantedServers(o))'
  <2>1. SyncedOwners(k)' = SyncedOwners(k) \cup (IF k \in K THEN {sp} ELSE {})
    BY <1>3, <1>4, <1>5, Zenon DEF SyncedOwners
  <2>2. ReadUnder(k)' = ReadUnder(k)
    BY <1>1, Zenon DEF ReadUnder
  <2>3. /\ SyncedOwners(k) = {} => ServersUnder(k) = ReadUnder(k)
        /\ \A o \in Synced : SyncedOwners(k) = {o} => ServersUnder(k) = WantedServers(o)
    BY <1>1, Zenon DEF ProgressInv
  <2>4. SyncedOwners(k) \subseteq Synced
    BY Zenon DEF SyncedOwners
  <2>5. CASE k \notin K
    <3>1. ServersUnder(k)' = ServersUnder(k)
      <4>1. \A d \in Servers :
              CreateLibIpvsServer([svc |-> k, dst |-> d]) \in ipvs'.servers
                <=> CreateLibIpvsServer([svc |-> k, dst |-> d]) \in ipvs.servers
        BY <2>5, FullSyncPortRules, Zenon DEF K
      <4> QED BY <4>1, Zenon DEF ServersUnder
    <3>2. SyncedOwners(k)' = SyncedOwners(k)
      BY <2>1, <2>5, Zenon
    <3> QED BY <1>6, <2>2, <2>3, <2>4, <3>1, <3>2, Zenon
  <2>6. CASE k \in K
    <3>1. sp \in SyncedOwners(k)' /\ sp \notin SyncedOwners(k)
      BY <1>3, <2>1, <2>4, <2>6, Zenon
    <3>2. ASSUME NEW o, SyncedOwners(k)' = {o} PROVE ServersUnder(k)' = WantedServers(o)'
      <4>1. o = sp /\ SyncedOwners(k) = {}
        BY <2>1, <3>1, <3>2, Zenon
      <4>2. ServersUnder(k) = ReadUnder(k)
        BY <2>3, <4>1, Zenon
      <4>3. \A d \in Servers :
              CreateLibIpvsServer([svc |-> k, dst |-> d]) \in ipvs.servers
                <=> [svc |-> k, dst |-> d] \in sync.kernelIpvsMap.servers
        BY <4>2, Zenon DEF ServersUnder, ReadUnder
      <4>4. \A d \in Servers :
              CreateLibIpvsServer([svc |-> k, dst |-> d]) \in ipvs'.servers
                <=> d \in WantedServers(sp)
        BY <2>6, <4>3, FullSyncPortRules, Zenon DEF K
      <4>5. WantedServers(sp) \in SUBSET Servers
        BY <1>3, ServicePortsType, WantedServersType, Zenon DEF Inv
      <4>6. ServersUnder(k)' = WantedServers(sp)
        BY <4>4, <4>5, Zenon DEF ServersUnder
      <4> QED BY <1>6, <4>1, <4>6, Zenon
    <3> QED BY <3>1, <3>2, Zenon
  <2> QED BY <2>5, <2>6, Zenon
<1> QED BY <1>1, <1>7, <1>8, <1>9, <1>10, <1>11, <1>12, Zenon DEF ProgressInv

\* Every step keeps the kernel matching for the finished service ports.
LEMMA ExactStep ==
  ASSUME Inv, LocalsFresh, ActiveInv, NoOrphans, ApartInv, ApartInv', ExactInv, Next
  PROVE  ExactInv'
<1> SUFFICES ASSUME faults' = 0, stage' \in {"decide", "full"}
             PROVE  (ReadInv /\ ProgressInv)'
  BY Zenon DEF ExactInv, ReadInv, ProgressInv
<1>1. faults = 0 /\ ReadInv /\ ProgressInv
  BY FaultsGrow DEF ExactInv
<1>2. CASE SyncReadKernel(NoFault)
  <2>1. stage' # "full"
    BY <1>2 DEF SyncReadKernel
  <2> QED BY <1>2, <2>1, ReadKernelExact, Zenon DEF ProgressInv
<1>3. CASE SyncDecide
  <2>1. /\ stage = "decide" /\ stage' = "full"
        /\ UNCHANGED <<serviceMap, kernelClusterMap, dummy, ipvs>>
        /\ sync' = [sync EXCEPT !.todo = ServicePorts(serviceMap)]
    BY <1>3 DEF SyncDecide, mapVars, kernelVars
  <2>2. /\ sync'.todo = ServicePorts(serviceMap)
        /\ sync'.activeServiceMap = {} /\ sync'.activeBindIP = {}
        /\ sync'.kernelIpvsMap = sync.kernelIpvsMap
    BY <2>1, Zenon DEF LocalsFresh, Inv, TypeOK, SyncLocals
  <2>3. Synced' = {}
    BY <2>1, <2>2 DEF Synced
  <2>4. ReadInv'
    BY <1>1, <2>1, <2>2 DEF ReadInv
  <2>5. \A k \in ServiceKeys : (ServersUnder(k) = ReadUnder(k))'
    BY <1>1, <2>1, <2>2 DEF ReadInv, ServersUnder, ReadUnder
  <2>6. ProgressInv'
    BY <2>2, <2>3, <2>5, Zenon DEF ProgressInv, Lib
  <2> QED BY <2>4, <2>6
<1>4. ASSUME NEW sp \in sync.todo, FullSyncPort(sp, NoFault)
      PROVE  (ReadInv /\ ProgressInv)'
  BY <1>1, <1>4, FullSyncPortExact, Zenon
<1>5. CASE UNCHANGED <<stage, sync, mapVars, kernelClusterMap, dummy, ipvs>>
  <2>1. UNCHANGED <<stage, sync, serviceMap, endpointsMap, kernelClusterMap, dummy, ipvs>>
    BY <1>5 DEF mapVars
  <2>2. ReadInv'
    BY <1>1, <2>1, Zenon DEF ReadInv, ServersUnder, ReadUnder
  <2>3. ProgressInv'
    <3>1. /\ Synced' = Synced
          /\ \A o : InfoOf(o)' = InfoOf(o) /\ WantedServers(o)' = WantedServers(o)
      BY <2>1, Zenon DEF Synced, ServicePorts, InfoOf, WantedServers
    <3>2. \A o : WantedKeys(o, sync.replacementPortsMap)'
                  = WantedKeys(o, sync.replacementPortsMap)
      BY <2>1, Zenon DEF WantedKeys, ServedExternalIPs, InfoOf
    <3>3. \A k : /\ SyncedOwners(k)' = SyncedOwners(k)
                 /\ ServersUnder(k)' = ServersUnder(k) /\ ReadUnder(k)' = ReadUnder(k)
      BY <2>1, <3>1, <3>2, Zenon DEF SyncedOwners, ServersUnder, ReadUnder
    <3> QED BY <1>1, <2>1, <3>1, <3>2, <3>3, Zenon DEF ProgressInv
  <2> QED BY <2>2, <2>3
<1> QED BY <1>2, <1>3, <1>4, <1>5, FullSyncCases, Zenon

\* The removal of what is not active ends a full sync whose rules match the maps
\* for every service port.
LEMMA FullSyncEnds ==
  ASSUME Inv, ApartInv, ApartInv', ProgressInv, CheckUnusedRule(NoFault)
  PROVE  KernelMatches(sync.replacementPortsMap)'
<1> DEFINE held == sync.replacementPortsMap
           SP   == ServicePorts(serviceMap)
           L    == ListIpvsService(ipvs)
           gone == L \ sync.activeServiceMap
<1>1. /\ stage = "full" /\ sync.todo = {}
      /\ UNCHANGED <<sync, serviceMap, endpointsMap>>
  BY Zenon DEF CheckUnusedRule, mapVars
<1>2. ipvs' = DeleteIpvsService(ipvs, gone)
  <2>1. {k \in gone : NoFault # <<"service", k>>} = gone /\ NoFault # <<"services">>
    BY Zenon DEF NoFault
  <2> QED BY <2>1, Zenon DEF CheckUnusedRule
<1>3. dummy' = dummy \ (dummy \ sync.activeBindIP)
  <2>1. /\ {ip \in dummy \ sync.activeBindIP : NoFault # <<"unbind", ip>>}
             = dummy \ sync.activeBindIP
        /\ NoFault \notin {<<"services">>, <<"addresses">>}
    BY Zenon DEF NoFault
  <2> QED BY <2>1, Zenon DEF CheckUnusedRule, DeleteDummyClusterIp
<1>4. Synced = SP /\ SP' = SP
  BY <1>1, Zenon DEF Synced
<1>5. \A o : InfoOf(o)' = InfoOf(o) /\ WantedServers(o)' = WantedServers(o)
  BY <1>1, Zenon DEF InfoOf, WantedServers
<1>6. ASSUME NEW o \in SP PROVE WantedKeys(o, held)' = WantedKeys(o, held)
  <2>1. InfoOf(o).externalIPs \cap ClusterIPs = {}
    BY ApartEntry, Zenon
  <2>2. dummy \subseteq ClusterIPs /\ dummy' \subseteq ClusterIPs
    BY Zenon DEF ApartInv
  <2>3. ServedExternalIPs(o, InfoOf(o), held)' = ServedExternalIPs(o, InfoOf(o), held)
    BY <1>1, <1>5, <2>1, <2>2, Zenon DEF ServedExternalIPs
  <2> QED BY <1>1, <1>5, <2>3, Zenon DEF WantedKeys
<1>7. sync.activeServiceMap \in SUBSET ServiceKeys /\ ipvs \in IpvsTables
  BY Zenon DEF Inv, TypeOK, SyncLocals
<1>8. gone \in SUBSET ServiceKeys
  BY <1>7, ListIpvsServiceType, Zenon
<1> HIDE DEF gone
<1>9. ipvs' \in IpvsTables
  BY <1>2, <1>7, <1>8, DeleteIpvsServiceType, Zenon
<1>10. ASSUME NEW k \in ServiceKeys
       PROVE  CreateLibIpvsService(k) \in Lib(gone) <=> k \in gone
  BY <1>8, LibMember, Zenon
<1>11. ListIpvsService(ipvs') = sync.activeServiceMap
  <2>1. ASSUME NEW k \in ServiceKeys
        PROVE  k \in ListIpvsService(ipvs') <=> k \in sync.activeServiceMap
    <3>1. k \in ListIpvsService(ipvs') <=> CreateLibIpvsService(k) \in ipvs'.services
      BY <1>9, ListIpvsServiceIs, Zenon
    <3>2. CreateLibIpvsService(k) \in ipvs'.services
            <=> CreateLibIpvsService(k) \in ipvs.services /\ k \notin gone
      BY <1>2, <1>10, Zenon DEF DeleteIpvsService
    <3>3. k \in L <=> CreateLibIpvsService(k) \in ipvs.services
      BY <1>7, ListIpvsServiceIs, Zenon
    <3>4. k \in sync.activeServiceMap => CreateLibIpvsService(k) \in ipvs.services
      BY <1>1, Zenon DEF ProgressInv, Lib
    <3> QED BY <3>1, <3>2, <3>3, <3>4, Zenon DEF gone
  <2>2. ListIpvsService(ipvs') \in SUBSET ServiceKeys
    BY <1>9, ListIpvsServiceType
  <2> QED BY <1>7, <2>1, <2>2, Zenon
<1>12. (ListIpvsService(ipvs) = UNION {WantedKeys(o, held) : o \in SP})'
  <2>1. sync.activeServiceMap = UNION {WantedKeys(o, held) : o \in SP}
    BY <1>1, <1>4, Zenon DEF ProgressInv
  <2> QED BY <1>4, <1>6, <1>11, <2>1, Zenon
<1>13. (dummy = {InfoOf(o).ip : o \in SP})'
  <2>1. dummy' = sync.activeBindIP
    BY <1>1, <1>3, Zenon DEF ProgressInv
  <2> QED BY <1>1, <1>4, <1>5, <2>1, Zenon DEF ProgressInv
<1>14. ASSUME NEW sp \in SP, NEW k \in WantedKeys(sp, held), Owners(k, held)' = {sp}
       PROVE  ListIpvsServer(ipvs', {k}) = [svc: {k}, dst: WantedServers(sp)]
  <2>1. k \in ServiceKeys /\ k \in sync.activeServiceMap
    BY <1>1, <1>4, WantedKeysType, Zenon DEF ProgressInv, Inv
  <2>2. SyncedOwners(k) = {sp}
    BY <1>4, <1>6, <1>14, Zenon DEF SyncedOwners, Owners
  <2>3. ServersUnder(k) = WantedServers(sp)
    BY <1>1, <1>4, <2>1, <2>2, Zenon DEF ProgressInv
  <2>4. WantedServers(sp) \in SUBSET Servers
    BY ServicePortsType, WantedServersType, Zenon DEF Inv
  <2>5. CreateLibIpvsService(k) \notin Lib(gone)
    BY <1>10, <2>1, Zenon DEF gone
  <2>6. ASSUME NEW d \in Servers
        PROVE  [svc |-> k, dst |-> d] \in ListIpvsServer(ipvs', {k})
                 <=> d \in WantedServers(sp)
    <3> DEFINE s == CreateLibIpvsServer([svc |-> k, dst |-> d])
    <3>1. s.svc = CreateLibIpvsService(k)
      BY Zenon DEF CreateLibIpvsServer
    <3>2. s \in ipvs'.servers <=> s \in ipvs.servers
      BY <1>2, <2>5, <3>1, Zenon DEF DeleteIpvsService
    <3>3. s \in ipvs.servers <=> d \in WantedServers(sp)
      BY <2>3, Zenon DEF ServersUnder
    <3> QED BY <1>9, <2>1, <3>2, <3>3, ListIpvsServerIs, Zenon
  <2>7. ListIpvsServer(ipvs', {k}) \in SUBSET [svc: ServiceKeys, dst: Servers]
    BY <1>9, ListIpvsServerType, Zenon
  <2>8. \A r \in ListIpvsServer(ipvs', {k}) : r.svc = k
    <3>1. ASSUME NEW r \in ListIpvsServer(ipvs', {k}) PROVE r.svc = k
      <4>1. r = [svc |-> r.svc, dst |-> r.dst] /\ r.svc \in ServiceKeys
        BY <2>7, Zenon
      <4>2. [svc |-> r.svc, dst |-> r.dst] \in ListIpvsServer(ipvs', {k})
        BY <4>1, Zenon
      <4>3. r.svc \in {k}
        BY <1>9, <4>1, <4>2, ListIpvsServerIs, Zenon
      <4> QED BY <4>3, Zenon
    <3> QED BY <3>1, Zenon
  <2>9. \A r : r \in ListIpvsServer(ipvs', {k})
                 <=> \E d \in Servers : r = [svc |-> k, dst |-> d] /\ d \in WantedServers(sp)
    <3>1. ASSUME NEW r \in ListIpvsServer(ipvs', {k})
          PROVE  r.dst \in Servers /\ r = [svc |-> k, dst |-> r.dst]
      BY <2>7, <2>8, Zenon
    <3> QED BY <2>6, <3>1, Zenon
  <2>10. \A r : r \in [svc: {k}, dst: WantedServers(sp)]
                  <=> \E d \in Servers : r = [svc |-> k, dst |-> d] /\ d \in WantedServers(sp)
    BY <2>4, SMTT(30)
  <2> DEFINE A == ListIpvsServer(ipvs', {k})
             B == [svc: {k}, dst: WantedServers(sp)]
  <2>11. \A r : r \in A <=> r \in B
    BY <2>9, <2>10, Zenon
  <2> HIDE DEF A, B
  <2>12. A = B
    BY <2>11, Zenon
  <2> QED BY <2>12, Zenon DEF A, B
<1> QED BY <1>4, <1>5, <1>6, <1>12, <1>13, <1>14, Zenon DEF KernelMatches

\* Where no external address of a Service object is the cluster IP of one, a full
\* sync before the first failed call leaves exactly the rules, real servers and
\* addresses the maps ask for, whatever the kernel had before, and whatever the
\* other threads, other processes and earlier runs of the proxier did.
THEOREM FullSyncIsExact ==
  ASSUME ExternalApart
  PROVE  Spec => FullSyncExact
<1> DEFINE I == NoOrphans /\ ApartInv /\ ExactInv
<1>1. Init => I
  <2> SUFFICES ASSUME Init PROVE I
    OBVIOUS
  <2>1. NoOrphans /\ ExactInv
    BY Zenon DEF Init, NoOrphans, NoIpvs, ExactInv, ReadInv, ProgressInv
  <2>2. ASSUME NEW n \in SvcNames
        PROVE  svcObj[n] = Nil /\ serviceChanges[n] = Nil /\ ApartPorts(serviceMap[n])
    BY Zenon DEF Init, NewServiceChangeMap, NewServiceMap, NoServicePorts, ApartPorts, SvcPortsOf
  <2>3. dummy = {}
    BY DEF Init
  <2> QED BY <2>1, <2>2, <2>3, Zenon DEF ApartInv
<1>2. Inv /\ LocalsFresh /\ ActiveInv /\ I /\ [Next]_vars => I'
  <2>1. ASSUME I, UNCHANGED vars PROVE I'
    <3>1. /\ UNCHANGED <<stage, sync, serviceMap, endpointsMap, kernelClusterMap>>
          /\ UNCHANGED <<dummy, ipvs, faults, svcObj, serviceChanges>>
      BY <2>1, Zenon DEF vars, ctlVars, mapVars, kernelVars, boundVars, objVars, changeVars
    <3>2. NoOrphans' /\ ApartInv'
      BY <2>1, <3>1, Zenon DEF NoOrphans, ApartInv
    <3>3. ExactInv'
      <4>1. /\ Synced' = Synced
            /\ \A o : InfoOf(o)' = InfoOf(o) /\ WantedServers(o)' = WantedServers(o)
        BY <3>1, Zenon DEF Synced, ServicePorts, InfoOf, WantedServers
      <4>2. \A o : WantedKeys(o, sync.replacementPortsMap)'
                    = WantedKeys(o, sync.replacementPortsMap)
        BY <3>1, Zenon DEF WantedKeys, ServedExternalIPs, InfoOf
      <4>3. \A k : /\ SyncedOwners(k)' = SyncedOwners(k)
                   /\ ServersUnder(k)' = ServersUnder(k) /\ ReadUnder(k)' = ReadUnder(k)
        BY <3>1, <4>1, <4>2, Zenon DEF SyncedOwners, ServersUnder, ReadUnder
      <4>4. ReadInv <=> ReadInv'
        BY <3>1, <4>3, Zenon DEF ReadInv
      <4>5. ProgressInv => ProgressInv'
        BY <3>1, <4>1, <4>2, <4>3, Zenon DEF ProgressInv
      <4> QED BY <2>1, <3>1, <4>4, <4>5, Zenon DEF ExactInv
    <3> QED BY <3>2, <3>3
  <2>2. ASSUME Inv, LocalsFresh, ActiveInv, I, Next PROVE I'
    <3>1. NoOrphans' /\ ApartInv'
      BY <2>2, NoOrphansStep, ApartStep
    <3>2. ExactInv'
      BY <2>2, <3>1, ExactStep
    <3> QED BY <3>1, <3>2
  <2> HIDE DEF I
  <2> QED BY <2>1, <2>2
<1>3. ASSUME Inv, I, I', [Next]_vars
      PROVE  [CheckUnusedRule(NoFault) /\ faults = 0
                => KernelMatches(sync.replacementPortsMap)']_vars
  BY <1>3, FullSyncEnds, Zenon DEF ExactInv
<1> HIDE DEF I
<1> QED BY <1>1, <1>2, <1>3, ActiveAlways, PTL DEF Spec, FullSyncExact

=============================================================================
