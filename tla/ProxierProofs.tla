---------------------------- MODULE ProxierProofs ----------------------------
(***************************************************************************)
(* Type correctness of the proxier, and the loops of syncProxyRules, from  *)
(* facts about the data the proxier works on.  The IPVS table: the two     *)
(* forms of a key translate into each other, and every call turns a table  *)
(* into a table.  The change maps: the types of the conversions and of the *)
(* maps, and what applying the pending changes does to an entry.           *)
(***************************************************************************)
EXTENDS ProxierProperties, TLAPS

-----------------------------------------------------------------------------
(* The two forms of a key *)

\* Translating a key to the kernel's form and back gives the key.
LEMMA KeyRoundTrip ==
  ASSUME NEW k \in ServiceKeys
  PROVE  /\ CreateLibIpvsService(k) \in LibKeys
         /\ CreateInterService(CreateLibIpvsService(k)) = k
BY DEF ServiceKeys, LibKeys, CreateLibIpvsService, CreateInterService, Protocols,
       ToProtocolNumber, ToProtocolString, IPPROTO_TCP, IPPROTO_UDP

\* The same the other way: no key of the kernel is read as an unknown protocol.
LEMMA LibKeyRoundTrip ==
  ASSUME NEW l \in LibKeys
  PROVE  /\ CreateInterService(l) \in ServiceKeys
         /\ CreateLibIpvsService(CreateInterService(l)) = l
BY DEF ServiceKeys, LibKeys, CreateLibIpvsService, CreateInterService, Protocols,
       ToProtocolNumber, ToProtocolString, IPPROTO_TCP, IPPROTO_UDP

\* The keys of the kernel that stand for a set of keys.
LEMMA LibType ==
  ASSUME NEW keys \in SUBSET ServiceKeys
  PROVE  Lib(keys) \in SUBSET LibKeys
BY KeyRoundTrip DEF Lib

\* Different keys stay different in the kernel's form.
LEMMA LibInjective ==
  ASSUME NEW k \in ServiceKeys, NEW j \in ServiceKeys,
         CreateLibIpvsService(k) = CreateLibIpvsService(j)
  PROVE  k = j
<1>1. CreateInterService(CreateLibIpvsService(k)) = k
  BY KeyRoundTrip
<1>2. CreateInterService(CreateLibIpvsService(j)) = j
  BY KeyRoundTrip
<1> QED BY <1>1, <1>2

\* A key is in a set if and only if its form is in that of the set.
LEMMA LibMember ==
  ASSUME NEW keys \in SUBSET ServiceKeys, NEW k \in ServiceKeys
  PROVE  CreateLibIpvsService(k) \in Lib(keys) <=> k \in keys
BY LibInjective DEF Lib

\* Different real servers stay different in the kernel's form.
LEMMA LibServerInjective ==
  ASSUME NEW s \in [svc: ServiceKeys, dst: Servers],
         NEW r \in [svc: ServiceKeys, dst: Servers],
         CreateLibIpvsServer(s) = CreateLibIpvsServer(r)
  PROVE  s = r
<1>1. CreateLibIpvsService(s.svc) = CreateLibIpvsService(r.svc) /\ s.dst = r.dst
  BY DEF CreateLibIpvsServer
<1>2. s.svc = r.svc
  BY <1>1, LibInjective
<1> QED BY <1>1, <1>2

-----------------------------------------------------------------------------
(* Reading the table *)

\* ListIpvsService returns the keys of the services that are there.
LEMMA ListIpvsServiceIs ==
  ASSUME NEW t \in IpvsTables, NEW k \in ServiceKeys
  PROVE  k \in ListIpvsService(t) <=> CreateLibIpvsService(k) \in t.services
<1>1. t.services \subseteq LibKeys
  BY DEF IpvsTables
<1>2. \A l \in t.services : CreateLibIpvsService(CreateInterService(l)) = l
  BY <1>1, LibKeyRoundTrip
<1> QED BY <1>2, KeyRoundTrip DEF ListIpvsService

\* ListIpvsServer returns the real servers that are there under the keys.
LEMMA ListIpvsServerIs ==
  ASSUME NEW t \in IpvsTables, NEW keys, NEW k \in ServiceKeys, NEW d
  PROVE  [svc |-> k, dst |-> d] \in ListIpvsServer(t, keys)
           <=> k \in keys /\ CreateLibIpvsServer([svc |-> k, dst |-> d]) \in t.servers
<1> DEFINE r == [svc |-> k, dst |-> d]
<1>1. t.servers \subseteq [svc: LibKeys, dst: Servers]
  BY DEF IpvsTables
<1>2. CreateLibIpvsServer(r) = [svc |-> CreateLibIpvsService(k), dst |-> d]
  BY DEF CreateLibIpvsServer
<1>3. ASSUME r \in ListIpvsServer(t, keys)
      PROVE  k \in keys /\ CreateLibIpvsServer(r) \in t.servers
  <2>1. PICK s \in t.servers : CreateInterService(s.svc) \in keys /\ r = CreateInterServer(s)
    BY <1>3 DEF ListIpvsServer
  <2>2. k = CreateInterService(s.svc) /\ d = s.dst
    BY <2>1 DEF CreateInterServer
  <2>3. CreateLibIpvsService(k) = s.svc
    BY <1>1, <2>2, LibKeyRoundTrip
  <2>4. CreateLibIpvsServer(r) = s
    BY <1>1, <1>2, <2>2, <2>3
  <2> QED BY <2>1, <2>2, <2>4
<1>4. ASSUME k \in keys, CreateLibIpvsServer(r) \in t.servers
      PROVE  r \in ListIpvsServer(t, keys)
  <2> DEFINE s == CreateLibIpvsServer(r)
  <2>1. CreateInterService(s.svc) = k /\ CreateInterServer(s) = r
    BY <1>2, KeyRoundTrip DEF CreateInterServer
  <2> QED BY <1>4, <2>1 DEF ListIpvsServer
<1> QED BY <1>3, <1>4

-----------------------------------------------------------------------------
(* The types of the calls *)

\* AddIpvsService turns a table into a table.
LEMMA AddIpvsServiceType ==
  ASSUME NEW t \in IpvsTables, NEW keys \in SUBSET ServiceKeys, NEW affinity
  PROVE  AddIpvsService(t, keys, affinity) \in IpvsTables
BY LibType, Zenon DEF AddIpvsService, IpvsTables

\* DeleteIpvsService turns a table into a table.
LEMMA DeleteIpvsServiceType ==
  ASSUME NEW t \in IpvsTables, NEW keys \in SUBSET ServiceKeys
  PROVE  DeleteIpvsService(t, keys) \in IpvsTables
BY DEF DeleteIpvsService, IpvsTables

\* AddIpvsServer turns a table into a table.
LEMMA AddIpvsServerType ==
  ASSUME NEW t \in IpvsTables,
         NEW servers \in SUBSET [svc: ServiceKeys, dst: Servers]
  PROVE  AddIpvsServer(t, servers) \in IpvsTables
<1>1. \A s \in servers : CreateLibIpvsServer(s) \in [svc: LibKeys, dst: Servers]
  BY KeyRoundTrip DEF CreateLibIpvsServer
<1> QED BY <1>1 DEF AddIpvsServer, IpvsTables

\* DeleteIpvsServer turns a table into a table.
LEMMA DeleteIpvsServerType ==
  ASSUME NEW t \in IpvsTables, NEW servers
  PROVE  DeleteIpvsServer(t, servers) \in IpvsTables
BY DEF DeleteIpvsServer, IpvsTables

\* ListIpvsService, read through CreateInterService, returns keys.
LEMMA ListIpvsServiceType ==
  ASSUME NEW t \in IpvsTables
  PROVE  ListIpvsService(t) \in SUBSET ServiceKeys
BY LibKeyRoundTrip DEF ListIpvsService, IpvsTables

\* ListIpvsServer returns real servers under keys.
LEMMA ListIpvsServerType ==
  ASSUME NEW t \in IpvsTables, NEW services
  PROVE  ListIpvsServer(t, services) \in SUBSET [svc: ServiceKeys, dst: Servers]
<1>1. \A s \in t.servers : CreateInterServer(s) \in [svc: ServiceKeys, dst: Servers]
  BY LibKeyRoundTrip DEF CreateInterServer, IpvsTables
<1> QED BY <1>1 DEF ListIpvsServer

\* A kernel without rules has a table.
LEMMA NoIpvsType == NoIpvs \in IpvsTables
BY DEF NoIpvs, IpvsTables

-----------------------------------------------------------------------------
(* The types of the change maps *)

\* A Service object becomes a port map, or nil when it is not proxied.
LEMMA ServiceToMapType ==
  ASSUME NEW service \in ApiService \cup {Nil}
  PROVE  serviceToServiceMap(service) \in ServicePortMap \cup {Nil}
<1>1. CASE service = Nil \/ ShouldSkipService(service)
  BY <1>1 DEF serviceToServiceMap
<1>2. CASE service # Nil /\ ~ShouldSkipService(service)
  <2>1. service \in ApiService /\ service.clusterIP \in IPs
    BY <1>2 DEF ShouldSkipService, IsServiceIPSet, ApiService
  <2>2. \A port \in ApiServicePort : NewServiceInfo(port, service) \in ServiceInfo
    BY <2>1 DEF NewServiceInfo, ServiceInfo, ApiService, ApiServicePort, ToLower,
                Protocols
  <2>3. \A p \in PortNames : service.ports[p] \in ApiServicePort \cup {Nil}
    BY <2>1 DEF ApiService
  <2> QED BY <1>2, <2>2, <2>3 DEF serviceToServiceMap, ServicePortMap
<1> QED BY <1>1, <1>2

\* An Endpoints object becomes a port map.
LEMMA EndpointsToMapType ==
  ASSUME NEW endpoints \in ApiEndpoints \cup {Nil}
  PROVE  endpointsToEndpointsMap(endpoints) \in EndpointsPortMap \cup {Nil}
<1>1. CASE endpoints = Nil
  BY <1>1 DEF endpointsToEndpointsMap
<1>2. CASE endpoints # Nil
  <2>1. \A s \in endpoints.subsets :
          /\ \A a \in s.addresses : a.ip # "" => a.ip \in IPs
          /\ \A q \in s.ports : q.port \in Nat
    BY <1>2 DEF ApiEndpoints, ApiEndpointSubset
  <2>2. ASSUME NEW s \in endpoints.subsets, NEW p \in PortNames
        PROVE  SubsetEndpoints(s, p) \in SUBSET EndpointsInfo
    <3> DEFINE A == {a \in s.addresses : a.ip # ""}
               Q == {q \in s.ports : q.name = p /\ q.port # 0}
               E(x) == [ip |-> x[1].ip, port |-> x[2].port,
                        isLocal |-> x[1].node = Hostname]
    <3>1. ASSUME NEW x \in A \X Q
          PROVE  E(x) \in EndpointsInfo
      <4>1. x[1] \in A /\ x[2] \in Q
        OBVIOUS
      <4>2. x[1].ip \in IPs /\ x[2].port \in Nat
        BY <2>1, <4>1
      <4>3. (x[1].node = Hostname) \in BOOLEAN
        OBVIOUS
      <4> QED BY <4>2, <4>3 DEF EndpointsInfo
    <3>2. SubsetEndpoints(s, p) = {E(x) : x \in A \X Q}
      BY DEF SubsetEndpoints
    <3> HIDE DEF A, Q, E
    <3> QED BY <3>1, <3>2
  <2>3. \A p \in PortNames :
          UNION {SubsetEndpoints(s, p) : s \in endpoints.subsets} \in SUBSET EndpointsInfo
    BY <2>2
  <2> QED BY <1>2, <2>3 DEF endpointsToEndpointsMap, EndpointsPortMap
<1> QED BY <1>1, <1>2

\* Update keeps the Service change map well formed.
LEMMA ServiceUpdateType ==
  ASSUME NEW items \in ServiceChangeMap, NEW n \in SvcNames,
         NEW previous \in ApiService \cup {Nil}, NEW current \in ApiService \cup {Nil}
  PROVE  ServiceChangesUpdate(items, n, previous, current) \in ServiceChangeMap
BY ServiceToMapType DEF ServiceChangesUpdate, ServiceChangeMap, ServiceChange

\* Update keeps the Endpoints change map well formed.
LEMMA EndpointsUpdateType ==
  ASSUME NEW items \in EndpointsChangeMap, NEW n \in SvcNames,
         NEW previous \in ApiEndpoints \cup {Nil}, NEW current \in ApiEndpoints \cup {Nil}
  PROVE  EndpointsChangesUpdate(items, n, previous, current) \in EndpointsChangeMap
BY EndpointsToMapType DEF EndpointsChangesUpdate, EndpointsChangeMap, EndpointsChange

\* The maps and change maps of a process that starts.
LEMMA NewMapTypes ==
  /\ NewServiceChangeMap \in ServiceChangeMap
  /\ NewEndpointsChangeMap \in EndpointsChangeMap
  /\ NewServiceMap \in [SvcNames -> ServicePortMap]
  /\ NewEndpointsMap \in [SvcNames -> EndpointsPortMap]
BY DEF NewServiceChangeMap, NewEndpointsChangeMap, NewServiceMap, NewEndpointsMap,
       ServiceChangeMap, EndpointsChangeMap, NoServicePorts, NoEndpointsPorts,
       ServicePortMap, EndpointsPortMap

-----------------------------------------------------------------------------
(* What applying the changes does *)

\* An entry of a Service with a pending change becomes the entry of the change's
\* current state if there is one, is removed if only the previous state had one,
\* and is left alone otherwise.
LEMMA UpdateServiceMapEntry ==
  ASSUME NEW sm, NEW items, NEW n \in SvcNames, NEW p \in PortNames
  PROVE  UpdateServiceMap(sm, items)[n][p] =
           IF items[n] = Nil THEN sm[n][p]
           ELSE IF p \in SvcPortsOf(items[n].current) THEN items[n].current[p]
           ELSE IF p \in SvcPortsOf(items[n].previous) THEN Nil
           ELSE sm[n][p]
BY DEF UpdateServiceMap, SvcUnmerge, SvcMerge

\* UpdateServiceMap keeps the service map well formed.
LEMMA UpdateServiceMapType ==
  ASSUME NEW sm \in [SvcNames -> ServicePortMap], NEW items \in ServiceChangeMap
  PROVE  UpdateServiceMap(sm, items) \in [SvcNames -> ServicePortMap]
<1>1. ASSUME NEW n \in SvcNames, items[n] # Nil
      PROVE  SvcUnmerge(SvcMerge(sm[n], items[n].current), items[n].previous,
                        SvcPortsOf(items[n].current)) \in ServicePortMap
  <2>1. items[n] \in ServiceChange
    BY <1>1 DEF ServiceChangeMap
  <2>2. \A p \in SvcPortsOf(items[n].current) :
          items[n].current[p] \in ServiceInfo \cup {Nil}
    BY <2>1 DEF ServiceChange, SvcPortsOf, ServicePortMap
  <2> QED BY <2>2 DEF SvcUnmerge, SvcMerge, ServicePortMap
<1> QED BY <1>1 DEF UpdateServiceMap

\* An entry of an Endpoints object with a pending change becomes the entry of
\* the change's current state, with no endpoint if there is none and the previous
\* state had one.
LEMMA UpdateEndpointsMapEntry ==
  ASSUME NEW em, NEW items, NEW n \in SvcNames, NEW p \in PortNames
  PROVE  UpdateEndpointsMap(em, items)[n][p] =
           IF items[n] = Nil THEN em[n][p]
           ELSE IF p \in EpPortsOf(items[n].current) THEN items[n].current[p]
           ELSE IF p \in EpPortsOf(items[n].previous) THEN {}
           ELSE em[n][p]
BY DEF UpdateEndpointsMap, EpUnmerge, EpMerge

\* UpdateEndpointsMap keeps the endpoints map well formed.
LEMMA UpdateEndpointsMapType ==
  ASSUME NEW em \in [SvcNames -> EndpointsPortMap], NEW items \in EndpointsChangeMap
  PROVE  UpdateEndpointsMap(em, items) \in [SvcNames -> EndpointsPortMap]
<1>1. ASSUME NEW n \in SvcNames, items[n] # Nil
      PROVE  EpMerge(EpUnmerge(em[n], items[n].previous), items[n].current)
               \in EndpointsPortMap
  <2>1. items[n] \in EndpointsChange
    BY <1>1 DEF EndpointsChangeMap
  <2>2. \A p \in EpPortsOf(items[n].current) :
          items[n].current[p] \in SUBSET EndpointsInfo
    BY <2>1 DEF EndpointsChange, EpPortsOf, EndpointsPortMap
  <2> QED BY <2>2 DEF EpUnmerge, EpMerge, EndpointsPortMap
<1> QED BY <1>1 DEF UpdateEndpointsMap

-----------------------------------------------------------------------------
(* What applying the changes leaves stale *)

\* The addresses whose flows UpdateServiceMap asks to flush.
LEMMA StaleServicesType ==
  ASSUME NEW sm \in [SvcNames -> ServicePortMap], NEW items
  PROVE  StaleServices(sm, items) \in SUBSET IPs
BY DEF StaleServices, ServicePortMap, ServicePortNames, ServiceInfo

\* The endpoints whose flows detectStaleConnections asks to flush.
LEMMA StaleEndpointsType ==
  ASSUME NEW items \in EndpointsChangeMap
  PROVE  StaleEndpoints(items) \in SUBSET EndpointServicePair
<1>1. \A sp \in ServicePortNames : items[sp[1]] # Nil =>
        \A e \in EndpointsAt(items[sp[1]].previous, sp[2]) : e.ip \in IPs
  BY DEF EndpointsAt, EndpointsChangeMap, EndpointsChange, EndpointsPortMap,
         EndpointsInfo, ServicePortNames
<1> QED BY <1>1 DEF StaleEndpoints, EndpointServicePair

\* The service ports that get their first endpoint.
LEMMA StaleServiceNamesType ==
  ASSUME NEW items
  PROVE  StaleServiceNames(items) \in SUBSET ServicePortNames
BY DEF StaleServiceNames

-----------------------------------------------------------------------------
(* The invariants *)

\* The type invariant is inductive together with what the loops rely on: the
\* entry a loop visits is there, so what is read from it is well typed.
Inv == TypeOK /\ LoopsVisitEntries

\* syncProxyRules runs only while mu is held, every call starts with fresh
\* locals, a loop is left when it has nothing left to visit, and nothing is held
\* or marked active before the first loop.
LocalsFresh ==
  /\ mu = Nil => stage = "none"
  /\ stage = "none" => sync = NoLocals
  /\ stage \in {"endpointsMap", "kernel", "decide", "services", "endpoints", "finish"}
       => sync.todo = {}
  /\ stage \in {"endpointsMap", "kernel", "decide"} =>
       /\ sync.replacementPortsMap = {}
       /\ sync.activeServiceMap = {} /\ sync.activeBindIP = {}

-----------------------------------------------------------------------------
(* Types of the operators of Proxier *)

\* The keys of a service port are keys.
LEMMA KeysType ==
  ASSUME NEW info \in ServiceInfo, NEW external \in SUBSET IPs, NEW ips \in SUBSET IPs
  PROVE  Keys(info, external, ips) \in SUBSET ServiceKeys
BY DEF Keys, Key, ServiceInfo, ServiceKeys

\* The same for the keys of the rules a service port may have.
LEMMA AllKeysType ==
  ASSUME TypeOK, NEW info \in ServiceInfo
  PROVE  AllKeys(info) \in SUBSET ServiceKeys
<1>1. sync.nodeIPs \in SUBSET IPs /\ info.externalIPs \in SUBSET IPs
  BY DEF TypeOK, SyncLocals, ServiceInfo
<1>2. (IF info.nodePort = 0 THEN {} ELSE sync.nodeIPs) \in SUBSET IPs
  BY <1>1
<1> QED BY <1>1, <1>2, KeysType DEF AllKeys

\* The local ports that are held for a service port are local ports, and the keys
\* of the rules installed for it are keys.
LEMMA HeldTypes ==
  ASSUME TypeOK, NEW sp \in ServicePortNames, NEW info \in ServiceInfo, NEW f
  PROVE  /\ ExternalHeld(sp, info, f) \in SUBSET LocalPort
         /\ NodePortHeld(sp, info, f) \in SUBSET LocalPort
         /\ HeldKeys(sp, info, f) \in SUBSET ServiceKeys
<1>1. \A ip \in LocalExternalIPs(info, f) : ip \in IPs
  BY DEF LocalExternalIPs, ServiceInfo
<1>2. \A ip \in IPs : ExternalPortOf(sp, info, ip) \in LocalPort
  BY DEF ExternalPortOf, LocalPort, ServiceInfo
<1>3. NodePortOf(sp, info) \in LocalPort
  BY DEF NodePortOf, LocalPort, ServiceInfo
<1>4. ExternalHeld(sp, info, f) \in SUBSET LocalPort
  BY <1>1, <1>2 DEF ExternalHeld
<1>5. NodePortHeld(sp, info, f) \in SUBSET LocalPort
  BY <1>3 DEF NodePortHeld
<1>6. HeldKeys(sp, info, f) \in SUBSET ServiceKeys
  <2> DEFINE ext == {ip \in info.externalIPs :
                       ip \in LocalExternalIPs(info, f)
                         => ExternalPortOf(sp, info, ip) \in ExternalHeld(sp, info, f)}
             nodes == IF NodePortHeld(sp, info, f) = {} THEN {} ELSE sync.nodeIPs
  <2>1. ext \in SUBSET IPs
    BY DEF ServiceInfo
  <2>2. nodes \in SUBSET IPs
    BY DEF TypeOK, SyncLocals
  <2>3. HeldKeys(sp, info, f) = Keys(info, ext, nodes)
    BY Zenon DEF HeldKeys
  <2> HIDE DEF ext, nodes
  <2> QED BY <2>1, <2>2, <2>3, KeysType
<1> QED BY <1>4, <1>5, <1>6

\* CreateEndpointRule turns a table into a table.
LEMMA EndpointRuleType ==
  ASSUME TypeOK, NEW t \in IpvsTables, NEW keys \in SUBSET ServiceKeys,
         NEW sp \in ServicePortNames
  PROVE  CreateEndpointRule(t, keys, sp) \in IpvsTables
<1> DEFINE dsts == {[ip |-> e.ip, port |-> e.port] : e \in endpointsMap[sp[1]][sp[2]]}
           old == {s \in sync.kernelIpvsMap.servers : s.svc \in keys}
           new == [svc: keys, dst: dsts]
<1>1. endpointsMap[sp[1]][sp[2]] \in SUBSET EndpointsInfo
  BY DEF TypeOK, EndpointsPortMap, ServicePortNames
<1>2. dsts \in SUBSET Servers
  BY <1>1 DEF EndpointsInfo, Servers
<1>3. new \in SUBSET [svc: ServiceKeys, dst: Servers]
  BY <1>2
<1>4. CreateEndpointRule(t, keys, sp) = DeleteIpvsServer(AddIpvsServer(t, new \ old), old \ new)
  BY Zenon DEF CreateEndpointRule
<1> HIDE DEF old, new
<1> QED BY <1>3, <1>4, AddIpvsServerType, DeleteIpvsServerType

\* The locals of a call that has not begun.
LEMMA NoLocalsType == NoLocals \in SyncLocals
BY Zenon DEF NoLocals, SyncLocals, NoIpvsMap

\* What the service map has for one of its service ports.
LEMMA ServicePortsType ==
  ASSUME TypeOK, NEW sp \in ServicePorts(serviceMap)
  PROVE  sp \in ServicePortNames /\ serviceMap[sp[1]][sp[2]] \in ServiceInfo
BY DEF TypeOK, ServicePorts, ServicePortMap, ServicePortNames

\* The entries of the two sides of a pending Service change.
LEMMA ServiceChangeType ==
  ASSUME TypeOK, NEW n \in SvcNames, serviceChanges[n] # Nil
  PROVE  /\ \A p \in SvcPortsOf(serviceChanges[n].previous) :
              serviceChanges[n].previous[p] \in ServiceInfo
         /\ \A p \in SvcPortsOf(serviceChanges[n].current) :
              p \in PortNames /\ serviceChanges[n].current[p] \in ServiceInfo
<1>1. serviceChanges[n] \in ServiceChange
  BY DEF TypeOK, ServiceChangeMap
<1> QED BY <1>1, Zenon DEF ServiceChange, SvcPortsOf, ServicePortMap

\* The full sync visits a service port with an entry in the service map.
LEMMA FullSyncInfo ==
  ASSUME Inv, stage = "full", NEW sp \in sync.todo
  PROVE  sp \in ServicePortNames /\ serviceMap[sp[1]][sp[2]] \in ServiceInfo
<1>1. sp \in ServicePorts(serviceMap)
  BY DEF Inv, LoopsVisitEntries
<1> QED BY <1>1, ServicePortsType DEF Inv

\* The loop over the items visits a service port with an entry in its item.
LEMMA ItemInfo ==
  ASSUME Inv, stage = "serviceItems", NEW sp \in sync.todo
  PROVE  /\ sp \in ServicePortNames
         /\ serviceChanges[sp[1]].current[sp[2]] \in ServiceInfo
<1>1. /\ sp \in ServicePortNames /\ serviceChanges[sp[1]] # Nil
      /\ sp[2] \in SvcPortsOf(serviceChanges[sp[1]].current)
  BY Zenon DEF Inv, TypeOK, SyncLocals, LoopsVisitEntries
<1>2. sp[1] \in SvcNames
  BY <1>1 DEF ServicePortNames
<1> QED BY <1>1, <1>2, ServiceChangeType, Zenon DEF Inv

-----------------------------------------------------------------------------
(* Initial states and steps that touch little *)

\* A process starts in well-typed states.
LEMMA InitInv == Init => Inv
<1> SUFFICES ASSUME Init PROVE Inv
  OBVIOUS
<1>1. pc \in [Threads -> Places] /\ stage \in Stages
  BY DEF Init, StartPc, Threads, Places, Stages
<1>2. /\ svcObj \in [SvcNames -> ApiService \cup {Nil}]
      /\ epObj \in [SvcNames -> ApiEndpoints \cup {Nil}]
  BY DEF Init
<1>3. TypeOK
  BY <1>1, <1>2, NewMapTypes, NoLocalsType, NoIpvsType, Zenon DEF Init, TypeOK
<1> QED BY <1>3 DEF Init, Inv, LoopsVisitEntries

\* A restart keeps the invariant.
LEMMA CrashInv == Inv /\ Crash => Inv'
<1> SUFFICES ASSUME Inv, Crash PROVE Inv'
  OBVIOUS
<1>1. pc' \in [Threads -> Places] /\ stage' \in Stages
  BY DEF Crash, StartPc, Threads, Places, Stages
<1>2. /\ svcObj' \in [SvcNames -> ApiService \cup {Nil}]
      /\ epObj' \in [SvcNames -> ApiEndpoints \cup {Nil}]
  BY DEF Crash
<1>3. crashes' \in Nat
  BY SMTT(30) DEF Inv, TypeOK, Crash
<1>4. /\ serviceChanges' \in ServiceChangeMap
      /\ endpointsChanges' \in EndpointsChangeMap
      /\ serviceMap' \in [SvcNames -> ServicePortMap]
      /\ endpointsMap' \in [SvcNames -> EndpointsPortMap]
  BY NewMapTypes DEF Crash
<1>5. /\ servicesSynced' \in BOOLEAN /\ endpointsSynced' \in BOOLEAN
      /\ initialized' \in BOOLEAN
      /\ mu' \in Threads \cup {Nil} /\ sync' \in SyncLocals
  BY NoLocalsType, Zenon DEF Crash
<1>6. /\ kernelClusterMap' \in SUBSET IPs
      /\ portsMap' \in SUBSET LocalPort /\ sockets' \in SUBSET LocalPort
  BY DEF Crash
<1>7. UNCHANGED <<ipvs, dummy, conntrack, masq, otherSockets, events, faults>>
  BY DEF Crash
<1>8. TypeOK'
  BY <1>1, <1>2, <1>3, <1>4, <1>5, <1>6, <1>7, Zenon DEF Inv, TypeOK
<1> QED BY <1>8, Zenon DEF Inv, LoopsVisitEntries, Crash

\* A Service callback keeps the invariant; it waits for the loop over the items.
LEMMA ServiceEventInv ==
  ASSUME Inv, NEW n \in SvcNames, NEW new \in ApiService \cup {Nil},
         ServiceEvent(n, new)
  PROVE  Inv'
<1>1. svcObj[n] \in ApiService \cup {Nil}
  BY DEF Inv, TypeOK
<1>2. serviceChanges' \in ServiceChangeMap
  BY <1>1, ServiceUpdateType, Zenon DEF Inv, TypeOK, ServiceEvent
<1>3. TypeOK'
  BY <1>2, SMTT(30) DEF Inv, TypeOK, ServiceEvent, mapVars, initVars, kernelVars, Threads, Places
<1>4. LoopsVisitEntries'
  BY Zenon DEF Inv, LoopsVisitEntries, ServiceEvent, ServiceItemsLocked, mapVars
<1> QED BY <1>3, <1>4 DEF Inv

\* An Endpoints callback keeps the invariant.
LEMMA EndpointsEventInv ==
  ASSUME Inv, NEW n \in SvcNames, NEW new \in ApiEndpoints \cup {Nil},
         EndpointsEvent(n, new)
  PROVE  Inv'
<1>1. epObj[n] \in ApiEndpoints \cup {Nil}
  BY DEF Inv, TypeOK
<1>2. endpointsChanges' \in EndpointsChangeMap
  BY <1>1, EndpointsUpdateType, Zenon DEF Inv, TypeOK, EndpointsEvent
<1>3. TypeOK'
  BY <1>2, SMTT(30) DEF Inv, TypeOK, EndpointsEvent, mapVars, initVars, kernelVars, Threads, Places
<1>4. LoopsVisitEntries'
  BY Zenon DEF Inv, LoopsVisitEntries, EndpointsEvent, mapVars
<1> QED BY <1>3, <1>4 DEF Inv

\* Every callback is an event for one object.
LEMMA InformersInv == Inv /\ Informers => Inv'
<1> SUFFICES ASSUME Inv, Informers PROVE Inv'
  OBVIOUS
<1>1. \/ \E n \in SvcNames, new \in ApiService \cup {Nil} : ServiceEvent(n, new)
      \/ \E n \in SvcNames, new \in ApiEndpoints \cup {Nil} : EndpointsEvent(n, new)
  BY ServiceObjsAssumption, EndpointsObjsAssumption, Zenon
     DEF Informers, OnServiceAdd, OnServiceUpdate, OnServiceDelete, OnEndpointsAdd,
         OnEndpointsUpdate, OnEndpointsDelete
<1> QED BY <1>1, ServiceEventInv, EndpointsEventInv

\* A step counts the call that fails in it.
LEMMA FaultType ==
  ASSUME TypeOK, NEW f, Fault(f)
  PROVE  faults' \in Nat
BY DEF Fault, TypeOK

\* A step that leaves the maps, the locals, the rules and the sockets of the proxier
\* alone keeps the invariant if what it does change is well typed.
LEMMA FrameInv ==
  ASSUME Inv,
         UNCHANGED <<objVars, changeVars, mapVars, initVars, mu, stage, sync,
                     kernelClusterMap, portsMap, ipvs, dummy, sockets>>,
         pc' \in [Threads -> Places], conntrack' \in SUBSET Flows, masq' \in BOOLEAN,
         otherSockets' \in SUBSET OtherPorts,
         events' \in Nat, faults' \in Nat, crashes' \in Nat
  PROVE  Inv'
<1>1. /\ UNCHANGED <<svcObj, epObj, serviceChanges, endpointsChanges, serviceMap, endpointsMap>>
      /\ UNCHANGED <<servicesSynced, endpointsSynced, initialized>>
      /\ UNCHANGED <<mu, stage, sync, kernelClusterMap, portsMap, ipvs, dummy, sockets>>
  BY DEF objVars, changeVars, mapVars, initVars
<1>2. TypeOK'
  <2>1. TypeOK BY DEF Inv
  <2> QED BY <1>1, <2>1, Zenon DEF TypeOK
<1>3. LoopsVisitEntries'
  BY <1>1, Zenon DEF Inv, LoopsVisitEntries, ServicePorts
<1> QED BY <1>2, <1>3 DEF Inv

\* The steps of the threads outside syncProxyRules keep the invariant.
LEMMA ThreadsInv ==
  ASSUME Inv,
         \/ \E t \in Threads : isInitialized(t) \/ SyncTooEarly(t)
         \/ OnServiceSynced \/ OnEndpointsSynced \/ Loop
  PROVE  Inv'
<1> USE DEF Inv, TypeOK, LoopsVisitEntries, objVars, changeVars, mapVars, initVars,
            kernelVars, boundVars, Places
<1>1. ASSUME NEW t \in Threads, isInitialized(t) PROVE Inv'
  BY <1>1, Zenon DEF isInitialized
<1>2. ASSUME NEW t \in Threads, SyncTooEarly(t) PROVE Inv'
  BY <1>2, Zenon DEF SyncTooEarly, Returned
<1>3. ASSUME OnServiceSynced PROVE Inv'
  BY <1>3, Zenon DEF OnServiceSynced
<1>4. ASSUME OnEndpointsSynced PROVE Inv'
  BY <1>4, Zenon DEF OnEndpointsSynced
<1>5. ASSUME NEW f, SyncLoopStart(f) \/ SyncTick(f) PROVE Inv'
  <2>1. masq' \in BOOLEAN
    BY <1>5, Zenon DEF SyncLoopStart, SyncTick
  <2>2. faults' \in Nat
    <3> HIDE DEF TypeOK, LoopsVisitEntries
    <3>1. TypeOK /\ Fault(f) BY <1>5, Zenon DEF SyncLoopStart, SyncTick
    <3> QED BY <3>1, FaultType
  <2>3. pc' \in [Threads -> Places]
    BY <1>5, Zenon DEF SyncLoopStart, SyncTick
  <2>4. UNCHANGED <<objVars, changeVars, mapVars, initVars, mu, stage, sync,
                    kernelClusterMap, portsMap, ipvs, dummy, sockets>>
    BY <1>5, Zenon DEF SyncLoopStart, SyncTick
  <2>5. /\ conntrack' \in SUBSET Flows /\ otherSockets' \in SUBSET OtherPorts
        /\ events' \in Nat /\ crashes' \in Nat
    BY <1>5, Zenon DEF SyncLoopStart, SyncTick
  <2> QED BY <2>1, <2>2, <2>3, <2>4, <2>5, FrameInv, Zenon
<1> QED BY <1>1, <1>2, <1>3, <1>4, <1>5, Zenon DEF Loop

\* Traffic and other processes keep the invariant.
LEMMA NodeInv == Inv /\ Node => Inv'
<1> SUFFICES ASSUME Inv, Node PROVE Inv'
  OBVIOUS
<1>1. /\ UNCHANGED <<objVars, changeVars, mapVars, initVars, mu, stage, sync,
                      kernelClusterMap, portsMap, ipvs, dummy, sockets>>
      /\ UNCHANGED <<pc, masq, events, faults, crashes>>
  BY Zenon DEF Node, Traffic, OtherOpen, OtherClose, ctlVars, kernelVars, boundVars
<1>2. /\ pc' \in [Threads -> Places] /\ masq' \in BOOLEAN
      /\ events' \in Nat /\ faults' \in Nat /\ crashes' \in Nat
  BY <1>1, Zenon DEF Inv, TypeOK
<1>3. conntrack \in SUBSET Flows /\ otherSockets \in SUBSET OtherPorts /\ ipvs \in IpvsTables
  BY DEF Inv, TypeOK
<1>4. ASSUME NEW k \in ipvs.services, Traffic(k)
      PROVE  conntrack' \in SUBSET Flows /\ otherSockets' \in SUBSET OtherPorts
  <2>1. k \in LibKeys /\ \A s \in ipvs.servers : s.dst.ip \in IPs
    BY <1>3 DEF IpvsTables, Servers
  <2>2. PICK ip \in IPs \cup {Nil} :
          conntrack' = conntrack \cup {[ip |-> k.ip, port |-> k.port, natIP |-> ip]}
    BY <1>4, <2>1, Zenon DEF Traffic
  <2>3. [ip |-> k.ip, port |-> k.port, natIP |-> ip] \in Flows
    BY <2>1, Zenon DEF Flows, LibKeys
  <2>4. otherSockets' = otherSockets BY <1>4, Zenon DEF Traffic
  <2> QED BY <1>3, <2>2, <2>3, <2>4, Zenon
<1>5. ASSUME NEW lp \in OtherPorts, OtherOpen(lp) \/ OtherClose(lp)
      PROVE  conntrack' \in SUBSET Flows /\ otherSockets' \in SUBSET OtherPorts
  BY <1>3, <1>5 DEF OtherOpen, OtherClose, kernelVars
<1>6. conntrack' \in SUBSET Flows /\ otherSockets' \in SUBSET OtherPorts
  BY <1>4, <1>5, Zenon DEF Node
<1> QED BY <1>1, <1>2, <1>6, FrameInv, Zenon

-----------------------------------------------------------------------------
(* syncProxyRules: reading *)

\* Applying the Service changes keeps the invariant.
LEMMA SyncServiceMapInv ==
  ASSUME Inv, NEW t \in Threads, SyncServiceMap(t)
  PROVE  Inv'
<1>1. serviceMap' \in [SvcNames -> ServicePortMap]
  BY UpdateServiceMapType DEF Inv, TypeOK, SyncServiceMap
<1>2. StaleServices(serviceMap, serviceChanges) \in SUBSET IPs
  BY StaleServicesType, Zenon DEF Inv, TypeOK
<1>3. sync' \in SyncLocals
  BY <1>2, Zenon DEF Inv, TypeOK, SyncServiceMap, SyncLocals
<1>4. stage' = "endpointsMap" /\ mu' \in Threads
  BY DEF SyncServiceMap
<1>5. UNCHANGED <<objVars, changeVars, endpointsMap, initVars, pc,
                  kernelClusterMap, portsMap, kernelVars, otherSockets, boundVars>>
  BY DEF SyncServiceMap
<1>6. TypeOK'
  BY <1>1, <1>3, <1>4, <1>5, Zenon
     DEF Inv, TypeOK, objVars, changeVars, initVars, kernelVars, boundVars, Stages
<1> QED BY <1>4, <1>6, Zenon DEF Inv, LoopsVisitEntries

\* Applying the Endpoints changes keeps the invariant.
LEMMA SyncEndpointsMapInv ==
  ASSUME Inv, SyncEndpointsMap
  PROVE  Inv'
<1> DEFINE first == {sp \in StaleServiceNames(endpointsChanges) : IsUdp(sp)}
           stale == {serviceMap[sp[1]][sp[2]].ip : sp \in first}
<1>1. endpointsMap' \in [SvcNames -> EndpointsPortMap]
  BY UpdateEndpointsMapType DEF Inv, TypeOK, SyncEndpointsMap
<1>2. StaleEndpoints(endpointsChanges) \in SUBSET EndpointServicePair
  BY StaleEndpointsType, Zenon DEF Inv, TypeOK
<1>3. ASSUME NEW sp \in first PROVE serviceMap[sp[1]][sp[2]].ip \in IPs
  <2>1. sp \in ServicePortNames
    BY StaleServiceNamesType, Zenon DEF Inv, TypeOK
  <2>2. sp[1] \in SvcNames /\ sp[2] \in PortNames
    BY <2>1 DEF ServicePortNames
  <2>3. serviceMap[sp[1]][sp[2]] \in ServiceInfo \cup {Nil}
    BY <2>2, Zenon DEF Inv, TypeOK, ServicePortMap
  <2>4. serviceMap[sp[1]][sp[2]] # Nil
    BY Zenon DEF IsUdp
  <2> QED BY <2>3, <2>4, Zenon DEF ServiceInfo
<1>4. stale \in SUBSET IPs
  BY <1>3, Zenon
<1>5. sync' = [sync EXCEPT !.staleEndpoints = StaleEndpoints(endpointsChanges),
                           !.staleServices  = @ \cup stale]
  BY DEF SyncEndpointsMap
<1> HIDE DEF first, stale
<1>6. sync' \in SyncLocals
  BY <1>2, <1>4, <1>5, Zenon DEF Inv, TypeOK, SyncLocals
<1>7. stage' = "kernel"
  BY DEF SyncEndpointsMap
<1>8. UNCHANGED <<objVars, changeVars, serviceMap, initVars, pc, mu,
                  kernelClusterMap, portsMap, kernelVars, otherSockets, boundVars>>
  BY DEF SyncEndpointsMap
<1>9. TypeOK'
  BY <1>1, <1>6, <1>7, <1>8, Zenon
     DEF Inv, TypeOK, objVars, changeVars, initVars, kernelVars, boundVars, Stages
<1> QED BY <1>7, <1>9, Zenon DEF Inv, LoopsVisitEntries

\* A sync that returns for want of the dummy link keeps the invariant.
LEMMA SyncNoDummyLinkInv ==
  ASSUME Inv, SyncNoDummyLink
  PROVE  Inv'
<1>1. faults' \in Nat
  BY FaultType DEF SyncNoDummyLink, Inv
<1>2. pc' \in [Threads -> Places]
  BY Zenon DEF SyncNoDummyLink, Inv, TypeOK, Returned, Places
<1>3. mu' = Nil /\ stage' = "none" /\ sync' = NoLocals
  BY DEF SyncNoDummyLink
<1>4. UNCHANGED <<objVars, changeVars, mapVars, initVars, kernelClusterMap,
                  portsMap, kernelVars, otherSockets, events, crashes>>
  BY DEF SyncNoDummyLink
<1>5. TypeOK'
  BY <1>1, <1>2, <1>3, <1>4, NoLocalsType, Zenon
     DEF Inv, TypeOK, objVars, changeVars, mapVars, initVars, kernelVars, Stages
<1> QED BY <1>3, <1>5, Zenon DEF Inv, LoopsVisitEntries

\* Reading the kernel keeps the invariant.
LEMMA SyncReadKernelInv ==
  ASSUME Inv, NEW f, SyncReadKernel(f)
  PROVE  Inv'
<1>1. faults' \in Nat
  BY FaultType DEF SyncReadKernel, Inv
<1>2. kernelClusterMap' \in SUBSET IPs
  BY DEF SyncReadKernel, BuildClusterMap, Inv, TypeOK
<1>3. BuildIpvsMap(f) \in [services: SUBSET ServiceKeys,
                           servers: SUBSET [svc: ServiceKeys, dst: Servers]]
  BY ListIpvsServiceType, ListIpvsServerType, Zenon DEF BuildIpvsMap, NoIpvsMap, Inv, TypeOK
<1>4. GetNodeIPs(f) \in SUBSET IPs
  BY AddressAssumption DEF GetNodeIPs
<1>5. sync' \in SyncLocals
  BY <1>3, <1>4, Zenon DEF SyncReadKernel, Inv, TypeOK, SyncLocals
<1>6. stage' \in {"decide", "services"}
  BY DEF SyncReadKernel
<1>7. UNCHANGED <<objVars, changeVars, mapVars, initVars, pc, mu, portsMap,
                  kernelVars, otherSockets, events, crashes>>
  BY DEF SyncReadKernel
<1>8. TypeOK'
  BY <1>1, <1>2, <1>5, <1>6, <1>7, Zenon
     DEF Inv, TypeOK, objVars, changeVars, mapVars, initVars, kernelVars, Stages
<1> QED BY <1>6, <1>8, Zenon DEF Inv, LoopsVisitEntries

\* Setting out for a full sync keeps the invariant: the loop visits the entries
\* of the service map.
LEMMA SyncDecideInv ==
  ASSUME Inv, SyncDecide
  PROVE  Inv'
<1>1. ServicePorts(serviceMap) \in SUBSET ServicePortNames
  BY DEF ServicePorts
<1>2. \/ stage' = "full" /\ sync' = [sync EXCEPT !.todo = ServicePorts(serviceMap)]
      \/ stage' = "services" /\ sync' = sync
  BY DEF SyncDecide
<1>3. sync' \in SyncLocals /\ (stage' = "full" => sync'.todo = ServicePorts(serviceMap))
  BY <1>1, <1>2 DEF Inv, TypeOK, SyncLocals
<1>4. UNCHANGED <<objVars, changeVars, mapVars, initVars, pc, mu,
                  kernelClusterMap, portsMap, kernelVars, otherSockets, boundVars>>
  BY DEF SyncDecide
<1>5. TypeOK'
  BY <1>2, <1>3, <1>4
     DEF Inv, TypeOK, objVars, changeVars, mapVars, initVars, kernelVars, boundVars, Stages
<1>6. LoopsVisitEntries'
  BY <1>2, <1>3, <1>4 DEF LoopsVisitEntries, mapVars, ServicePorts
<1> QED BY <1>5, <1>6 DEF Inv

-----------------------------------------------------------------------------
(* syncProxyRules: one service port *)

\* What holding the local ports of a service port does to the kernel.
LEMMA HoldPortsType ==
  ASSUME TypeOK, NEW sp \in ServicePortNames, NEW info \in ServiceInfo, NEW f,
         HoldPorts(sp, info, f)
  PROVE  sockets' \in SUBSET LocalPort /\ conntrack' \in SUBSET Flows
<1>1. sockets' \in SUBSET LocalPort
  BY HeldTypes, Zenon DEF HoldPorts, TypeOK
<1>2. conntrack' \subseteq conntrack
  BY Zenon DEF HoldPorts, ClearUdpConntrackForPort
<1> QED BY <1>1, <1>2, Zenon DEF TypeOK

\* A loop that skips a service port, because its address cannot be bound, keeps
\* the invariant.
LEMMA SkipPortInv ==
  ASSUME Inv, NEW sp \in sync.todo, FullSyncNotBound(sp) \/ AddCurrentNotBound(sp)
  PROVE  Inv'
<1>1. /\ Fault(<<"bind">>)
      /\ sync' = [sync EXCEPT !.todo = @ \ {sp}]
      /\ UNCHANGED <<objVars, changeVars, mapVars, initVars, ctlVars,
                     kernelClusterMap, portsMap, kernelVars, otherSockets, events,
                     crashes>>
  BY DEF FullSyncNotBound, AddCurrentNotBound
<1>2. faults' \in Nat
  BY <1>1, FaultType DEF Inv
<1>3. /\ sync' \in SyncLocals
      /\ sync'.todo \subseteq sync.todo /\ sync'.items = sync.items
  BY <1>1, Zenon DEF Inv, TypeOK, SyncLocals
<1>4. TypeOK'
  BY <1>1, <1>2, <1>3
     DEF Inv, TypeOK, objVars, changeVars, mapVars, initVars, ctlVars, kernelVars
<1>5. LoopsVisitEntries'
  BY <1>1, <1>3 DEF Inv, LoopsVisitEntries, ctlVars, changeVars, mapVars, ServicePorts
<1> QED BY <1>4, <1>5 DEF Inv

\* The full sync of one service port keeps the invariant.
LEMMA FullSyncPortInv ==
  ASSUME Inv, NEW sp \in sync.todo, NEW f, FullSyncPort(sp, f)
  PROVE  Inv'
<1> DEFINE info       == serviceMap[sp[1]][sp[2]]
           keys       == HeldKeys(sp, info, f)
           hasCluster == keys \cap sync.kernelIpvsMap.services
           created    == {k \in keys \ hasCluster : f # <<"service", k>>}
           reached    == {k \in hasCluster \cup created : f # <<"server", k>>}
           held       == ExternalHeld(sp, info, f) \cup NodePortHeld(sp, info, f)
<1>1. sp \in ServicePortNames /\ info \in ServiceInfo
  BY FullSyncInfo, Zenon DEF FullSyncPort
<1>2. keys \in SUBSET ServiceKeys /\ held \in SUBSET LocalPort
  BY <1>1, HeldTypes, Zenon DEF Inv
<1>3. created \in SUBSET ServiceKeys /\ reached \in SUBSET ServiceKeys
  BY <1>2, Zenon
<1>4. /\ Fault(f) /\ HoldPorts(sp, info, f)
      /\ dummy' = IF info.ip \in kernelClusterMap
                  THEN dummy ELSE AddDummyClusterIp(dummy, info.ip)
      /\ ipvs' = CreateEndpointRule(AddIpvsService(ipvs, created, info.affinity),
                                    reached, sp)
      /\ sync' = [sync EXCEPT
           !.todo                = @ \ {sp},
           !.activeBindIP        = @ \cup {info.ip},
           !.activeServiceMap    = @ \cup keys,
           !.replacementPortsMap = @ \cup ExternalHeld(sp, info, f)
                                     \cup NodePortHeld(sp, info, f)]
      /\ UNCHANGED <<objVars, changeVars, mapVars, initVars, ctlVars,
                     kernelClusterMap, portsMap, masq, otherSockets, events, crashes>>
  BY Zenon DEF FullSyncPort
<1>5. info.ip \in IPs
  BY <1>1, Zenon DEF ServiceInfo
<1> HIDE DEF info, keys, created, reached
<1>6. faults' \in Nat
  BY <1>4, FaultType DEF Inv
<1>7. sockets' \in SUBSET LocalPort /\ conntrack' \in SUBSET Flows
  BY <1>1, <1>4, HoldPortsType DEF Inv
<1>8. dummy' \in SUBSET IPs
  BY <1>4, <1>5 DEF Inv, TypeOK, AddDummyClusterIp
<1>9. ipvs' \in IpvsTables
  <2>1. AddIpvsService(ipvs, created, info.affinity) \in IpvsTables
    BY <1>3, AddIpvsServiceType, Zenon DEF Inv, TypeOK
  <2> QED BY <1>1, <1>3, <1>4, <2>1, EndpointRuleType DEF Inv
<1>10. /\ sync' \in SyncLocals
       /\ sync'.todo \subseteq sync.todo /\ sync'.items = sync.items
  BY <1>2, <1>4, <1>5, Zenon DEF Inv, TypeOK, SyncLocals
<1>11. TypeOK'
  BY <1>4, <1>6, <1>7, <1>8, <1>9, <1>10
     DEF Inv, TypeOK, objVars, changeVars, mapVars, initVars, ctlVars
<1>12. LoopsVisitEntries'
  BY <1>4, <1>10 DEF Inv, LoopsVisitEntries, ctlVars, changeVars, mapVars, ServicePorts
<1> QED BY <1>11, <1>12 DEF Inv

\* Removing the unused rules keeps the invariant.
LEMMA CheckUnusedRuleInv ==
  ASSUME Inv, NEW f, CheckUnusedRule(f)
  PROVE  Inv'
<1> DEFINE unused == {k \in ListIpvsService(ipvs) \ sync.activeServiceMap :
                        f # <<"service", k>>}
<1>1. faults' \in Nat
  BY FaultType, Zenon DEF CheckUnusedRule, Inv
<1>2. unused \in SUBSET ServiceKeys
  BY ListIpvsServiceType, Zenon DEF Inv, TypeOK
<1>3. ipvs' = ipvs \/ ipvs' = DeleteIpvsService(ipvs, unused)
  BY Zenon DEF CheckUnusedRule
<1> HIDE DEF unused
<1>4. ipvs' \in IpvsTables
  BY <1>2, <1>3, DeleteIpvsServiceType, Zenon DEF Inv, TypeOK
<1>5. dummy' \subseteq dummy
  BY Zenon DEF CheckUnusedRule, DeleteDummyClusterIp
<1>6. stage' = "services"
  BY Zenon DEF CheckUnusedRule
<1>7. UNCHANGED <<objVars, changeVars, mapVars, initVars, pc, mu, sync,
                  kernelClusterMap, portsMap, sockets, conntrack, masq,
                  otherSockets, events, crashes>>
  BY Zenon DEF CheckUnusedRule
<1>8. TypeOK'
  BY <1>1, <1>4, <1>5, <1>6, <1>7, Zenon
     DEF Inv, TypeOK, objVars, changeVars, mapVars, initVars, Stages
<1> QED BY <1>6, <1>8, Zenon DEF Inv, LoopsVisitEntries

-----------------------------------------------------------------------------
(* syncProxyRules: Service changes *)

\* Locking the Service changes keeps the invariant.
LEMMA SyncServicesInv ==
  ASSUME Inv, SyncServices, sync.todo = {}
  PROVE  Inv'
<1>1. \/ stage' = "endpoints" /\ sync' = sync
      \/ /\ stage' = "serviceItems"
         /\ sync' = [sync EXCEPT !.items = ServicesPending(serviceChanges)]
  BY DEF SyncServices
<1>2. ServicesPending(serviceChanges) \in SUBSET SvcNames
  BY DEF ServicesPending
<1>3. /\ sync' \in SyncLocals /\ sync'.todo = {}
      /\ stage' = "serviceItems" => sync'.items = ServicesPending(serviceChanges)
  BY <1>1, <1>2 DEF Inv, TypeOK, SyncLocals
<1>4. UNCHANGED <<objVars, changeVars, mapVars, initVars, pc, mu,
                  kernelClusterMap, portsMap, kernelVars, otherSockets, boundVars>>
  BY DEF SyncServices
<1>5. TypeOK'
  BY <1>1, <1>3, <1>4
     DEF Inv, TypeOK, objVars, changeVars, mapVars, initVars, kernelVars, boundVars, Stages
<1>6. LoopsVisitEntries'
  BY <1>1, <1>3, <1>4 DEF LoopsVisitEntries, changeVars
<1> QED BY <1>5, <1>6 DEF Inv

\* Deleting the rules of an item's previous state keeps the invariant: the loop
\* over its current ports visits ports that the item has.
LEMMA DeletePreviousInv ==
  ASSUME Inv, NEW n \in sync.items, NEW f, DeletePrevious(n, f)
  PROVE  Inv'
<1> DEFINE deleted == {k \in PreviousKeys(n) : f # <<"service", k>>}
           ports   == SvcPortsOf(serviceChanges[n].current)
<1>1. n \in SvcNames /\ serviceChanges[n] # Nil
  BY DEF Inv, LoopsVisitEntries, DeletePrevious, ServicesPending
<1>2. PreviousKeys(n) \in SUBSET ServiceKeys
  <2>1. \A p \in SvcPortsOf(serviceChanges[n].previous) :
          AllKeys(serviceChanges[n].previous[p]) \in SUBSET ServiceKeys
    BY <1>1, ServiceChangeType, AllKeysType, Zenon DEF Inv
  <2> QED BY <2>1 DEF PreviousKeys
<1>3. ports \in SUBSET PortNames
  BY Zenon DEF SvcPortsOf
<1>4. /\ Fault(f)
      /\ ipvs' = DeleteIpvsService(ipvs, deleted)
      /\ sync' = [sync EXCEPT !.items = @ \ {n}, !.todo = {n} \X ports]
      /\ UNCHANGED <<objVars, changeVars, mapVars, initVars, ctlVars,
                     kernelClusterMap, portsMap, dummy, sockets, conntrack, masq,
                     otherSockets, events, crashes>>
  BY DEF DeletePrevious
<1>5. stage' = "serviceItems"
  BY DEF DeletePrevious, ctlVars
<1>6. faults' \in Nat
  BY <1>4, FaultType DEF Inv
<1>7. ipvs' \in IpvsTables
  <2>1. deleted \in SUBSET ServiceKeys
    BY <1>2, Zenon
  <2> HIDE DEF deleted
  <2> QED BY <1>4, <2>1, DeleteIpvsServiceType DEF Inv, TypeOK
<1>8. \A sp \in {n} \X ports : sp[1] = n /\ sp[2] \in ports
  BY Zenon
<1> HIDE DEF deleted, ports
<1>9. {n} \X ports \in SUBSET ServicePortNames
  BY <1>1, <1>3, Zenon DEF ServicePortNames
<1>10. /\ sync' \in SyncLocals
       /\ sync'.todo = {n} \X ports /\ sync'.items \subseteq sync.items
  BY <1>4, <1>9, Zenon DEF Inv, TypeOK, SyncLocals
<1>11. TypeOK'
  BY <1>4, <1>6, <1>7, <1>10
     DEF Inv, TypeOK, objVars, changeVars, mapVars, initVars, ctlVars
<1>12. LoopsVisitEntries'
  <2>1. stage = "serviceItems" /\ serviceChanges' = serviceChanges
    BY <1>4 DEF DeletePrevious, changeVars
  <2>2. sync'.items \subseteq ServicesPending(serviceChanges)
    BY <1>10, <2>1, Zenon DEF Inv, LoopsVisitEntries
  <2>3. \A sp \in sync'.todo :
          /\ serviceChanges[sp[1]] # Nil
          /\ sp[2] \in SvcPortsOf(serviceChanges[sp[1]].current)
    BY <1>1, <1>8, <1>10, Zenon DEF ports
  <2> QED BY <1>5, <2>1, <2>2, <2>3, Zenon DEF LoopsVisitEntries
<1> QED BY <1>11, <1>12 DEF Inv

\* Adding the rules of one current port of an item keeps the invariant.
LEMMA AddCurrentInv ==
  ASSUME Inv, NEW sp \in sync.todo, NEW f, AddCurrent(sp, f)
  PROVE  Inv'
<1> DEFINE info == serviceChanges[sp[1]].current[sp[2]]
           keys == {k \in HeldKeys(sp, info, f) : f # <<"service", k>>}
           held == ExternalHeld(sp, info, f) \cup NodePortHeld(sp, info, f)
<1>1. sp \in ServicePortNames /\ info \in ServiceInfo
  BY ItemInfo, Zenon DEF AddCurrent
<1>2. HeldKeys(sp, info, f) \in SUBSET ServiceKeys /\ held \in SUBSET LocalPort
  BY <1>1, HeldTypes, Zenon DEF Inv
<1>3. keys \in SUBSET ServiceKeys
  BY <1>2, Zenon
<1>4. /\ Fault(f) /\ HoldPorts(sp, info, f)
      /\ dummy' = AddDummyClusterIp(dummy, info.ip)
      /\ ipvs' = AddIpvsService(ipvs, keys, info.affinity)
      /\ sync' = [sync EXCEPT
           !.todo                = @ \ {sp},
           !.replacementPortsMap = @ \cup ExternalHeld(sp, info, f)
                                     \cup NodePortHeld(sp, info, f)]
      /\ UNCHANGED <<objVars, changeVars, mapVars, initVars, ctlVars,
                     kernelClusterMap, portsMap, masq, otherSockets, events, crashes>>
  BY Zenon DEF AddCurrent
<1>5. info.ip \in IPs
  BY <1>1, Zenon DEF ServiceInfo
<1> HIDE DEF info, keys
<1>6. faults' \in Nat
  BY <1>4, FaultType DEF Inv
<1>7. sockets' \in SUBSET LocalPort /\ conntrack' \in SUBSET Flows
  BY <1>1, <1>4, HoldPortsType DEF Inv
<1>8. dummy' \in SUBSET IPs /\ ipvs' \in IpvsTables
  BY <1>3, <1>4, <1>5, AddIpvsServiceType DEF Inv, TypeOK, AddDummyClusterIp
<1>9. /\ sync' \in SyncLocals
      /\ sync'.todo \subseteq sync.todo /\ sync'.items = sync.items
  BY <1>2, <1>4, Zenon DEF Inv, TypeOK, SyncLocals
<1>10. TypeOK'
  BY <1>4, <1>6, <1>7, <1>8, <1>9
     DEF Inv, TypeOK, objVars, changeVars, mapVars, initVars, ctlVars
<1>11. LoopsVisitEntries'
  BY <1>4, <1>9 DEF Inv, LoopsVisitEntries, ctlVars, changeVars, mapVars, ServicePorts
<1> QED BY <1>10, <1>11 DEF Inv

\* Emptying the Service change map keeps the invariant.
LEMMA ClearServiceItemsInv ==
  ASSUME Inv, ClearServiceItems
  PROVE  Inv'
<1>1. serviceChanges' \in ServiceChangeMap /\ stage' = "endpoints"
  BY NewMapTypes, Zenon DEF ClearServiceItems
<1>2. UNCHANGED <<objVars, endpointsChanges, mapVars, initVars, pc, mu, sync,
                  kernelClusterMap, portsMap, kernelVars, otherSockets, boundVars>>
  BY Zenon DEF ClearServiceItems
<1>3. TypeOK'
  BY <1>1, <1>2, Zenon
     DEF Inv, TypeOK, objVars, mapVars, initVars, kernelVars, boundVars, Stages
<1> QED BY <1>1, <1>3, Zenon DEF Inv, LoopsVisitEntries

-----------------------------------------------------------------------------
(* syncProxyRules: Endpoints changes, and the end *)

\* Locking the Endpoints changes keeps the invariant.
LEMMA SyncEndpointsInv ==
  ASSUME Inv, SyncEndpoints
  PROVE  Inv'
<1> DEFINE changed == UNION {ChangedPorts(n) : n \in EndpointsPending(endpointsChanges)}
<1>1. \/ stage' = "finish" /\ sync' = sync
      \/ stage' = "endpointsItems" /\ sync' = [sync EXCEPT !.todo = changed]
  BY DEF SyncEndpoints
<1>2. \A n \in SvcNames : ChangedPorts(n) \in SUBSET ServicePortNames
  BY Zenon DEF ChangedPorts, EpPortsOf, ServicePortNames
<1>3. changed \in SUBSET ServicePortNames
  BY <1>2 DEF EndpointsPending
<1> HIDE DEF changed
<1>4. sync' \in SyncLocals
  BY <1>1, <1>3 DEF Inv, TypeOK, SyncLocals
<1>5. UNCHANGED <<objVars, changeVars, mapVars, initVars, pc, mu,
                  kernelClusterMap, portsMap, kernelVars, otherSockets, boundVars>>
  BY DEF SyncEndpoints
<1>6. TypeOK'
  BY <1>1, <1>4, <1>5
     DEF Inv, TypeOK, objVars, changeVars, mapVars, initVars, kernelVars, boundVars, Stages
<1> QED BY <1>1, <1>6 DEF Inv, LoopsVisitEntries

\* Setting the real servers of one changed port keeps the invariant.
LEMMA SyncEndpointChangeInv ==
  ASSUME Inv, NEW sp \in sync.todo, NEW f, SyncEndpointChange(sp, f)
  PROVE  Inv'
<1> DEFINE info == serviceMap[sp[1]][sp[2]]
           keys == {k \in AllKeys(info) : f # <<"server", k>>}
<1>1. sp \in ServicePortNames
  BY Zenon DEF Inv, TypeOK, SyncLocals
<1>2. info \in ServiceInfo \cup {Nil}
  <2>1. sp[1] \in SvcNames /\ sp[2] \in PortNames
    BY <1>1, Zenon DEF ServicePortNames
  <2>2. serviceMap \in [SvcNames -> ServicePortMap]
    BY Zenon DEF Inv, TypeOK
  <2> QED BY <2>1, <2>2, Zenon DEF ServicePortMap
<1>3. /\ Fault(f) /\ stage = "endpointsItems"
      /\ ipvs' = IF info = Nil THEN ipvs ELSE CreateEndpointRule(ipvs, keys, sp)
      /\ sync' = [sync EXCEPT !.todo = @ \ {sp}]
      /\ UNCHANGED <<objVars, changeVars, mapVars, initVars, ctlVars,
                     kernelClusterMap, portsMap, dummy, sockets, conntrack, masq,
                     otherSockets, events, crashes>>
  BY DEF SyncEndpointChange
<1>4. faults' \in Nat
  BY <1>3, FaultType DEF Inv
<1>5. info # Nil => keys \in SUBSET ServiceKeys
  BY <1>2, AllKeysType, Zenon DEF Inv
<1> HIDE DEF info, keys
<1>6. ipvs' \in IpvsTables
  <2>1. CASE info = Nil
    BY <1>3, <2>1 DEF Inv, TypeOK
  <2>2. CASE info # Nil
    BY <1>1, <1>3, <1>5, <2>2, EndpointRuleType DEF Inv, TypeOK
  <2> QED BY <2>1, <2>2, Zenon
<1>7. sync' \in SyncLocals
  BY <1>3, Zenon DEF Inv, TypeOK, SyncLocals
<1>8. TypeOK'
  BY <1>3, <1>4, <1>6, <1>7
     DEF Inv, TypeOK, objVars, changeVars, mapVars, initVars, ctlVars
<1> QED BY <1>3, <1>8 DEF Inv, LoopsVisitEntries, ctlVars

\* Emptying the Endpoints change map keeps the invariant.
LEMMA ClearEndpointsItemsInv ==
  ASSUME Inv, ClearEndpointsItems
  PROVE  Inv'
<1>1. endpointsChanges' \in EndpointsChangeMap /\ stage' = "finish"
  BY NewMapTypes, Zenon DEF ClearEndpointsItems
<1>2. UNCHANGED <<objVars, serviceChanges, mapVars, initVars, pc, mu, sync,
                  kernelClusterMap, portsMap, kernelVars, otherSockets, boundVars>>
  BY Zenon DEF ClearEndpointsItems
<1>3. TypeOK'
  BY <1>1, <1>2, Zenon
     DEF Inv, TypeOK, objVars, mapVars, initVars, kernelVars, boundVars, Stages
<1> QED BY <1>1, <1>3, Zenon DEF Inv, LoopsVisitEntries

\* The end of a sync keeps the invariant.
LEMMA SyncFinishInv ==
  ASSUME Inv, NEW f, SyncFinish(f)
  PROVE  Inv'
<1>1. faults' \in Nat
  BY FaultType, Zenon DEF SyncFinish, Inv
<1>2. sockets' \in SUBSET LocalPort /\ portsMap' \in SUBSET LocalPort
  BY Zenon DEF SyncFinish, UnusedPorts, Inv, TypeOK, SyncLocals
<1>3. conntrack' \in SUBSET Flows
  BY Zenon DEF SyncFinish, Inv, TypeOK, deleteEndpointConnections,
         ClearUDPConntrackForPeers, ClearUDPConntrackForIP
<1>4. pc' \in [Threads -> Places]
  BY Zenon DEF SyncFinish, Inv, TypeOK, Returned, Places
<1>5. mu' = Nil /\ stage' = "none" /\ sync' = NoLocals
  BY Zenon DEF SyncFinish
<1>6. UNCHANGED <<objVars, changeVars, mapVars, initVars, kernelClusterMap,
                  ipvs, dummy, masq, otherSockets, events, crashes>>
  BY Zenon DEF SyncFinish
<1>7. TypeOK'
  BY <1>1, <1>2, <1>3, <1>4, <1>5, <1>6, NoLocalsType, Zenon
     DEF Inv, TypeOK, objVars, changeVars, mapVars, initVars, Stages
<1> QED BY <1>5, <1>7, Zenon DEF Inv, LoopsVisitEntries

-----------------------------------------------------------------------------
(* The theorems *)

\* The steps of the specification, one by one.
LEMMA NextCases ==
  ASSUME Next
  PROVE  \/ Informers \/ Node \/ Crash
         \/ \E t \in Threads : isInitialized(t) \/ SyncTooEarly(t)
         \/ OnServiceSynced \/ OnEndpointsSynced \/ Loop
         \/ \E t \in Threads : SyncServiceMap(t)
         \/ SyncEndpointsMap \/ SyncNoDummyLink \/ SyncDecide
         \/ \E f \in ReadCalls : SyncReadKernel(f)
         \/ \E sp \in sync.todo : FullSyncNotBound(sp) \/ AddCurrentNotBound(sp)
         \/ \E sp \in sync.todo : \E f \in PortCalls(serviceMap[sp[1]][sp[2]]) :
              FullSyncPort(sp, f)
         \/ \E f \in UnusedCalls : CheckUnusedRule(f)
         \/ SyncServices
         \/ \E n \in sync.items :
              \E f \in {NoFault} \cup {<<"service", k>> : k \in PreviousKeys(n)} :
                DeletePrevious(n, f)
         \/ \E sp \in sync.todo :
              \E f \in PortCalls(serviceChanges[sp[1]].current[sp[2]]) : AddCurrent(sp, f)
         \/ ClearServiceItems \/ SyncEndpoints
         \/ \E sp \in sync.todo : \E f \in ServerCalls(serviceMap[sp[1]][sp[2]]) :
              SyncEndpointChange(sp, f)
         \/ ClearEndpointsItems
         \/ \E f \in FlushCalls : SyncFinish(f)
<1>1. CASE SyncStep
  <2>1. CASE FullSync
    BY <2>1, Zenon DEF FullSync
  <2>2. CASE ServiceItemsSync
    BY <2>2, Zenon DEF ServiceItemsSync
  <2>3. CASE EndpointsItemsSync
    BY <2>3, Zenon DEF EndpointsItemsSync
  <2>4. CASE SyncRead
    BY <2>4, Zenon DEF SyncRead
  <2> QED BY <1>1, <2>1, <2>2, <2>3, <2>4, Zenon DEF SyncStep
<1>2. CASE \E t \in Threads : isInitialized(t) \/ SyncBegin(t)
  BY <1>2, Zenon DEF SyncBegin
<1> QED BY <1>1, <1>2, Zenon DEF Next

\* What a step outside syncProxyRules leaves alone.
LEMMA OutsideSteps ==
  ASSUME \/ Informers \/ Node
         \/ \E t \in Threads : isInitialized(t) \/ SyncTooEarly(t)
         \/ OnServiceSynced \/ OnEndpointsSynced \/ Loop
  PROVE  UNCHANGED <<mu, stage, sync, mapVars, kernelClusterMap, portsMap, sockets,
                     dummy, ipvs>>
<1> USE DEF ctlVars, kernelVars
<1>1. CASE Informers
  BY <1>1, Zenon DEF Informers, OnServiceAdd, OnServiceUpdate, OnServiceDelete, OnEndpointsAdd,
              OnEndpointsUpdate, OnEndpointsDelete, ServiceEvent, EndpointsEvent
<1>2. CASE Node
  BY <1>2, Zenon DEF Node, Traffic, OtherOpen, OtherClose
<1>3. CASE \E t \in Threads : isInitialized(t) \/ SyncTooEarly(t)
  BY <1>3, Zenon DEF isInitialized, SyncTooEarly
<1>4. CASE OnServiceSynced \/ OnEndpointsSynced
  BY <1>4, Zenon DEF OnServiceSynced, OnEndpointsSynced
<1>5. CASE Loop
  <2>1. PICK f \in MasqCalls : SyncLoopStart(f) \/ SyncTick(f)
    BY <1>5 DEF Loop
  <2> QED BY <2>1, Zenon DEF SyncLoopStart, SyncTick
<1> QED BY <1>1, <1>2, <1>3, <1>4, <1>5, Zenon

\* The locals of syncProxyRules are fresh in every call.
LEMMA LocalsStep ==
  ASSUME Inv, LocalsFresh, Next
  PROVE  LocalsFresh'
<1> USE DEF LocalsFresh
<1>1. CASE \/ Informers \/ Node
           \/ \E t \in Threads : isInitialized(t) \/ SyncTooEarly(t)
           \/ OnServiceSynced \/ OnEndpointsSynced \/ Loop
  BY <1>1, OutsideSteps, Zenon
<1>2. CASE \/ Crash \/ SyncNoDummyLink
           \/ \E f \in FlushCalls : SyncFinish(f)
  <2>1. mu' = Nil /\ stage' = "none" /\ sync' = NoLocals
    BY <1>2, Zenon DEF Crash, SyncNoDummyLink, SyncFinish
  <2> QED BY <2>1, Zenon
<1>3. ASSUME NEW t \in Threads, SyncServiceMap(t) PROVE LocalsFresh'
  <2>1. sync = NoLocals
    BY <1>3 DEF SyncServiceMap
  <2>2. mu' = t /\ stage' = "endpointsMap"
    BY <1>3 DEF SyncServiceMap
  <2>3. /\ sync'.todo = {} /\ sync'.replacementPortsMap = {}
        /\ sync'.activeServiceMap = {} /\ sync'.activeBindIP = {}
    BY <1>3, <2>1 DEF SyncServiceMap, NoLocals
  <2> QED BY <2>2, <2>3, NilThreadAssumption, Zenon
<1>4. ASSUME SyncEndpointsMap PROVE LocalsFresh'
  <2>1. stage = "endpointsMap" /\ stage' = "kernel" /\ mu' = mu
    BY <1>4 DEF SyncEndpointsMap
  <2>2. /\ sync'.todo = sync.todo /\ sync'.replacementPortsMap = sync.replacementPortsMap
        /\ sync'.activeServiceMap = sync.activeServiceMap
        /\ sync'.activeBindIP = sync.activeBindIP
    BY <1>4 DEF SyncEndpointsMap, Inv, TypeOK, SyncLocals
  <2> QED BY <2>1, <2>2, Zenon
<1>5. ASSUME NEW f, SyncReadKernel(f) PROVE LocalsFresh'
  <2>1. stage = "kernel" /\ stage' \in {"decide", "services"} /\ mu' = mu
    BY <1>5 DEF SyncReadKernel
  <2>2. /\ sync'.todo = sync.todo /\ sync'.replacementPortsMap = sync.replacementPortsMap
        /\ sync'.activeServiceMap = sync.activeServiceMap
        /\ sync'.activeBindIP = sync.activeBindIP
    BY <1>5 DEF SyncReadKernel, Inv, TypeOK, SyncLocals
  <2> QED BY <2>1, <2>2, Zenon
<1>6. ASSUME SyncDecide PROVE LocalsFresh'
  <2>1. stage = "decide" /\ mu' = mu
    BY <1>6 DEF SyncDecide
  <2>2. stage' = "full" \/ (stage' = "services" /\ sync' = sync)
    BY <1>6 DEF SyncDecide
  <2> QED BY <2>1, <2>2, Zenon
<1>7. ASSUME NEW sp, NEW f,
             \/ FullSyncNotBound(sp) \/ AddCurrentNotBound(sp) \/ FullSyncPort(sp, f)
             \/ DeletePrevious(sp, f) \/ AddCurrent(sp, f) \/ SyncEndpointChange(sp, f)
      PROVE  LocalsFresh'
  <2>1. stage \in {"full", "serviceItems", "endpointsItems"} /\ UNCHANGED ctlVars
    BY <1>7, Zenon DEF FullSyncNotBound, AddCurrentNotBound, FullSyncPort, DeletePrevious,
                AddCurrent, SyncEndpointChange
  <2> QED BY <2>1, Zenon DEF ctlVars
<1>8. ASSUME NEW f, CheckUnusedRule(f) PROVE LocalsFresh'
  <2>1. /\ stage = "full" /\ stage' = "services" /\ mu' = mu
        /\ sync' = sync /\ sync.todo = {}
    BY <1>8, Zenon DEF CheckUnusedRule
  <2> QED BY <2>1, Zenon
<1>9. ASSUME SyncServices \/ SyncEndpoints PROVE LocalsFresh'
  <2>1. /\ stage \in {"services", "endpoints"} /\ mu' = mu
        /\ \/ stage' \in {"endpoints", "finish"} /\ sync' = sync
           \/ stage' \in {"serviceItems", "endpointsItems"}
    BY <1>9 DEF SyncServices, SyncEndpoints
  <2> QED BY <2>1, Zenon
<1>10. ASSUME ClearServiceItems \/ ClearEndpointsItems PROVE LocalsFresh'
  <2>1. /\ stage \in {"serviceItems", "endpointsItems"} /\ mu' = mu
        /\ stage' \in {"endpoints", "finish"} /\ sync' = sync /\ sync.todo = {}
    BY <1>10, Zenon DEF ClearServiceItems, ClearEndpointsItems
  <2> QED BY <2>1, Zenon
<1> HIDE DEF LocalsFresh
<1> QED BY <1>1, <1>2, <1>3, <1>4, <1>5, <1>6, <1>7, <1>8, <1>9, <1>10, NextCases, Zenon

\* Every step keeps the invariant.
LEMMA InvStep ==
  ASSUME Inv, LocalsFresh, Next
  PROVE  Inv'
<1>1. SyncServices => Inv'
  BY SyncServicesInv DEF LocalsFresh, SyncServices
<1> QED
  BY <1>1, NextCases, InformersInv, NodeInv, CrashInv, ThreadsInv, SyncServiceMapInv,
     SyncEndpointsMapInv, SyncNoDummyLinkInv, SyncReadKernelInv, SyncDecideInv,
     SkipPortInv, FullSyncPortInv, CheckUnusedRuleInv, DeletePreviousInv,
     AddCurrentInv, ClearServiceItemsInv, SyncEndpointsInv, SyncEndpointChangeInv,
     ClearEndpointsItemsInv, SyncFinishInv, Zenon

\* The two invariants hold throughout.
LEMMA InvAlways == Spec => [](Inv /\ LocalsFresh)
<1>1. Init => Inv /\ LocalsFresh
  BY InitInv, Zenon DEF Init, LocalsFresh
<1>2. Inv /\ LocalsFresh /\ [Next]_vars => (Inv /\ LocalsFresh)'
  <2>1. ASSUME Inv, LocalsFresh, UNCHANGED vars PROVE (Inv /\ LocalsFresh)'
    <3>1. /\ UNCHANGED <<objVars, changeVars, mapVars, initVars, mu, stage, sync,
                          kernelClusterMap, portsMap, ipvs, dummy, sockets>>
          /\ UNCHANGED <<pc, conntrack, masq, otherSockets, events, faults, crashes>>
      BY <2>1, Zenon DEF vars, ctlVars, kernelVars, boundVars
    <3>2. /\ pc' \in [Threads -> Places] /\ masq' \in BOOLEAN
          /\ conntrack' \in SUBSET Flows /\ otherSockets' \in SUBSET OtherPorts
          /\ events' \in Nat /\ faults' \in Nat /\ crashes' \in Nat
      BY <2>1, <3>1, Zenon DEF Inv, TypeOK
    <3>3. Inv' BY <2>1, <3>1, <3>2, FrameInv, Zenon
    <3>4. LocalsFresh' BY <2>1, <3>1, Zenon DEF LocalsFresh
    <3> QED BY <3>3, <3>4
  <2> QED BY <2>1, InvStep, LocalsStep, Zenon
<1> QED BY <1>1, <1>2, PTL DEF Spec

\* The proxier is well typed in every reachable state, whatever the objects, the
\* failing calls and the restarts.
THEOREM TypeCorrect == Spec => []TypeOK
<1>1. Inv /\ LocalsFresh => TypeOK
  BY DEF Inv
<1> QED BY <1>1, InvAlways, PTL

\* The loops of syncProxyRules visit entries that are there: the read of the
\* service map in the full sync, and that of the change in the loop over the
\* items, never meet an entry that a handler took away.
THEOREM LoopsVisitEntriesCorrect == Spec => []LoopsVisitEntries
<1>1. Inv /\ LocalsFresh => LoopsVisitEntries
  BY DEF Inv
<1> QED BY <1>1, InvAlways, PTL

-----------------------------------------------------------------------------
(* Failing calls, and the keys of rules *)

\* A step after which no call has failed made its own calls without a fault.
LEMMA NoFaultYet ==
  ASSUME TypeOK, NEW f, Fault(f), faults' = 0
  PROVE  f = NoFault /\ faults = 0
BY SMTT(30) DEF Fault, TypeOK

\* A failed call is never forgotten.
LEMMA FaultsGrow ==
  ASSUME Inv, Next, faults' = 0
  PROVE  faults = 0
<1> USE DEF boundVars
<1>1. ASSUME NEW f, Fault(f) PROVE faults = 0
  BY <1>1, NoFaultYet DEF Inv
<1>2. CASE Informers
  BY <1>2, Zenon DEF Informers, OnServiceAdd, OnServiceUpdate, OnServiceDelete, OnEndpointsAdd,
              OnEndpointsUpdate, OnEndpointsDelete, ServiceEvent, EndpointsEvent
<1>3. CASE Node \/ Crash \/ \E t \in Threads : isInitialized(t) \/ SyncTooEarly(t)
  BY <1>3, Zenon DEF Node, Traffic, OtherOpen, OtherClose, Crash, isInitialized, SyncTooEarly
<1>4. CASE \/ OnServiceSynced \/ OnEndpointsSynced
           \/ \E t \in Threads : SyncServiceMap(t)
           \/ SyncEndpointsMap \/ SyncDecide \/ SyncServices \/ ClearServiceItems
           \/ SyncEndpoints \/ ClearEndpointsItems
  BY <1>4, Zenon DEF OnServiceSynced, OnEndpointsSynced, SyncServiceMap, SyncEndpointsMap,
              SyncDecide, SyncServices, ClearServiceItems, SyncEndpoints,
              ClearEndpointsItems
<1>5. CASE Loop
  BY <1>1, <1>5, Zenon DEF Loop, SyncLoopStart, SyncTick
<1>6. ASSUME NEW x, NEW f,
             \/ SyncNoDummyLink \/ SyncReadKernel(f) \/ FullSyncNotBound(x)
             \/ AddCurrentNotBound(x) \/ FullSyncPort(x, f) \/ CheckUnusedRule(f)
             \/ DeletePrevious(x, f) \/ AddCurrent(x, f) \/ SyncEndpointChange(x, f)
             \/ SyncFinish(f)
      PROVE  faults = 0
  <2>1. Fault(f) \/ Fault(<<"dummyLink">>) \/ Fault(<<"bind">>)
    BY <1>6, Zenon DEF SyncNoDummyLink, SyncReadKernel, FullSyncNotBound,
         AddCurrentNotBound, FullSyncPort, CheckUnusedRule, DeletePrevious, AddCurrent,
         SyncEndpointChange, SyncFinish
  <2> QED BY <1>1, <2>1
<1> QED BY <1>2, <1>3, <1>4, <1>5, <1>6, NextCases, Zenon

\* CreateEndpointRule leaves the services and their flags alone.
LEMMA EndpointRuleServices ==
  ASSUME NEW t \in IpvsTables, NEW keys, NEW sp
  PROVE  /\ CreateEndpointRule(t, keys, sp).services = t.services
         /\ CreateEndpointRule(t, keys, sp).persistent = t.persistent
BY DEF CreateEndpointRule, DeleteIpvsServer, AddIpvsServer, IpvsTables

\* More addresses mean more keys.
LEMMA KeysMonotone ==
  ASSUME NEW info, NEW A, NEW B, NEW M, NEW N, A \subseteq B, M \subseteq N
  PROVE  Keys(info, A, M) \subseteq Keys(info, B, N)
BY DEF Keys

\* A full sync installs no rule under a key the service port may not have.
LEMMA HeldKeysAmongAll ==
  ASSUME NEW sp, NEW info, NEW f
  PROVE  HeldKeys(sp, info, f) \subseteq AllKeys(info)
<1>1. (IF NodePortHeld(sp, info, f) = {} THEN {} ELSE sync.nodeIPs)
        \subseteq (IF info.nodePort = 0 THEN {} ELSE sync.nodeIPs)
  BY Zenon DEF NodePortHeld
<1>2. {ip \in info.externalIPs :
         ip \in LocalExternalIPs(info, f)
           => ExternalPortOf(sp, info, ip) \in ExternalHeld(sp, info, f)}
        \subseteq info.externalIPs
  BY Zenon
<1> QED BY <1>1, <1>2, KeysMonotone, ZenonT(40) DEF HeldKeys, AllKeys

=============================================================================
