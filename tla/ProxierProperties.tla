-------------------------- MODULE ProxierProperties --------------------------
(***************************************************************************)
(* What the proxier promises about the kernel: the rules a full sync       *)
(* leaves behind, the rules no sync may disturb, the sockets it holds, and *)
(* where the kernel ends up when the events stop.                          *)
(***************************************************************************)
EXTENDS Proxier

-----------------------------------------------------------------------------
(* What the maps ask of the kernel *)

InfoOf(sp) == serviceMap[sp[1]][sp[2]]

\* External addresses of a service port that need no local port, or whose port
\* is among the held ones.
ServedExternalIPs(sp, info, held) ==
  {ip \in info.externalIPs :
     ip \in LocalIPs \cup dummy => ExternalPortOf(sp, info, ip) \in held}

\* The keys of the rules the service port is to have, given the local ports
\* that could be opened for it.
WantedKeys(sp, held) ==
  Keys(InfoOf(sp), ServedExternalIPs(sp, InfoOf(sp), held),
       IF NodePortOf(sp, InfoOf(sp)) \in held THEN NodeIPs ELSE {})

WantedServers(sp) ==
  {[ip |-> e.ip, port |-> e.port] : e \in endpointsMap[sp[1]][sp[2]]}

\* The service ports that want a rule under the key.
Owners(k, held) == {sp \in ServicePorts(serviceMap) : k \in WantedKeys(sp, held)}

\* The kernel has exactly the rules and bound addresses the maps ask for, and
\* under a key that one service port owns exactly that port's endpoints.
KernelMatches(held) ==
  /\ ListIpvsService(ipvs) =
       UNION {WantedKeys(sp, held) : sp \in ServicePorts(serviceMap)}
  /\ dummy = {InfoOf(sp).ip : sp \in ServicePorts(serviceMap)}
  /\ \A sp \in ServicePorts(serviceMap) : \A k \in WantedKeys(sp, held) :
       Owners(k, held) = {sp} =>
         ListIpvsServer(ipvs, {k}) = [svc: {k}, dst: WantedServers(sp)]

-----------------------------------------------------------------------------
(* Safety *)

\* The loops of syncProxyRules visit entries that are there: the full sync finds
\* every service port it set out for in the service map, and no handler takes a
\* Service change away from under the loop over the items.
LoopsVisitEntries ==
  /\ stage = "full" => sync.todo \subseteq ServicePorts(serviceMap)
  /\ stage = "serviceItems" =>
       /\ sync.items \subseteq ServicesPending(serviceChanges)
       /\ \A sp \in sync.todo :
            /\ serviceChanges[sp[1]] # Nil
            /\ sp[2] \in SvcPortsOf(serviceChanges[sp[1]].current)

\* CheckUnusedRule ends a full sync: if no call has failed, the kernel then
\* matches the maps, whatever earlier syncs, or an earlier process, left there.
FullSyncExact ==
  [][CheckUnusedRule(NoFault) /\ faults = 0
       => KernelMatches(sync.replacementPortsMap)']_vars

\* The sockets that are open are those of the ports map and, while a sync runs,
\* those it has opened: none is lost when the ports map is replaced, and no two
\* claim the same port.
NoSocketLeak ==
  /\ sockets = portsMap \cup sync.replacementPortsMap
  /\ \A a, b \in sockets \cup otherSockets : a # b => ~Conflict(a, b)

\* No other service port can have a rule under the key.
Sole(sp, k) ==
  \A other \in ServicePorts(serviceMap) \ {sp} :
    k \notin Keys(InfoOf(other), InfoOf(other).externalIPs,
                  IF InfoOf(other).nodePort = 0 THEN {} ELSE NodeIPs)

KeepsServers(sp, k) ==
  \A d \in WantedServers(sp) :
    CreateLibIpvsServer([svc |-> k, dst |-> d]) \in ipvs.servers
      => CreateLibIpvsServer([svc |-> k, dst |-> d]) \in ipvs'.servers

\* A full sync, or a sync of Endpoints changes, repairs the kernel without
\* interrupting what is right already: a rule and a real server that the maps
\* ask for are not taken away, not even for a moment.
NoDisruption ==
  [][faults' = 0 /\ crashes' = crashes /\ stage \in {"full", "endpointsItems"} =>
       \A sp \in ServicePorts(serviceMap) :
         \A k \in WantedKeys(sp, portsMap \cap sync'.replacementPortsMap) :
           /\ CreateLibIpvsService(k) \in ipvs.services
                => CreateLibIpvsService(k) \in ipvs'.services
           /\ Sole(sp, k) => KeepsServers(sp, k)]_vars

-----------------------------------------------------------------------------
(* Liveness *)

LoopRuns == pc["syncLoop"] # "done"

\* Pending changes do not stay pending: once the events stop, the periodic
\* sync takes both change maps to empty, unless the loop ended at its start.
ChangesDrained ==
  <>[](LoopRuns => ServicesPending(serviceChanges) = {}
                   /\ EndpointsPending(endpointsChanges) = {})

\* Once the events, faults and crashes stop, the kernel comes to match the
\* maps and stays so while the periodic syncs go on.
KernelConverges == <>[](LoopRuns => KernelMatches(portsMap))

-----------------------------------------------------------------------------
(* What comments and messages of the code say, and the code does not do *)

\* "<changes> map is cleared after applying them" (services.go:208): a Service
\* change that is removed by the sync has been applied to the service map.
ClearedAfterApplying ==
  [][ClearServiceItems =>
       \A n \in ServicesPending(serviceChanges) : \A p \in PortNames :
         serviceMap[n][p] = IF p \in SvcPortsOf(serviceChanges[n].current)
                            THEN serviceChanges[n].current[p] ELSE Nil]_vars

\* "We're holding the port, so it's OK to install ipvs rules." (proxier.go:546):
\* between syncs, a node port with a rule for a known service port is held.
RulesHaveHeldPorts ==
  mu = Nil =>
    \A sp \in ServicePorts(serviceMap) : \A ip \in NodeIPs :
      CreateLibIpvsService(Key(ip, InfoOf(sp).nodePort, InfoOf(sp))) \in ipvs.services
        => NodePortOf(sp, InfoOf(sp)) \in sockets

=============================================================================
