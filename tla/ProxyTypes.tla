----------------------------- MODULE ProxyTypes -----------------------------
(***************************************************************************)
(* The data of the proxy: the API objects the informers deliver, the       *)
(* per-port records the proxier derives from them, and the keys under      *)
(* which both are filed.                                                   *)
(*                                                                         *)
(* A Go map is a total function whose value is Nil (services) or the empty *)
(* set (endpoints) where the map has no entry.                             *)
(***************************************************************************)
EXTENDS Naturals

CONSTANTS
  SvcNames,       \* namespaced names of Service and Endpoints objects
  PortNames,      \* names of service ports
  IPs,            \* addresses
  Hostname,       \* the name of this node
  ServiceObjs,    \* ServiceObjs[n]: the Service objects that name n may have
  EndpointsObjs,  \* EndpointsObjs[n]: the Endpoints objects n may have
  Nil             \* a nil pointer, map or object

-----------------------------------------------------------------------------
(* API objects *)

ApiServicePort == [port: Nat, protocol: {"TCP", "UDP"}, nodePort: Nat]

ApiService ==
  [clusterIP: IPs \cup {"None", ""},
   type: {"ClusterIP", "NodePort", "ExternalName"},
   sessionAffinity: {"ClientIP", "None"},
   externalIPs: SUBSET IPs,
   ports: [PortNames -> ApiServicePort \cup {Nil}]]

ApiEndpointSubset ==
  [addresses: SUBSET [ip: IPs \cup {""}, node: {Hostname, Nil}],
   ports: SUBSET [name: PortNames, port: Nat]]

ApiEndpoints == [subsets: SUBSET ApiEndpointSubset]

ASSUME ServiceObjsAssumption == ServiceObjs \in [SvcNames -> SUBSET ApiService]

ASSUME EndpointsObjsAssumption == EndpointsObjs \in [SvcNames -> SUBSET ApiEndpoints]

\* The strings that mean "no address", and nil, are no address.
ASSUME IPsAssumption == {"None", "", Nil} \cap IPs = {}

-----------------------------------------------------------------------------
(* What the proxier keeps *)

ServicePortNames == SvcNames \X PortNames

Protocols == {"tcp", "udp"}

ServiceInfo ==
  [ip: IPs, port: Nat, protocol: Protocols, nodePort: Nat,
   affinity: BOOLEAN, externalIPs: SUBSET IPs]

EndpointsInfo == [ip: IPs, port: Nat, isLocal: BOOLEAN]

\* The entries of one Service: a port map, Nil where a port is not defined.
ServicePortMap == [PortNames -> ServiceInfo \cup {Nil}]

\* The entries of one Endpoints object.
EndpointsPortMap == [PortNames -> SUBSET EndpointsInfo]

\* Nil is told apart from every object, entry and map.
ASSUME NilAssumption ==
  /\ Nil \notin ApiService /\ Nil \notin ApiServicePort /\ Nil \notin ApiEndpoints
  /\ Nil \notin ServiceInfo
  /\ Nil \notin ServicePortMap /\ Nil \notin EndpointsPortMap

NoServicePorts == [p \in PortNames |-> Nil]

NoEndpointsPorts == [p \in PortNames |-> {}]

\* The ports a (possibly nil) map has entries for.
SvcPortsOf(m) == IF m = Nil THEN {} ELSE {p \in PortNames : m[p] # Nil}

EpPortsOf(m) == IF m = Nil THEN {} ELSE {p \in PortNames : m[p] # {}}

-----------------------------------------------------------------------------
(* Conversion of API objects *)

ToLower(protocol) == IF protocol = "TCP" THEN "tcp" ELSE "udp"

NewServiceInfo(port, service) ==
  [ip          |-> service.clusterIP,
   port        |-> port.port,
   protocol    |-> ToLower(port.protocol),
   nodePort    |-> port.nodePort,
   affinity    |-> service.sessionAffinity = "ClientIP",
   externalIPs |-> service.externalIPs]

IsServiceIPSet(service) == service.clusterIP \notin {"None", ""}

ShouldSkipService(service) ==
  \/ ~IsServiceIPSet(service)
  \/ service.type = "ExternalName"

serviceToServiceMap(service) ==
  IF service = Nil \/ ShouldSkipService(service)
  THEN Nil
  ELSE [p \in PortNames |-> IF service.ports[p] = Nil
                            THEN Nil
                            ELSE NewServiceInfo(service.ports[p], service)]

\* A port with number 0 and an address with an empty IP are ignored.
SubsetEndpoints(s, p) ==
  {[ip |-> x[1].ip, port |-> x[2].port, isLocal |-> x[1].node = Hostname] :
     x \in {a \in s.addresses : a.ip # ""}
             \X {q \in s.ports : q.name = p /\ q.port # 0}}

endpointsToEndpointsMap(endpoints) ==
  IF endpoints = Nil
  THEN Nil
  ELSE [p \in PortNames |-> UNION {SubsetEndpoints(s, p) : s \in endpoints.subsets}]

=============================================================================
