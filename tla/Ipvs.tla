-------------------------------- MODULE Ipvs --------------------------------
(***************************************************************************)
(* pkg/util/ipvs/ipvs.go: the virtual services and real servers of the     *)
(* kernel's IPVS table, and the calls through which the proxier edits it.  *)
(*                                                                         *)
(* The table is a record of three sets: the keys of the virtual services,  *)
(* the keys of those with the persistence flag, and the real servers with  *)
(* the key they hang under.  The kernel's key has the protocol number.     *)
(* Each call takes a set of keys, for the proxier makes the same call for  *)
(* the cluster, external and node addresses of a service port.             *)
(***************************************************************************)
EXTENDS ProxyTypes

ServiceKeys == [ip: IPs, port: Nat, protocol: Protocols]

IPPROTO_TCP == 6

IPPROTO_UDP == 17

LibKeys == [ip: IPs, port: Nat, protocol: {IPPROTO_TCP, IPPROTO_UDP}]

Servers == [ip: IPs, port: Nat]

IpvsTables ==
  [services: SUBSET LibKeys, persistent: SUBSET LibKeys,
   servers: SUBSET [svc: LibKeys, dst: Servers]]

NoIpvs == [services |-> {}, persistent |-> {}, servers |-> {}]

ToProtocolNumber(protocol) == IF protocol = "tcp" THEN IPPROTO_TCP ELSE IPPROTO_UDP

ToProtocolString(number) ==
  IF number = IPPROTO_TCP THEN "tcp"
  ELSE IF number = IPPROTO_UDP THEN "udp" ELSE "unknow"

CreateLibIpvsService(k) ==
  [ip |-> k.ip, port |-> k.port, protocol |-> ToProtocolNumber(k.protocol)]

CreateInterService(l) ==
  [ip |-> l.ip, port |-> l.port, protocol |-> ToProtocolString(l.protocol)]

CreateLibIpvsServer(s) == [svc |-> CreateLibIpvsService(s.svc), dst |-> s.dst]

CreateInterServer(s) == [svc |-> CreateInterService(s.svc), dst |-> s.dst]

Lib(keys) == {CreateLibIpvsService(k) : k \in keys}

\* A service that is there already is left as it is, its flags included.
AddIpvsService(t, keys, affinity) ==
  LET new == Lib(keys) \ t.services
  IN  [t EXCEPT !.services   = @ \cup new,
                !.persistent = IF affinity THEN @ \cup new ELSE @]

\* The real servers go with their service.
DeleteIpvsService(t, keys) ==
  [services   |-> t.services \ Lib(keys),
   persistent |-> t.persistent \ Lib(keys),
   servers    |-> {s \in t.servers : s.svc \notin Lib(keys)}]

\* Fails for a service that is not there; a server that is there already is
\* no error.
AddIpvsServer(t, servers) ==
  [t EXCEPT !.servers = @ \cup {CreateLibIpvsServer(s) :
                                  s \in {s \in servers : CreateLibIpvsService(s.svc) \in t.services}}]

DeleteIpvsServer(t, servers) ==
  [t EXCEPT !.servers = @ \ {CreateLibIpvsServer(s) : s \in servers}]

-----------------------------------------------------------------------------
(* The addresses of the dummy link, which make the cluster IPs local *)

\* An address that is there already is no error.
AddDummyClusterIp(addrs, ip) == addrs \cup {ip}

DeleteDummyClusterIp(addrs, ips) == addrs \ ips

-----------------------------------------------------------------------------
(* Reading *)

ListIpvsService(t) == {CreateInterService(l) : l \in t.services}

ListIpvsServer(t, services) ==
  {CreateInterServer(s) : s \in {s \in t.servers : CreateInterService(s.svc) \in services}}

=============================================================================
