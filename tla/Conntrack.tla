------------------------------ MODULE Conntrack ------------------------------
(***************************************************************************)
(* pkg/proxy/util/conntrack.go: the kernel's UDP flow entries and the      *)
(* three ways in which the proxier deletes them.  An entry has the address *)
(* and port a client sent to, and the endpoint its packets are rewritten   *)
(* to (Nil when there was no endpoint: such a flow is a black hole).       *)
(***************************************************************************)
EXTENDS ProxyTypes

Flows == [ip: IPs, port: Nat, natIP: IPs \cup {Nil}]

ClearUDPConntrackForIP(flows, ips) == {f \in flows : f.ip \notin ips}

\* pairs: a set of <<origin, dest>> addresses.
ClearUDPConntrackForPeers(flows, pairs) ==
  {f \in flows : <<f.ip, f.natIP>> \notin pairs}

ClearUdpConntrackForPort(flows, ports) ==
  {f \in flows : f.port \in ports => f.port = 0}

=============================================================================
