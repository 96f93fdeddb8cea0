----------------------------- MODULE LocalPorts -----------------------------
(***************************************************************************)
(* pkg/proxy/util/ports.go: the sockets with which the proxier holds node  *)
(* ports and the ports of local external addresses.                        *)
(***************************************************************************)
EXTENDS ProxyTypes

\* A wildcard socket has the empty address.  Two local ports with the same
\* address and different descriptions are different keys of the ports map.
LocalPort ==
  [desc: {"nodePort", "externalIP", "other"}, svc: ServicePortNames \cup {Nil},
   ip: IPs \cup {""}, port: Nat, protocol: Protocols]

NodePortOf(sp, info) ==
  [desc |-> "nodePort", svc |-> sp, ip |-> "", port |-> info.nodePort,
   protocol |-> info.protocol]

ExternalPortOf(sp, info, ip) ==
  [desc |-> "externalIP", svc |-> sp, ip |-> ip, port |-> info.port,
   protocol |-> info.protocol]

\* The kernel refuses to bind two sockets of one protocol to one port unless
\* they are bound to different addresses.
Conflict(a, b) ==
  /\ a.port = b.port
  /\ a.protocol = b.protocol
  /\ a.ip = b.ip \/ a.ip = "" \/ b.ip = ""

\* openLocalPort succeeds.
CanOpen(lp, open) == \A s \in open : ~Conflict(lp, s)

=============================================================================
