------------------------------ MODULE MCProxier ------------------------------
(***************************************************************************)
(* Small instances of Proxier: the objects the informers deliver.          *)
(***************************************************************************)
EXTENDS ProxierViews, TLC

\* Two cluster IPs, the node's own address and a pod.
MCIPs == {"10.0.0.1", "10.0.0.2", "192.168.0.1", "172.16.0.1"}

MCLocalIPs == {"192.168.0.1"}

Port(protocol, port, nodePort) ==
  [port |-> port, protocol |-> protocol, nodePort |-> nodePort]

Service(ip, affinity, externalIPs, ports) ==
  [clusterIP |-> ip, type |-> "NodePort", sessionAffinity |-> affinity,
   externalIPs |-> externalIPs, ports |-> ports]

\* One subset, with one port of each of the given names.
Pods(ips, ports) ==
  [subsets |-> {[addresses |-> {[ip |-> ip, node |-> Nil] : ip \in ips},
                 ports |-> {[name |-> p, port |-> 8080] : p \in ports}]}]

\* One service with a node port.
OneServiceFixed ==
  "s1" :> {Service("10.0.0.1", "None", {}, "p" :> Port("UDP", 53, 30053))}

OneEndpointsFixed == "s1" :> {Pods({"172.16.0.1"}, {"p"})}

\* A port that is renamed and changed, and keeps its node port.
RenamedPort ==
  "s1" :> {Service("10.0.0.1", "None", {}, ("p" :> Port("UDP", 53, 30053)) @@ ("q" :> Nil)),
           Service("10.0.0.1", "ClientIP", {}, ("p" :> Nil) @@ ("q" :> Port("UDP", 54, 30053)))}

WithoutEndpoints == "s1" :> {}

\* Two services that claim the same external address and port.
SharedServices ==
  ("s1" :> {Service("10.0.0.1", "None", {"192.168.0.1"}, "p" :> Port("UDP", 53, 0))})
    @@ ("s2" :> {Service("10.0.0.2", "None", {"192.168.0.1"}, "p" :> Port("UDP", 53, 0))})

NoEndpoints == [n \in {"s1", "s2"} |-> {}]

\* A process of the node that wants this address and port too.
PortUser ==
  {[desc |-> "other", svc |-> Nil, ip |-> "192.168.0.1", port |-> 53, protocol |-> "udp"]}

=============================================================================
