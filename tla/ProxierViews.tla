---------------------------- MODULE ProxierViews ----------------------------
(***************************************************************************)
(* The service map and the endpoints map of the proxier as views of the    *)
(* objects that the informers deliver.                                     *)
(***************************************************************************)
EXTENDS ProxierProperties

\* The entries an object stands for.
ServiceEntries(obj) ==
  IF serviceToServiceMap(obj) = Nil THEN NoServicePorts ELSE serviceToServiceMap(obj)

EndpointsEntries(obj) ==
  IF endpointsToEndpointsMap(obj) = Nil THEN NoEndpointsPorts ELSE endpointsToEndpointsMap(obj)

ServiceView == INSTANCE ObjectView WITH
  Names <- SvcNames, Ports <- PortNames, Entries <- ServiceInfo, Absent <- Nil,
  observed <- [n \in SvcNames |-> ServiceEntries(svcObj[n])],
  view <- serviceMap

EndpointsView == INSTANCE ObjectView WITH
  Names <- SvcNames, Ports <- PortNames, Entries <- SUBSET EndpointsInfo, Absent <- {},
  observed <- [n \in SvcNames |-> EndpointsEntries(epObj[n])],
  view <- endpointsMap

\* The service map never goes back to an older state of a Service: an entry
\* that syncProxyRules changes becomes what the last event said, however many
\* events came before, during and after earlier syncs.
ServiceMapIsView == ServiceView!Spec

\* The same for the endpoints map and the Endpoints objects.
EndpointsMapIsView == EndpointsView!Spec

\* A pending change ends at the object its handler was given last.
PendingChangesAreCurrent ==
  \A n \in SvcNames :
    /\ serviceChanges[n] # Nil
         => serviceChanges[n].current = serviceToServiceMap(svcObj[n])
    /\ endpointsChanges[n] # Nil
         => endpointsChanges[n].current = endpointsToEndpointsMap(epObj[n])

=============================================================================
