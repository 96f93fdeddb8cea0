------------------------------ MODULE ViewProofs ------------------------------
(***************************************************************************)
(* The service map and the endpoints map implement ObjectView, and are     *)
(* where the events say they are for every name without a late event.      *)
(* Rules have the session affinity of their Service, and UDP flows to a    *)
(* cluster IP lead to endpoints.                                           *)
(***************************************************************************)
EXTENDS ProxierHistory, ProxierProofs

-----------------------------------------------------------------------------
(* Which steps touch the objects, the changes and the maps *)

\* The steps that are neither a callback, nor a restart, nor one of those that
\* apply or remove changes.
LEMMA OtherSteps ==
  ASSUME Inv, Next
  PROVE  \/ \E n \in SvcNames, new \in ApiService \cup {Nil} : ServiceEvent(n, new)
         \/ \E n \in SvcNames, new \in ApiEndpoints \cup {Nil} : EndpointsEvent(n, new)
         \/ Crash \/ ClearServiceItems \/ ClearEndpointsItems \/ SyncEndpointsMap
         \/ \E t \in Threads : SyncServiceMap(t)
         \/ UNCHANGED <<objVars, changeVars, mapVars>>
<1> DEFINE Same == UNCHANGED <<objVars, changeVars, mapVars>>
<1>1. CASE Informers
  BY <1>1, ServiceObjsAssumption, EndpointsObjsAssumption, Zenon
     DEF Informers, OnServiceAdd, OnServiceUpdate, OnServiceDelete, OnEndpointsAdd,
         OnEndpointsUpdate, OnEndpointsDelete
<1>2. Node => Same
  BY Zenon DEF Node, Traffic, OtherOpen, OtherClose
<1>3. ASSUME NEW t \in Threads, isInitialized(t) \/ SyncTooEarly(t) PROVE Same
  BY <1>3, Zenon DEF isInitialized, SyncTooEarly
<1>4. OnServiceSynced \/ OnEndpointsSynced => Same
  BY Zenon DEF OnServiceSynced, OnEndpointsSynced
<1>5. Loop => Same
  BY Zenon DEF Loop, SyncLoopStart, SyncTick
<1>6. SyncNoDummyLink \/ SyncDecide \/ SyncServices \/ SyncEndpoints => Same
  BY Zenon DEF SyncNoDummyLink, SyncDecide, SyncServices, SyncEndpoints
<1>7. ASSUME NEW f, SyncReadKernel(f) \/ CheckUnusedRule(f) \/ SyncFinish(f) PROVE Same
  BY <1>7, Zenon DEF SyncReadKernel, CheckUnusedRule, SyncFinish
<1>8. ASSUME NEW sp, NEW f,
             \/ FullSyncNotBound(sp) \/ AddCurrentNotBound(sp) \/ FullSyncPort(sp, f)
             \/ DeletePrevious(sp, f) \/ AddCurrent(sp, f) \/ SyncEndpointChange(sp, f)
      PROVE  Same
  BY <1>8, Zenon DEF FullSyncNotBound, AddCurrentNotBound, FullSyncPort, DeletePrevious,
              AddCurrent, SyncEndpointChange
<1> HIDE DEF Same
<1>9. \/ Informers \/ Crash \/ ClearServiceItems \/ ClearEndpointsItems
      \/ SyncEndpointsMap \/ \E t \in Threads : SyncServiceMap(t)
      \/ Same
  BY <1>2, <1>3, <1>4, <1>5, <1>6, <1>7, <1>8, NextCases, Zenon
<1> QED BY <1>1, <1>9, Zenon DEF Same

-----------------------------------------------------------------------------
(* Pending changes *)

\* No step leaves a pending change that ends at an older object.
LEMMA PendingStep ==
  ASSUME Inv, PendingChangesAreCurrent, Next
  PROVE  PendingChangesAreCurrent'
<1>1. ASSUME NEW n \in SvcNames, NEW new \in ApiService \cup {Nil}, ServiceEvent(n, new)
      PROVE  PendingChangesAreCurrent'
  <2>1. /\ svcObj' = [svcObj EXCEPT ![n] = new]
        /\ serviceChanges' = ServiceChangesUpdate(serviceChanges, n, svcObj[n], new)
        /\ UNCHANGED <<epObj, endpointsChanges>>
    BY <1>1, Zenon DEF ServiceEvent
  <2>2. serviceChanges'[n] # Nil => serviceChanges'[n].current = serviceToServiceMap(new)
    BY <2>1, Zenon DEF ServiceChangesUpdate, Inv, TypeOK, ServiceChangeMap
  <2>3. \A m \in SvcNames \ {n} : /\ serviceChanges'[m] = serviceChanges[m]
                                  /\ svcObj'[m] = svcObj[m]
    BY <2>1, Zenon DEF ServiceChangesUpdate, Inv, TypeOK, ServiceChangeMap
  <2>4. svcObj'[n] = new
    BY <2>1, Zenon DEF Inv, TypeOK
  <2> QED BY <2>1, <2>2, <2>3, <2>4, Zenon DEF PendingChangesAreCurrent
<1>2. ASSUME NEW n \in SvcNames, NEW new \in ApiEndpoints \cup {Nil},
             EndpointsEvent(n, new)
      PROVE  PendingChangesAreCurrent'
  <2>1. /\ epObj' = [epObj EXCEPT ![n] = new]
        /\ endpointsChanges' = EndpointsChangesUpdate(endpointsChanges, n, epObj[n], new)
        /\ UNCHANGED <<svcObj, serviceChanges>>
    BY <1>2, Zenon DEF EndpointsEvent
  <2>2. endpointsChanges'[n] # Nil
          => endpointsChanges'[n].current = endpointsToEndpointsMap(new)
    BY <2>1, Zenon DEF EndpointsChangesUpdate, Inv, TypeOK, EndpointsChangeMap
  <2>3. \A m \in SvcNames \ {n} : /\ endpointsChanges'[m] = endpointsChanges[m]
                                  /\ epObj'[m] = epObj[m]
    BY <2>1, Zenon DEF EndpointsChangesUpdate, Inv, TypeOK, EndpointsChangeMap
  <2>4. epObj'[n] = new
    BY <2>1, Zenon DEF Inv, TypeOK
  <2> QED BY <2>1, <2>2, <2>3, <2>4, Zenon DEF PendingChangesAreCurrent
<1>3. CASE Crash
  BY <1>3, Zenon DEF Crash, PendingChangesAreCurrent, NewServiceChangeMap, NewEndpointsChangeMap
<1>4. CASE ClearServiceItems
  BY <1>4, Zenon DEF ClearServiceItems, PendingChangesAreCurrent, NewServiceChangeMap, objVars
<1>5. CASE ClearEndpointsItems
  BY <1>5, Zenon DEF ClearEndpointsItems, PendingChangesAreCurrent, NewEndpointsChangeMap, objVars
<1>6. CASE SyncEndpointsMap \/ \E t \in Threads : SyncServiceMap(t)
  BY <1>6, Zenon DEF SyncEndpointsMap, SyncServiceMap, PendingChangesAreCurrent, objVars, changeVars
<1>7. CASE UNCHANGED <<objVars, changeVars, mapVars>>
  BY <1>7, Zenon DEF PendingChangesAreCurrent, objVars, changeVars
<1> QED BY <1>1, <1>2, <1>3, <1>4, <1>5, <1>6, <1>7, OtherSteps, Zenon

\* A pending change ends at the object its handler was given last, however many
\* events it stands for.
THEOREM PendingChangesCorrect == Spec => []PendingChangesAreCurrent
<1>1. Init => PendingChangesAreCurrent
  BY Zenon DEF Init, PendingChangesAreCurrent, NewServiceChangeMap, NewEndpointsChangeMap
<1>2. Inv /\ LocalsFresh /\ PendingChangesAreCurrent /\ [Next]_vars
        => PendingChangesAreCurrent'
  <2>1. ASSUME PendingChangesAreCurrent, UNCHANGED vars PROVE PendingChangesAreCurrent'
    BY <2>1, Zenon DEF PendingChangesAreCurrent, vars, objVars, changeVars
  <2> QED BY <2>1, PendingStep, Zenon
<1> QED BY <1>1, <1>2, InvAlways, PTL DEF Spec

-----------------------------------------------------------------------------
(* Refinement *)

\* An object stands for a map of entries.
LEMMA EntriesType ==
  /\ \A obj \in ApiService \cup {Nil} : ServiceEntries(obj) \in ServicePortMap
  /\ \A obj \in ApiEndpoints \cup {Nil} : EndpointsEntries(obj) \in EndpointsPortMap
<1>1. \A obj \in ApiService \cup {Nil} : ServiceEntries(obj) \in ServicePortMap
  BY ServiceToMapType, Zenon DEF ServiceEntries, NoServicePorts, ServicePortMap
<1>2. \A obj \in ApiEndpoints \cup {Nil} : EndpointsEntries(obj) \in EndpointsPortMap
  BY EndpointsToMapType, Zenon DEF EndpointsEntries, NoEndpointsPorts, EndpointsPortMap
<1> QED BY <1>1, <1>2, Zenon

\* The entries of an object that is not there.
LEMMA NilEntries ==
  ServiceEntries(Nil) = NoServicePorts /\ EndpointsEntries(Nil) = NoEndpointsPorts
BY Zenon DEF ServiceEntries, EndpointsEntries, serviceToServiceMap, endpointsToEndpointsMap

\* UpdateServiceMap changes an entry to what the Service says, or not at all.
LEMMA ServiceRefresh ==
  ASSUME Inv, PendingChangesAreCurrent, NEW t \in Threads, SyncServiceMap(t),
         NEW n \in SvcNames, NEW p \in PortNames
  PROVE  serviceMap'[n][p] \in {serviceMap[n][p], ServiceEntries(svcObj[n])[p]}
<1> DEFINE item == serviceChanges[n]
<1>1. serviceMap'[n][p] = UpdateServiceMap(serviceMap, serviceChanges)[n][p]
  BY Zenon DEF SyncServiceMap
<1>2. CASE item = Nil
  BY <1>1, <1>2, UpdateServiceMapEntry
<1>3. CASE item # Nil
  <2>1. item.current = serviceToServiceMap(svcObj[n])
    BY <1>3, Zenon DEF PendingChangesAreCurrent
  <2>2. item.current \in ServicePortMap \cup {Nil}
    BY <2>1, ServiceToMapType, Zenon DEF Inv, TypeOK
  <2>3. ServiceEntries(svcObj[n])[p] =
          IF p \in SvcPortsOf(item.current) THEN item.current[p] ELSE Nil
    BY <2>1, <2>2, Zenon DEF ServiceEntries, SvcPortsOf, NoServicePorts
  <2> HIDE DEF item
  <2> QED BY <1>1, <1>3, <2>3, UpdateServiceMapEntry DEF item
<1> QED BY <1>2, <1>3, Zenon

\* UpdateEndpointsMap changes an entry to what the Endpoints object says, or not
\* at all.
LEMMA EndpointsRefresh ==
  ASSUME Inv, PendingChangesAreCurrent, SyncEndpointsMap,
         NEW n \in SvcNames, NEW p \in PortNames
  PROVE  endpointsMap'[n][p] \in {endpointsMap[n][p], EndpointsEntries(epObj[n])[p]}
<1> DEFINE item == endpointsChanges[n]
<1>1. endpointsMap'[n][p] = UpdateEndpointsMap(endpointsMap, endpointsChanges)[n][p]
  BY Zenon DEF SyncEndpointsMap
<1>2. CASE item = Nil
  BY <1>1, <1>2, UpdateEndpointsMapEntry, Zenon
<1>3. CASE item # Nil
  <2>1. item.current = endpointsToEndpointsMap(epObj[n])
    BY <1>3, Zenon DEF PendingChangesAreCurrent
  <2>2. item.current \in EndpointsPortMap \cup {Nil}
    BY <2>1, EndpointsToMapType, Zenon DEF Inv, TypeOK
  <2>3. EndpointsEntries(epObj[n])[p] =
          IF p \in EpPortsOf(item.current) THEN item.current[p] ELSE {}
    BY <2>1, <2>2, Zenon DEF EndpointsEntries, EpPortsOf, NoEndpointsPorts
  <2> HIDE DEF item
  <2> QED BY <1>1, <1>3, <2>3, UpdateEndpointsMapEntry DEF item
<1> QED BY <1>2, <1>3, Zenon

\* Every step of the proxier is a step of the view of the Services, or changes
\* neither the Services nor the service map.
LEMMA ServiceViewStep ==
  ASSUME Inv, Inv', PendingChangesAreCurrent, Next
  PROVE  \/ ServiceView!Next
         \/ UNCHANGED <<[n \in SvcNames |-> ServiceEntries(svcObj[n])], serviceMap>>
<1> DEFINE seen == [n \in SvcNames |-> ServiceEntries(svcObj[n])]
<1>1. seen' \in [SvcNames -> [PortNames -> ServiceInfo \cup {Nil}]]
  BY EntriesType, Zenon DEF Inv, TypeOK, ServicePortMap
<1>2. ASSUME NEW n \in SvcNames, NEW new \in ApiService \cup {Nil}, ServiceEvent(n, new)
      PROVE  ServiceView!Observe
  <2>1. serviceMap' = serviceMap /\ \A m \in SvcNames \ {n} : svcObj'[m] = svcObj[m]
    BY <1>2, Zenon DEF ServiceEvent, mapVars, Inv, TypeOK
  <2>2. \A m \in SvcNames \ {n} : seen'[m] = seen[m]
    BY <2>1, Zenon
  <2> QED BY <1>1, <2>1, <2>2, Zenon DEF ServiceView!Observe
<1>3. CASE Crash
  <2>1. seen' = ServiceView!Nothing
    BY <1>3, NilEntries, Zenon DEF Crash, NoServicePorts, ServiceView!Nothing
  <2>2. serviceMap' = ServiceView!Nothing
    BY <1>3, Zenon DEF Crash, NewServiceMap, NoServicePorts, ServiceView!Nothing
  <2> QED BY <2>1, <2>2, Zenon DEF ServiceView!Next, ServiceView!Restart
<1>4. ASSUME NEW t \in Threads, SyncServiceMap(t) PROVE ServiceView!Refresh
  <2>1. svcObj' = svcObj
    BY <1>4, Zenon DEF SyncServiceMap, objVars
  <2>2. serviceMap' \in [SvcNames -> [PortNames -> ServiceInfo \cup {Nil}]]
    BY Zenon DEF Inv, TypeOK, ServicePortMap
  <2>3. \A n \in SvcNames, p \in PortNames :
          serviceMap'[n][p] \in {serviceMap[n][p], seen[n][p]}
    BY <1>4, ServiceRefresh, Zenon
  <2> QED BY <2>1, <2>2, <2>3, Zenon DEF ServiceView!Refresh
<1>5. ASSUME svcObj' = svcObj, serviceMap' = serviceMap PROVE UNCHANGED <<seen, serviceMap>>
  BY <1>5, Zenon
<1>6. CASE \/ \E n \in SvcNames, new \in ApiEndpoints \cup {Nil} : EndpointsEvent(n, new)
           \/ ClearServiceItems \/ ClearEndpointsItems \/ SyncEndpointsMap
           \/ UNCHANGED <<objVars, changeVars, mapVars>>
  <2>1. svcObj' = svcObj /\ serviceMap' = serviceMap
    BY <1>6, Zenon DEF EndpointsEvent, ClearServiceItems, ClearEndpointsItems, SyncEndpointsMap,
                objVars, mapVars
  <2> QED BY <1>5, <2>1, Zenon
<1> HIDE DEF seen
<1> QED BY <1>2, <1>3, <1>4, <1>6, OtherSteps, Zenon DEF ServiceView!Next

\* The same for the Endpoints objects and the endpoints map.
LEMMA EndpointsViewStep ==
  ASSUME Inv, Inv', PendingChangesAreCurrent, Next
  PROVE  \/ EndpointsView!Next
         \/ UNCHANGED <<[n \in SvcNames |-> EndpointsEntries(epObj[n])], endpointsMap>>
<1> DEFINE seen == [n \in SvcNames |-> EndpointsEntries(epObj[n])]
<1>0. (SUBSET EndpointsInfo) \cup {{}} = SUBSET EndpointsInfo
  BY Zenon
<1>1. seen' \in [SvcNames -> [PortNames -> (SUBSET EndpointsInfo) \cup {{}}]]
  BY <1>0, EntriesType, Zenon DEF Inv, TypeOK, EndpointsPortMap
<1>2. ASSUME NEW n \in SvcNames, NEW new \in ApiEndpoints \cup {Nil},
             EndpointsEvent(n, new)
      PROVE  EndpointsView!Observe
  <2>1. endpointsMap' = endpointsMap /\ \A m \in SvcNames \ {n} : epObj'[m] = epObj[m]
    BY <1>2, Zenon DEF EndpointsEvent, mapVars, Inv, TypeOK
  <2>2. \A m \in SvcNames \ {n} : seen'[m] = seen[m]
    BY <2>1, Zenon
  <2> QED BY <1>1, <2>1, <2>2, Zenon DEF EndpointsView!Observe
<1>3. CASE Crash
  <2>1. seen' = EndpointsView!Nothing
    BY <1>3, NilEntries, Zenon DEF Crash, NoEndpointsPorts, EndpointsView!Nothing
  <2>2. endpointsMap' = EndpointsView!Nothing
    BY <1>3, Zenon DEF Crash, NewEndpointsMap, NoEndpointsPorts, EndpointsView!Nothing
  <2> QED BY <2>1, <2>2, Zenon DEF EndpointsView!Next, EndpointsView!Restart
<1>4. ASSUME SyncEndpointsMap PROVE EndpointsView!Refresh
  <2>1. epObj' = epObj
    BY <1>4, Zenon DEF SyncEndpointsMap, objVars
  <2>2. endpointsMap' \in [SvcNames -> [PortNames -> (SUBSET EndpointsInfo) \cup {{}}]]
    BY <1>0, Zenon DEF Inv, TypeOK, EndpointsPortMap
  <2>3. \A n \in SvcNames, p \in PortNames :
          endpointsMap'[n][p] \in {endpointsMap[n][p], seen[n][p]}
    BY <1>4, EndpointsRefresh, Zenon
  <2> QED BY <2>1, <2>2, <2>3, Zenon DEF EndpointsView!Refresh
<1>5. ASSUME epObj' = epObj, endpointsMap' = endpointsMap
      PROVE  UNCHANGED <<seen, endpointsMap>>
  BY <1>5, Zenon
<1>6. CASE \/ \E n \in SvcNames, new \in ApiService \cup {Nil} : ServiceEvent(n, new)
           \/ ClearServiceItems \/ ClearEndpointsItems
           \/ \E t \in Threads : SyncServiceMap(t)
           \/ UNCHANGED <<objVars, changeVars, mapVars>>
  <2>1. epObj' = epObj /\ endpointsMap' = endpointsMap
    BY <1>6, Zenon DEF ServiceEvent, ClearServiceItems, ClearEndpointsItems, SyncServiceMap,
                objVars, mapVars
  <2> QED BY <1>5, <2>1, Zenon
<1> HIDE DEF seen
<1> QED BY <1>2, <1>3, <1>4, <1>6, OtherSteps, Zenon DEF EndpointsView!Next

\* The proxier implements the view: an entry of the service map only ever
\* becomes what its Service says at that moment, so no sync takes it back to an
\* older state.
THEOREM ServiceMapRefinement == Spec => ServiceMapIsView
<1>1. Init => ServiceView!Init
  <2> SUFFICES ASSUME Init PROVE ServiceView!Init
    BY Zenon
  <2>1. [n \in SvcNames |-> ServiceEntries(svcObj[n])] = ServiceView!Nothing
    BY NilEntries, Zenon DEF Init, NoServicePorts, ServiceView!Nothing
  <2>2. serviceMap = ServiceView!Nothing
    BY Zenon DEF Init, NewServiceMap, NoServicePorts, ServiceView!Nothing
  <2> QED BY <2>1, <2>2, Zenon DEF ServiceView!Init
<1>2. Inv /\ Inv' /\ PendingChangesAreCurrent /\ [Next]_vars
        => [ServiceView!Next]_<<[n \in SvcNames |-> ServiceEntries(svcObj[n])], serviceMap>>
  <2>1. ASSUME UNCHANGED vars
        PROVE  UNCHANGED <<[n \in SvcNames |-> ServiceEntries(svcObj[n])], serviceMap>>
    BY <2>1, Zenon DEF vars, objVars, mapVars
  <2> QED BY <2>1, ServiceViewStep, Zenon
<1> QED
  BY <1>1, <1>2, InvAlways, PendingChangesCorrect, PTL
     DEF Spec, ServiceMapIsView, ServiceView!Spec

\* The same for the endpoints map.
THEOREM EndpointsMapRefinement == Spec => EndpointsMapIsView
<1>1. Init => EndpointsView!Init
  <2> SUFFICES ASSUME Init PROVE EndpointsView!Init
    BY Zenon
  <2>1. [n \in SvcNames |-> EndpointsEntries(epObj[n])] = EndpointsView!Nothing
    BY NilEntries, Zenon DEF Init, NoEndpointsPorts, EndpointsView!Nothing
  <2>2. endpointsMap = EndpointsView!Nothing
    BY Zenon DEF Init, NewEndpointsMap, NoEndpointsPorts, EndpointsView!Nothing
  <2> QED BY <2>1, <2>2, Zenon DEF EndpointsView!Init
<1>2. Inv /\ Inv' /\ PendingChangesAreCurrent /\ [Next]_vars
        => [EndpointsView!Next]_<<[n \in SvcNames |-> EndpointsEntries(epObj[n])], endpointsMap>>
  <2>1. ASSUME UNCHANGED vars
        PROVE  UNCHANGED <<[n \in SvcNames |-> EndpointsEntries(epObj[n])], endpointsMap>>
    BY <2>1, Zenon DEF vars, objVars, mapVars
  <2> QED BY <2>1, EndpointsViewStep, Zenon
<1> QED
  BY <1>1, <1>2, InvAlways, PendingChangesCorrect, PTL
     DEF Spec, EndpointsMapIsView, EndpointsView!Spec

-----------------------------------------------------------------------------
(* Where the maps are *)

\* A pending change changes something.
ChangesAreReal ==
  \A n \in SvcNames :
    /\ serviceChanges[n] # Nil
         => serviceChanges[n].previous # serviceChanges[n].current
    /\ endpointsChanges[n] # Nil
         => endpointsChanges[n].previous # endpointsChanges[n].current

\* The half of MapsExact about Services.
ServiceMapExact ==
  \A n \in SvcNames \ svcLate :
    serviceMap[n] =
      IF serviceChanges[n] = Nil \/ n \in svcApplied
      THEN SvcEntries(serviceToServiceMap(svcObj[n]))
      ELSE SvcEntries(serviceChanges[n].previous)

\* The half of MapsExact about Endpoints.
EndpointsMapExact ==
  \A n \in SvcNames \ epLate :
    endpointsMap[n] =
      IF endpointsChanges[n] = Nil \/ n \in epApplied
      THEN EpEntries(endpointsToEndpointsMap(epObj[n]))
      ELSE EpEntries(endpointsChanges[n].previous)

\* What a sync is about to remove from a change map it has applied to the map,
\* except for the names with a late event.
ServicesApplied ==
  SvcWindow \/ ServiceItemsLocked =>
    ServicesPending(serviceChanges) \subseteq svcLate \cup svcApplied

\* The same for Endpoints.
EndpointsApplied ==
  EpWindow \/ EndpointsItemsLocked =>
    EndpointsPending(endpointsChanges) \subseteq epLate \cup epApplied

\* Only a restart counts one, and an event or a restart changes an object; the
\* windows are entered by applying the changes, and left.
LEMMA HistorySteps ==
  ASSUME Inv, Next
  PROVE  \/ Crash
         \/ /\ crashes' = crashes
            /\ \/ \E n \in SvcNames, new \in ApiService \cup {Nil} : ServiceEvent(n, new)
               \/ \E n \in SvcNames, new \in ApiEndpoints \cup {Nil} : EndpointsEvent(n, new)
               \/ ClearServiceItems \/ ClearEndpointsItems \/ SyncEndpointsMap
               \/ \E t \in Threads : SyncServiceMap(t)
               \/ /\ UNCHANGED <<objVars, changeVars, mapVars>>
                  /\ (SvcWindow \/ ServiceItemsLocked)' => SvcWindow \/ ServiceItemsLocked
                  /\ (EpWindow \/ EndpointsItemsLocked)' => EpWindow \/ EndpointsItemsLocked
<1> USE DEF boundVars, ctlVars
<1> DEFINE Onwards ==
             \/ stage' = stage \/ stage' = "none"
             \/ stage \in {"kernel", "decide"} /\ stage' \in {"decide", "full", "services"}
             \/ stage = "full" /\ stage' = "services"
             \/ stage = "services" /\ stage' \in {"endpoints", "serviceItems"}
             \/ stage = "endpoints" /\ stage' \in {"finish", "endpointsItems"}
           Same == UNCHANGED <<objVars, changeVars, mapVars>> /\ crashes' = crashes /\ Onwards
<1>1. CASE Informers
  BY <1>1, ServiceObjsAssumption, EndpointsObjsAssumption, Zenon
     DEF Informers, OnServiceAdd, OnServiceUpdate, OnServiceDelete, OnEndpointsAdd,
         OnEndpointsUpdate, OnEndpointsDelete, ServiceEvent, EndpointsEvent
<1>2. Node => Same
  BY Zenon DEF Node, Traffic, OtherOpen, OtherClose
<1>3. ASSUME NEW t \in Threads, isInitialized(t) \/ SyncTooEarly(t) PROVE Same
  BY <1>3, Zenon DEF isInitialized, SyncTooEarly
<1>4. OnServiceSynced \/ OnEndpointsSynced => Same
  BY Zenon DEF OnServiceSynced, OnEndpointsSynced
<1>5. ASSUME Loop PROVE Same
  <2>1. PICK f \in MasqCalls : SyncLoopStart(f) \/ SyncTick(f)
    BY <1>5, Zenon DEF Loop
  <2> QED BY <2>1, Zenon DEF SyncLoopStart, SyncTick
<1>6. SyncNoDummyLink \/ SyncDecide \/ SyncServices \/ SyncEndpoints => Same
  BY Zenon DEF SyncNoDummyLink, SyncDecide, SyncServices, SyncEndpoints
<1>7. ASSUME NEW f, SyncReadKernel(f) \/ CheckUnusedRule(f) \/ SyncFinish(f) PROVE Same
  BY <1>7, Zenon DEF SyncReadKernel, CheckUnusedRule, SyncFinish
<1>8. ASSUME NEW sp, NEW f,
             \/ FullSyncNotBound(sp) \/ AddCurrentNotBound(sp) \/ FullSyncPort(sp, f)
             \/ DeletePrevious(sp, f) \/ AddCurrent(sp, f) \/ SyncEndpointChange(sp, f)
      PROVE  Same
  BY <1>8, Zenon DEF FullSyncNotBound, AddCurrentNotBound, FullSyncPort, DeletePrevious,
              AddCurrent, SyncEndpointChange
<1>9. ASSUME \/ ClearServiceItems \/ ClearEndpointsItems \/ SyncEndpointsMap
             \/ \E t \in Threads : SyncServiceMap(t)
      PROVE  crashes' = crashes
  BY <1>9, Zenon DEF ClearServiceItems, ClearEndpointsItems, SyncEndpointsMap, SyncServiceMap
<1> HIDE DEF Same
<1>10. \/ Informers \/ Crash \/ ClearServiceItems \/ ClearEndpointsItems
       \/ SyncEndpointsMap \/ \E t \in Threads : SyncServiceMap(t)
       \/ Same
  BY <1>2, <1>3, <1>4, <1>5, <1>6, <1>7, <1>8, NextCases, Zenon
<1>11. Onwards =>
         /\ (SvcWindow \/ ServiceItemsLocked)' => SvcWindow \/ ServiceItemsLocked
         /\ (EpWindow \/ EndpointsItemsLocked)' => EpWindow \/ EndpointsItemsLocked
  BY Zenon DEF SvcWindow, EpWindow, ServiceItemsLocked, EndpointsItemsLocked
<1> HIDE DEF Onwards
<1> QED BY <1>1, <1>9, <1>10, <1>11, Zenon DEF Same

\* No step leaves a pending change that changes nothing.
LEMMA RealStep ==
  ASSUME Inv, ChangesAreReal, Next
  PROVE  ChangesAreReal'
<1>1. ASSUME NEW n \in SvcNames, NEW new \in ApiService \cup {Nil}, ServiceEvent(n, new)
      PROVE  ChangesAreReal'
  <2>1. /\ serviceChanges' = ServiceChangesUpdate(serviceChanges, n, svcObj[n], new)
        /\ endpointsChanges' = endpointsChanges
    BY <1>1, Zenon DEF ServiceEvent
  <2>2. serviceChanges'[n] # Nil => serviceChanges'[n].previous # serviceChanges'[n].current
    BY <2>1, Zenon DEF ServiceChangesUpdate, Inv, TypeOK, ServiceChangeMap
  <2>3. \A m \in SvcNames \ {n} : serviceChanges'[m] = serviceChanges[m]
    BY <2>1, Zenon DEF ServiceChangesUpdate, Inv, TypeOK, ServiceChangeMap
  <2> QED BY <2>1, <2>2, <2>3, Zenon DEF ChangesAreReal
<1>2. ASSUME NEW n \in SvcNames, NEW new \in ApiEndpoints \cup {Nil},
             EndpointsEvent(n, new)
      PROVE  ChangesAreReal'
  <2>1. /\ endpointsChanges' = EndpointsChangesUpdate(endpointsChanges, n, epObj[n], new)
        /\ serviceChanges' = serviceChanges
    BY <1>2, Zenon DEF EndpointsEvent
  <2>2. endpointsChanges'[n] # Nil
          => endpointsChanges'[n].previous # endpointsChanges'[n].current
    BY <2>1, Zenon DEF EndpointsChangesUpdate, Inv, TypeOK, EndpointsChangeMap
  <2>3. \A m \in SvcNames \ {n} : endpointsChanges'[m] = endpointsChanges[m]
    BY <2>1, Zenon DEF EndpointsChangesUpdate, Inv, TypeOK, EndpointsChangeMap
  <2> QED BY <2>1, <2>2, <2>3, Zenon DEF ChangesAreReal
<1>3. CASE Crash \/ ClearServiceItems \/ ClearEndpointsItems
  BY <1>3, Zenon DEF Crash, ClearServiceItems, ClearEndpointsItems, ChangesAreReal,
              NewServiceChangeMap, NewEndpointsChangeMap
<1>4. CASE SyncEndpointsMap \/ \E t \in Threads : SyncServiceMap(t)
  BY <1>4, Zenon DEF SyncEndpointsMap, SyncServiceMap, ChangesAreReal, changeVars
<1>5. CASE UNCHANGED <<objVars, changeVars, mapVars>>
  BY <1>5, Zenon DEF ChangesAreReal, changeVars
<1> QED BY <1>1, <1>2, <1>3, <1>4, <1>5, OtherSteps, Zenon

\* Applying a change to the entries from before it, or to those from after it,
\* gives the entries from after it.
LEMMA AppliedServiceEntries ==
  ASSUME NEW sm \in [SvcNames -> ServicePortMap], NEW items \in ServiceChangeMap,
         NEW n \in SvcNames, items[n] # Nil,
         sm[n] \in {SvcEntries(items[n].previous), SvcEntries(items[n].current)}
  PROVE  UpdateServiceMap(sm, items)[n] = SvcEntries(items[n].current)
<1>1. /\ items[n].previous \in ServicePortMap \cup {Nil}
      /\ items[n].current \in ServicePortMap \cup {Nil}
  BY Zenon DEF ServiceChangeMap, ServiceChange
<1>2. UpdateServiceMap(sm, items)[n] \in [PortNames -> ServiceInfo \cup {Nil}]
  BY UpdateServiceMapType, Zenon DEF ServicePortMap
<1>3. SvcEntries(items[n].current) \in [PortNames -> ServiceInfo \cup {Nil}]
  BY <1>1, Zenon DEF SvcEntries, NoServicePorts, ServicePortMap
<1>4. ASSUME NEW p \in PortNames
      PROVE  UpdateServiceMap(sm, items)[n][p] = SvcEntries(items[n].current)[p]
  <2>1. ASSUME NEW m \in ServicePortMap \cup {Nil}
        PROVE  SvcEntries(m)[p] = IF p \in SvcPortsOf(m) THEN m[p] ELSE Nil
    BY Zenon DEF SvcEntries, SvcPortsOf, NoServicePorts
  <2> QED BY <1>1, <2>1, UpdateServiceMapEntry
<1> QED BY <1>2, <1>3, <1>4

\* The same for an Endpoints change.
LEMMA AppliedEndpointsEntries ==
  ASSUME NEW em \in [SvcNames -> EndpointsPortMap], NEW items \in EndpointsChangeMap,
         NEW n \in SvcNames, items[n] # Nil,
         em[n] \in {EpEntries(items[n].previous), EpEntries(items[n].current)}
  PROVE  UpdateEndpointsMap(em, items)[n] = EpEntries(items[n].current)
<1>1. /\ items[n].previous \in EndpointsPortMap \cup {Nil}
      /\ items[n].current \in EndpointsPortMap \cup {Nil}
  BY Zenon DEF EndpointsChangeMap, EndpointsChange
<1>2. UpdateEndpointsMap(em, items)[n] \in [PortNames -> SUBSET EndpointsInfo]
  BY UpdateEndpointsMapType, Zenon DEF EndpointsPortMap
<1>3. EpEntries(items[n].current) \in [PortNames -> SUBSET EndpointsInfo]
  BY <1>1, Zenon DEF EpEntries, NoEndpointsPorts, EndpointsPortMap
<1>4. ASSUME NEW p \in PortNames
      PROVE  UpdateEndpointsMap(em, items)[n][p] = EpEntries(items[n].current)[p]
  <2>1. ASSUME NEW m \in EndpointsPortMap \cup {Nil}
        PROVE  EpEntries(m)[p] = IF p \in EpPortsOf(m) THEN m[p] ELSE {}
    BY Zenon DEF EpEntries, EpPortsOf, NoEndpointsPorts
  <2> QED BY <1>1, <2>1, UpdateEndpointsMapEntry
<1> QED BY <1>2, <1>3, <1>4

\* What the history of Services records in a step that is no restart.
LEMMA ServiceHistoryCases ==
  ASSUME Inv, Next, ServiceHistory
  PROVE  /\ \A t \in Threads : SyncServiceMap(t)
              => svcApplied' = ServicesPending(serviceChanges)
         /\ ClearServiceItems => svcApplied' = {}
         /\ \/ svcApplied' = svcApplied \/ ClearServiceItems
            \/ \E t \in Threads : SyncServiceMap(t)
         /\ \A n \in SvcNames \ svcLate' :
              /\ n \notin svcLate
              /\ svcObj'[n] = svcObj[n] \/ (~SvcWindow /\ n \notin svcApplied)
<1>1. ClearServiceItems => ~\E t \in Threads : SyncServiceMap(t)
  BY Zenon DEF ClearServiceItems, SyncServiceMap
<1>2. svcApplied' = CASE \E t \in Threads : SyncServiceMap(t) -> ServicesPending(serviceChanges)
                      [] ClearServiceItems                    -> {}
                      [] OTHER                                -> svcApplied
  BY Zenon DEF ServiceHistory
<1>3. \A n \in SvcNames \ svcLate' :
        /\ n \notin svcLate
        /\ svcObj'[n] = svcObj[n] \/ (~SvcWindow /\ n \notin svcApplied)
  BY Zenon DEF ServiceHistory
<1> DEFINE A == \E t \in Threads : SyncServiceMap(t)
<1>4. CASE A
  BY <1>1, <1>2, <1>3, <1>4, Zenon
<1>5. CASE ~A /\ ClearServiceItems
  BY <1>1, <1>2, <1>3, <1>5, Zenon
<1>6. CASE ~A /\ ~ClearServiceItems
  BY <1>1, <1>2, <1>3, <1>6, Zenon
<1> QED BY <1>4, <1>5, <1>6, Zenon

\* A callback for a Service keeps the service map where the events say it is.
LEMMA ServiceEventExact ==
  ASSUME Inv, PendingChangesAreCurrent, ChangesAreReal, ServiceMapExact, ServicesApplied,
         Next, ServiceHistory,
         NEW n \in SvcNames, NEW new \in ApiService \cup {Nil}, ServiceEvent(n, new)
  PROVE  ServiceMapExact' /\ ServicesApplied'
<1>1. /\ svcObj' = [svcObj EXCEPT ![n] = new] /\ stage' = stage /\ mu' = mu
      /\ serviceChanges' = ServiceChangesUpdate(serviceChanges, n, svcObj[n], new)
      /\ serviceMap' = serviceMap /\ ~ServiceItemsLocked
  BY Zenon DEF ServiceEvent, mapVars
<1>2. ~ClearServiceItems /\ ~\E t \in Threads : SyncServiceMap(t)
  BY <1>1, NilThreadAssumption, Zenon DEF ClearServiceItems, SyncServiceMap
<1>3. svcApplied' = svcApplied
  BY <1>2, ServiceHistoryCases, Zenon
<1>4. \A m \in SvcNames \ {n} : svcObj'[m] = svcObj[m] /\ serviceChanges'[m] = serviceChanges[m]
  BY <1>1, Zenon DEF ServiceChangesUpdate, Inv, TypeOK, ServiceChangeMap
<1>5. svcObj'[n] = new
  BY <1>1, Zenon DEF Inv, TypeOK
<1> DEFINE prev == IF serviceChanges[n] = Nil THEN serviceToServiceMap(svcObj[n])
                                             ELSE serviceChanges[n].previous
           cur == serviceToServiceMap(new)
<1>6. serviceChanges'[n] = IF prev = cur THEN Nil ELSE [previous |-> prev, current |-> cur]
  BY <1>1, Zenon DEF ServiceChangesUpdate, Inv, TypeOK, ServiceChangeMap
<1>7. serviceChanges[n] # Nil =>
        /\ serviceChanges[n] = [previous |-> serviceChanges[n].previous,
                                current |-> serviceChanges[n].current]
        /\ serviceChanges[n].current = serviceToServiceMap(svcObj[n])
        /\ serviceChanges[n].previous # serviceChanges[n].current
  BY Zenon DEF PendingChangesAreCurrent, ChangesAreReal, Inv, TypeOK, ServiceChangeMap, ServiceChange
<1>8. svcObj'[n] = svcObj[n] => serviceChanges'[n] = serviceChanges[n]
  BY <1>5, <1>6, <1>7, Zenon
<1>9. serviceChanges'[n] # Nil => serviceChanges'[n].previous = prev
  BY <1>6
<1>10. ASSUME NEW m \in SvcNames \ svcLate'
       PROVE  serviceMap'[m] = IF serviceChanges'[m] = Nil \/ m \in svcApplied'
                               THEN SvcEntries(serviceToServiceMap(svcObj'[m]))
                               ELSE SvcEntries(serviceChanges'[m].previous)
  <2>1. /\ m \notin svcLate
        /\ svcObj'[m] = svcObj[m] \/ (~SvcWindow /\ m \notin svcApplied)
    BY ServiceHistoryCases, Zenon
  <2>2. serviceMap[m] = IF serviceChanges[m] = Nil \/ m \in svcApplied
                        THEN SvcEntries(serviceToServiceMap(svcObj[m]))
                        ELSE SvcEntries(serviceChanges[m].previous)
    BY <2>1, Zenon DEF ServiceMapExact
  <2>3. CASE svcObj'[m] = svcObj[m]
    BY <1>1, <1>3, <1>4, <1>8, <2>2, <2>3, Zenon
  <2>4. CASE m = n /\ n \notin svcApplied
    <3>1. serviceMap[n] = SvcEntries(prev)
      BY <2>2, <2>4, Zenon
    <3>2. serviceChanges'[n] = Nil => prev = serviceToServiceMap(svcObj'[n])
      <4>1. prev \in ServicePortMap \cup {Nil} /\ cur \in ServicePortMap \cup {Nil}
        BY ServiceToMapType, Zenon DEF Inv, TypeOK, ServiceChangeMap, ServiceChange
      <4>2. [previous |-> prev, current |-> cur] # Nil
        BY <4>1, NilServiceChangeAssumption DEF ServiceChange
      <4> QED BY <1>5, <1>6, <4>2, Zenon
    <3> HIDE DEF prev
    <3> QED BY <1>1, <1>3, <1>9, <2>4, <3>1, <3>2, Zenon
  <2> QED BY <1>4, <2>1, <2>3, <2>4, Zenon
<1>11. ServicesApplied'
  <2> SUFFICES ASSUME SvcWindow, NEW m \in SvcNames, serviceChanges'[m] # Nil,
                      m \notin svcLate'
               PROVE  m \in svcApplied
    BY <1>1, <1>3, Zenon DEF ServicesApplied, ServicesPending, SvcWindow, ServiceItemsLocked
  <2>1. m \notin svcLate /\ svcObj'[m] = svcObj[m]
    BY ServiceHistoryCases, Zenon
  <2>2. serviceChanges[m] # Nil
    BY <1>4, <1>8, <2>1, Zenon
  <2> QED BY <2>1, <2>2, Zenon DEF ServicesApplied, ServicesPending
<1> QED BY <1>10, <1>11, Zenon DEF ServiceMapExact

\* What the history of Endpoints records in a step that is no restart.
LEMMA EndpointsHistoryCases ==
  ASSUME Inv, Next, EndpointsHistory
  PROVE  /\ SyncEndpointsMap => epApplied' = EndpointsPending(endpointsChanges)
         /\ ClearEndpointsItems => epApplied' = {}
         /\ \/ epApplied' = epApplied \/ ClearEndpointsItems
            \/ SyncEndpointsMap
         /\ \A n \in SvcNames \ epLate' :
              /\ n \notin epLate
              /\ epObj'[n] = epObj[n] \/ (~EpWindow /\ n \notin epApplied)
<1>1. ClearEndpointsItems => ~SyncEndpointsMap
  BY Zenon DEF ClearEndpointsItems, SyncEndpointsMap
<1>2. epApplied' = CASE SyncEndpointsMap -> EndpointsPending(endpointsChanges)
                      [] ClearEndpointsItems -> {}
                      [] OTHER -> epApplied
  BY Zenon DEF EndpointsHistory
<1>3. \A n \in SvcNames \ epLate' :
        /\ n \notin epLate
        /\ epObj'[n] = epObj[n] \/ (~EpWindow /\ n \notin epApplied)
  BY Zenon DEF EndpointsHistory
<1> DEFINE A == SyncEndpointsMap
<1>4. CASE A
  BY <1>1, <1>2, <1>3, <1>4, Zenon
<1>5. CASE ~A /\ ClearEndpointsItems
  BY <1>1, <1>2, <1>3, <1>5, Zenon
<1>6. CASE ~A /\ ~ClearEndpointsItems
  BY <1>1, <1>2, <1>3, <1>6, Zenon
<1> QED BY <1>4, <1>5, <1>6, Zenon

\* A callback for an Endpoints object keeps the endpoints map where the events say it is.
LEMMA EndpointsEventExact ==
  ASSUME Inv, PendingChangesAreCurrent, ChangesAreReal, EndpointsMapExact, EndpointsApplied,
         Next, EndpointsHistory,
         NEW n \in SvcNames, NEW new \in ApiEndpoints \cup {Nil}, EndpointsEvent(n, new)
  PROVE  EndpointsMapExact' /\ EndpointsApplied'
<1>1. /\ epObj' = [epObj EXCEPT ![n] = new] /\ stage' = stage /\ mu' = mu
      /\ endpointsChanges' = EndpointsChangesUpdate(endpointsChanges, n, epObj[n], new)
      /\ endpointsMap' = endpointsMap /\ ~EndpointsItemsLocked
  BY Zenon DEF EndpointsEvent, mapVars
<1>2. ~ClearEndpointsItems /\ ~SyncEndpointsMap
  BY <1>1, NilThreadAssumption, Zenon DEF ClearEndpointsItems, SyncEndpointsMap
<1>3. epApplied' = epApplied
  BY <1>2, EndpointsHistoryCases, Zenon
<1>4. \A m \in SvcNames \ {n} : epObj'[m] = epObj[m] /\ endpointsChanges'[m] = endpointsChanges[m]
  BY <1>1, Zenon DEF EndpointsChangesUpdate, Inv, TypeOK, EndpointsChangeMap
<1>5. epObj'[n] = new
  BY <1>1, Zenon DEF Inv, TypeOK
<1> DEFINE prev == IF endpointsChanges[n] = Nil THEN endpointsToEndpointsMap(epObj[n])
                                             ELSE endpointsChanges[n].previous
           cur == endpointsToEndpointsMap(new)
<1>6. endpointsChanges'[n] = IF prev = cur THEN Nil ELSE [previous |-> prev, current |-> cur]
  BY <1>1, Zenon DEF EndpointsChangesUpdate, Inv, TypeOK, EndpointsChangeMap
<1>7. endpointsChanges[n] # Nil =>
        /\ endpointsChanges[n] = [previous |-> endpointsChanges[n].previous,
                                current |-> endpointsChanges[n].current]
        /\ endpointsChanges[n].current = endpointsToEndpointsMap(epObj[n])
        /\ endpointsChanges[n].previous # endpointsChanges[n].current
  BY Zenon DEF PendingChangesAreCurrent, ChangesAreReal, Inv, TypeOK, EndpointsChangeMap, EndpointsChange
<1>8. epObj'[n] = epObj[n] => endpointsChanges'[n] = endpointsChanges[n]
  BY <1>5, <1>6, <1>7, Zenon
<1>9. endpointsChanges'[n] # Nil => endpointsChanges'[n].previous = prev
  BY <1>6
<1>10. ASSUME NEW m \in SvcNames \ epLate'
       PROVE  endpointsMap'[m] = IF endpointsChanges'[m] = Nil \/ m \in epApplied'
                               THEN EpEntries(endpointsToEndpointsMap(epObj'[m]))
                               ELSE EpEntries(endpointsChanges'[m].previous)
  <2>1. /\ m \notin epLate
        /\ epObj'[m] = epObj[m] \/ (~EpWindow /\ m \notin epApplied)
    BY EndpointsHistoryCases, Zenon
  <2>2. endpointsMap[m] = IF endpointsChanges[m] = Nil \/ m \in epApplied
                        THEN EpEntries(endpointsToEndpointsMap(epObj[m]))
                        ELSE EpEntries(endpointsChanges[m].previous)
    BY <2>1, Zenon DEF EndpointsMapExact
  <2>3. CASE epObj'[m] = epObj[m]
    BY <1>1, <1>3, <1>4, <1>8, <2>2, <2>3, Zenon
  <2>4. CASE m = n /\ n \notin epApplied
    <3>1. endpointsMap[n] = EpEntries(prev)
      BY <2>2, <2>4, Zenon
    <3>2. endpointsChanges'[n] = Nil => prev = endpointsToEndpointsMap(epObj'[n])
      <4>1. prev \in EndpointsPortMap \cup {Nil} /\ cur \in EndpointsPortMap \cup {Nil}
        BY EndpointsToMapType, Zenon DEF Inv, TypeOK, EndpointsChangeMap, EndpointsChange
      <4>2. [previous |-> prev, current |-> cur] # Nil
        BY <4>1, NilEndpointsChangeAssumption DEF EndpointsChange
      <4> QED BY <1>5, <1>6, <4>2, Zenon
    <3> HIDE DEF prev
    <3> QED BY <1>1, <1>3, <1>9, <2>4, <3>1, <3>2, Zenon
  <2> QED BY <1>4, <2>1, <2>3, <2>4, Zenon
<1>11. EndpointsApplied'
  <2> SUFFICES ASSUME EpWindow, NEW m \in SvcNames, endpointsChanges'[m] # Nil,
                      m \notin epLate'
               PROVE  m \in epApplied
    BY <1>1, <1>3, Zenon DEF EndpointsApplied, EndpointsPending, EpWindow, EndpointsItemsLocked
  <2>1. m \notin epLate /\ epObj'[m] = epObj[m]
    BY EndpointsHistoryCases, Zenon
  <2>2. endpointsChanges[m] # Nil
    BY <1>4, <1>8, <2>1, Zenon
  <2> QED BY <2>1, <2>2, Zenon DEF EndpointsApplied, EndpointsPending
<1> QED BY <1>10, <1>11, Zenon DEF EndpointsMapExact

\* No step of the proxier moves the service map away from where the events say
\* it is.
LEMMA ServiceExactStep ==
  ASSUME Inv, PendingChangesAreCurrent, ChangesAreReal, ServiceMapExact, ServicesApplied,
         HNext
  PROVE  ServiceMapExact' /\ ServicesApplied'
<1>0. Next
  BY Zenon DEF HNext
<1>1. CASE Crash
  <2>1. /\ svcObj' = [n \in SvcNames |-> Nil] /\ serviceChanges' = NewServiceChangeMap
        /\ serviceMap' = NewServiceMap /\ stage' = "none"
    BY <1>1, Zenon DEF Crash
  <2>2. SvcEntries(serviceToServiceMap(Nil)) = NoServicePorts
    BY Zenon DEF SvcEntries, serviceToServiceMap
  <2> QED
    BY <2>1, <2>2, Zenon DEF ServiceMapExact, ServicesApplied, NewServiceChangeMap,
                      NewServiceMap, SvcWindow, ServiceItemsLocked
<1>2. ASSUME crashes' = crashes PROVE ServiceHistory
  BY <1>2, Zenon DEF HNext
<1>3. ASSUME ServiceHistory, NEW t \in Threads, SyncServiceMap(t)
      PROVE  ServiceMapExact' /\ ServicesApplied'
  <2>1. /\ svcObj' = svcObj /\ serviceChanges' = serviceChanges
        /\ serviceMap' = UpdateServiceMap(serviceMap, serviceChanges)
    BY <1>3, Zenon DEF SyncServiceMap, objVars, changeVars
  <2>2. svcApplied' = ServicesPending(serviceChanges)
    BY <1>0, <1>3, ServiceHistoryCases, Zenon
  <2>3. ASSUME NEW n \in SvcNames \ svcLate'
        PROVE  serviceMap'[n] = SvcEntries(serviceToServiceMap(svcObj[n]))
    <3>1. serviceMap[n] = IF serviceChanges[n] = Nil \/ n \in svcApplied
                          THEN SvcEntries(serviceToServiceMap(svcObj[n]))
                          ELSE SvcEntries(serviceChanges[n].previous)
      BY <1>0, <1>3, ServiceHistoryCases, Zenon DEF ServiceMapExact
    <3>2. CASE serviceChanges[n] = Nil
      BY <2>1, <3>1, <3>2, Zenon DEF UpdateServiceMap
    <3>3. CASE serviceChanges[n] # Nil
      <4>1. serviceChanges[n].current = serviceToServiceMap(svcObj[n])
        BY <3>3, Zenon DEF PendingChangesAreCurrent
      <4>2. serviceMap[n] \in {SvcEntries(serviceChanges[n].previous),
                               SvcEntries(serviceChanges[n].current)}
        BY <3>1, <4>1, Zenon
      <4> QED BY <2>1, <3>3, <4>1, <4>2, AppliedServiceEntries, Zenon DEF Inv, TypeOK
    <3> QED BY <3>2, <3>3, Zenon
  <2>4. ServiceMapExact'
    BY <2>1, <2>2, <2>3, Zenon DEF ServiceMapExact, ServicesPending
  <2>5. ServicesApplied'
    BY <2>1, <2>2, Zenon DEF ServicesApplied, ServicesPending
  <2> QED BY <2>4, <2>5, Zenon
<1>4. ASSUME ServiceHistory, ClearServiceItems
      PROVE  ServiceMapExact' /\ ServicesApplied'
  <2>1. /\ svcObj' = svcObj /\ serviceChanges' = NewServiceChangeMap
        /\ serviceMap' = serviceMap /\ ServiceItemsLocked
    BY <1>4, Zenon DEF ClearServiceItems, objVars, mapVars, ServiceItemsLocked
  <2>2. ASSUME NEW n \in SvcNames \ svcLate'
        PROVE  serviceMap[n] = SvcEntries(serviceToServiceMap(svcObj[n]))
    <3>1. n \notin svcLate
      BY <1>0, <1>4, ServiceHistoryCases, Zenon
    <3>2. serviceChanges[n] = Nil \/ n \in svcApplied
      BY <2>1, <3>1, Zenon DEF ServicesApplied, ServicesPending
    <3> QED BY <3>1, <3>2, Zenon DEF ServiceMapExact
  <2>3. \A n \in SvcNames : serviceChanges'[n] = Nil
    BY <2>1, Zenon DEF NewServiceChangeMap
  <2> QED BY <2>1, <2>2, <2>3, Zenon DEF ServiceMapExact, ServicesApplied, ServicesPending
<1>5. ASSUME ServiceHistory, UNCHANGED <<svcObj, serviceChanges, serviceMap>>,
             ~ClearServiceItems, ~\E t \in Threads : SyncServiceMap(t),
             (SvcWindow \/ ServiceItemsLocked)' => SvcWindow \/ ServiceItemsLocked
      PROVE  ServiceMapExact' /\ ServicesApplied'
  <2>1. svcApplied' = svcApplied /\ \A n \in SvcNames \ svcLate' : n \notin svcLate
    BY <1>0, <1>5, ServiceHistoryCases, Zenon
  <2>2. ServiceMapExact'
    BY <1>5, <2>1, Zenon DEF ServiceMapExact
  <2>3. ServicesApplied'
    BY <1>5, <2>1, Zenon DEF ServicesApplied, ServicesPending
  <2> QED BY <2>2, <2>3, Zenon
<1>6. ASSUME \/ \E n \in SvcNames, new \in ApiEndpoints \cup {Nil} : EndpointsEvent(n, new)
             \/ ClearEndpointsItems \/ SyncEndpointsMap
      PROVE  /\ UNCHANGED <<svcObj, serviceChanges, serviceMap>>
             /\ (SvcWindow \/ ServiceItemsLocked)' => SvcWindow \/ ServiceItemsLocked
  BY <1>6, Zenon DEF EndpointsEvent, ClearEndpointsItems, SyncEndpointsMap, objVars, mapVars,
              changeVars, SvcWindow, ServiceItemsLocked
<1>7. ASSUME NEW n \in SvcNames, NEW new \in ApiService \cup {Nil}, ServiceEvent(n, new),
             ServiceHistory
      PROVE  ServiceMapExact' /\ ServicesApplied'
  BY <1>0, <1>7, ServiceEventExact, Zenon
<1>8. UNCHANGED <<objVars, changeVars, mapVars>>
        => UNCHANGED <<svcObj, serviceChanges, serviceMap>>
  BY Zenon DEF objVars, changeVars, mapVars
<1> QED BY <1>0, <1>1, <1>2, <1>3, <1>4, <1>5, <1>6, <1>7, <1>8, HistorySteps, Zenon

\* No step of the proxier moves the endpoints map away from where the events say
\* it is.
LEMMA EndpointsExactStep ==
  ASSUME Inv, PendingChangesAreCurrent, ChangesAreReal, EndpointsMapExact, EndpointsApplied,
         HNext
  PROVE  EndpointsMapExact' /\ EndpointsApplied'
<1>0. Next
  BY Zenon DEF HNext
<1>1. CASE Crash
  <2>1. /\ epObj' = [n \in SvcNames |-> Nil] /\ endpointsChanges' = NewEndpointsChangeMap
        /\ endpointsMap' = NewEndpointsMap /\ stage' = "none"
    BY <1>1, Zenon DEF Crash
  <2>2. EpEntries(endpointsToEndpointsMap(Nil)) = NoEndpointsPorts
    BY Zenon DEF EpEntries, endpointsToEndpointsMap
  <2> QED
    BY <2>1, <2>2, Zenon DEF EndpointsMapExact, EndpointsApplied, NewEndpointsChangeMap,
                      NewEndpointsMap, EpWindow, EndpointsItemsLocked
<1>2. ASSUME crashes' = crashes PROVE EndpointsHistory
  BY <1>2, Zenon DEF HNext
<1>3. ASSUME EndpointsHistory, SyncEndpointsMap
      PROVE  EndpointsMapExact' /\ EndpointsApplied'
  <2>1. /\ epObj' = epObj /\ endpointsChanges' = endpointsChanges
        /\ endpointsMap' = UpdateEndpointsMap(endpointsMap, endpointsChanges)
    BY <1>3, Zenon DEF SyncEndpointsMap, objVars, changeVars
  <2>2. epApplied' = EndpointsPending(endpointsChanges)
    BY <1>0, <1>3, EndpointsHistoryCases, Zenon
  <2>3. ASSUME NEW n \in SvcNames \ epLate'
        PROVE  endpointsMap'[n] = EpEntries(endpointsToEndpointsMap(epObj[n]))
    <3>1. endpointsMap[n] = IF endpointsChanges[n] = Nil \/ n \in epApplied
                          THEN EpEntries(endpointsToEndpointsMap(epObj[n]))
                          ELSE EpEntries(endpointsChanges[n].previous)
      BY <1>0, <1>3, EndpointsHistoryCases, Zenon DEF EndpointsMapExact
    <3>2. CASE endpointsChanges[n] = Nil
      BY <2>1, <3>1, <3>2, Zenon DEF UpdateEndpointsMap
    <3>3. CASE endpointsChanges[n] # Nil
      <4>1. endpointsChanges[n].current = endpointsToEndpointsMap(epObj[n])
        BY <3>3, Zenon DEF PendingChangesAreCurrent
      <4>2. endpointsMap[n] \in {EpEntries(endpointsChanges[n].previous),
                               EpEntries(endpointsChanges[n].current)}
        BY <3>1, <4>1, Zenon
      <4> QED BY <2>1, <3>3, <4>1, <4>2, AppliedEndpointsEntries, Zenon DEF Inv, TypeOK
    <3> QED BY <3>2, <3>3, Zenon
  <2>4. EndpointsMapExact'
    BY <2>1, <2>2, <2>3, Zenon DEF EndpointsMapExact, EndpointsPending
  <2>5. EndpointsApplied'
    BY <2>1, <2>2, Zenon DEF EndpointsApplied, EndpointsPending
  <2> QED BY <2>4, <2>5, Zenon
<1>4. ASSUME EndpointsHistory, ClearEndpointsItems
      PROVE  EndpointsMapExact' /\ EndpointsApplied'
  <2>1. /\ epObj' = epObj /\ endpointsChanges' = NewEndpointsChangeMap
        /\ endpointsMap' = endpointsMap /\ EndpointsItemsLocked
    BY <1>4, Zenon DEF ClearEndpointsItems, objVars, mapVars, EndpointsItemsLocked
  <2>2. ASSUME NEW n \in SvcNames \ epLate'
        PROVE  endpointsMap[n] = EpEntries(endpointsToEndpointsMap(epObj[n]))
    <3>1. n \notin epLate
      BY <1>0, <1>4, EndpointsHistoryCases, Zenon
    <3>2. endpointsChanges[n] = Nil \/ n \in epApplied
      BY <2>1, <3>1, Zenon DEF EndpointsApplied, EndpointsPending
    <3> QED BY <3>1, <3>2, Zenon DEF EndpointsMapExact
  <2>3. \A n \in SvcNames : endpointsChanges'[n] = Nil
    BY <2>1, Zenon DEF NewEndpointsChangeMap
  <2> QED BY <2>1, <2>2, <2>3, Zenon DEF EndpointsMapExact, EndpointsApplied, EndpointsPending
<1>5. ASSUME EndpointsHistory, UNCHANGED <<epObj, endpointsChanges, endpointsMap>>,
             ~ClearEndpointsItems, ~SyncEndpointsMap,
             (EpWindow \/ EndpointsItemsLocked)' => EpWindow \/ EndpointsItemsLocked
      PROVE  EndpointsMapExact' /\ EndpointsApplied'
  <2>1. epApplied' = epApplied /\ \A n \in SvcNames \ epLate' : n \notin epLate
    BY <1>0, <1>5, EndpointsHistoryCases, Zenon
  <2>2. EndpointsMapExact'
    BY <1>5, <2>1, Zenon DEF EndpointsMapExact
  <2>3. EndpointsApplied'
    BY <1>5, <2>1, Zenon DEF EndpointsApplied, EndpointsPending
  <2> QED BY <2>2, <2>3, Zenon
<1>6. ASSUME \/ \E n \in SvcNames, new \in ApiService \cup {Nil} : ServiceEvent(n, new)
             \/ ClearServiceItems \/ \E t \in Threads : SyncServiceMap(t)
      PROVE  /\ UNCHANGED <<epObj, endpointsChanges, endpointsMap>>
             /\ (EpWindow \/ EndpointsItemsLocked)' => EpWindow \/ EndpointsItemsLocked
  BY <1>6, Zenon DEF ServiceEvent, ClearServiceItems, SyncServiceMap, objVars, mapVars,
              changeVars, EpWindow, EndpointsItemsLocked
<1>7. ASSUME NEW n \in SvcNames, NEW new \in ApiEndpoints \cup {Nil}, EndpointsEvent(n, new),
             EndpointsHistory
      PROVE  EndpointsMapExact' /\ EndpointsApplied'
  BY <1>0, <1>7, EndpointsEventExact, Zenon
<1>8. UNCHANGED <<objVars, changeVars, mapVars>>
        => UNCHANGED <<epObj, endpointsChanges, endpointsMap>>
  BY Zenon DEF objVars, changeVars, mapVars
<1> QED BY <1>0, <1>1, <1>2, <1>3, <1>4, <1>5, <1>6, <1>7, <1>8, HistorySteps, Zenon

\* Invariant of the history: the maps are where the events say they are.
HistoryInv ==
  /\ ChangesAreReal
  /\ ServiceMapExact /\ ServicesApplied
  /\ EndpointsMapExact /\ EndpointsApplied

\* Every step keeps the maps where the events say they are.
LEMMA HistoryAlways == HSpec => []HistoryInv
<1>1. HInit => HistoryInv
  <2> SUFFICES ASSUME HInit PROVE HistoryInv
    BY Zenon
  <2>1. /\ \A n \in SvcNames : /\ svcObj[n] = Nil /\ epObj[n] = Nil
                               /\ serviceChanges[n] = Nil /\ endpointsChanges[n] = Nil
                               /\ serviceMap[n] = NoServicePorts
                               /\ endpointsMap[n] = NoEndpointsPorts
        /\ stage = "none"
    BY Zenon DEF HInit, Init, NewServiceChangeMap, NewEndpointsChangeMap, NewServiceMap,
           NewEndpointsMap
  <2>2. /\ SvcEntries(serviceToServiceMap(Nil)) = NoServicePorts
        /\ EpEntries(endpointsToEndpointsMap(Nil)) = NoEndpointsPorts
    BY Zenon DEF SvcEntries, EpEntries, serviceToServiceMap, endpointsToEndpointsMap
  <2> QED
    BY <2>1, <2>2, Zenon DEF HistoryInv, ChangesAreReal, ServiceMapExact, ServicesApplied,
                      EndpointsMapExact, EndpointsApplied, SvcWindow, EpWindow,
                      ServiceItemsLocked, EndpointsItemsLocked
<1>2. Inv /\ LocalsFresh /\ PendingChangesAreCurrent /\ HistoryInv /\ [HNext]_hvars
        => HistoryInv'
  <2>1. ASSUME HistoryInv, UNCHANGED hvars PROVE HistoryInv'
    BY <2>1, Zenon DEF HistoryInv, ChangesAreReal, ServiceMapExact, ServicesApplied,
                EndpointsMapExact, EndpointsApplied, SvcWindow, EpWindow,
                ServiceItemsLocked, EndpointsItemsLocked, ServicesPending,
                EndpointsPending, hvars, histVars, vars, objVars, changeVars, mapVars,
                ctlVars
  <2>2. ASSUME Inv, PendingChangesAreCurrent, HistoryInv, HNext PROVE HistoryInv'
    <3>1. Next
      BY <2>2, Zenon DEF HNext
    <3>2. ChangesAreReal'
      BY <2>2, <3>1, RealStep, Zenon DEF HistoryInv
    <3>3. ServiceMapExact' /\ ServicesApplied'
      BY <2>2, ServiceExactStep, Zenon DEF HistoryInv
    <3>4. EndpointsMapExact' /\ EndpointsApplied'
      BY <2>2, EndpointsExactStep, Zenon DEF HistoryInv
    <3> QED BY <3>2, <3>3, <3>4, Zenon DEF HistoryInv
  <2> QED BY <2>1, <2>2, Zenon
<1>3. HInit => Init
  BY Zenon DEF HInit
<1>4. [HNext]_hvars => [Next]_vars
  BY Zenon DEF HNext, hvars
<1> QED
  BY <1>1, <1>2, <1>3, <1>4, InvAlways, PendingChangesCorrect, PTL DEF HSpec, Spec

\* The maps of the proxier are where the events say they are: every name whose
\* last event was not late has in the map what that event said, or what was
\* there before a change that is still pending.
THEOREM MapsAreExact == HSpec => []MapsExact
<1>1. HistoryInv => MapsExact
  BY Zenon DEF HistoryInv, ServiceMapExact, EndpointsMapExact, MapsExact
<1> QED BY <1>1, HistoryAlways, PTL

-----------------------------------------------------------------------------
(* Session affinity *)

\* The keys an entry asks for.
Asked(info) == Keys(info, info.externalIPs, IF info.nodePort = 0 THEN {} ELSE NodeIPs)

\* The rule is one the entry asks for, with the affinity of the entry.
Explains(info, l, persistent) ==
  /\ info # Nil /\ l \in Lib(Asked(info))
  /\ l \in persistent <=> info.affinity

\* The change of the name, if there is one, has been carried out on the rules.
CarriedOut(n) == serviceChanges[n] = Nil \/ (ServiceItemsLocked /\ n \notin sync.items)

\* The entries that the rules of the name come from.
RuleEntries(n) ==
  IF CarriedOut(n) THEN serviceMap[n] ELSE SvcEntries(serviceChanges[n].previous)

\* Every rule comes from an entry, and has the affinity of that entry.
RulesExplained ==
  \A l \in ipvs.services : \E sp \in ServicePortNames :
    Explains(RuleEntries(sp[1])[sp[2]], l, ipvs.persistent)

\* What the steps that edit rules rely on: a full sync has no changes to carry out,
\* the addresses of the node were read, and the old rules of a name are deleted
\* before new ones are created.
RulesReady ==
  /\ stage \in {"decide", "full"} => ServicesPending(serviceChanges) = {}
  /\ stage \in {"decide", "full", "services", "serviceItems"} => sync.nodeIPs = NodeIPs
  /\ stage = "serviceItems" => \A sp \in sync.todo : sp[1] \notin sync.items

\* Nothing failed, and no event was late.
Undisturbed == faults = 0 /\ crashes = 0 /\ svcLate = {}

\* The flags of the rules, as long as nothing disturbs the syncs.
AffinityInv ==
  Undisturbed =>
    ipvs.persistent \subseteq ipvs.services /\ RulesExplained /\ RulesReady

\* The steps without a failing call that change rules, changes or the service map,
\* or that are one of the stages RulesReady is about.
LEMMA RuleSteps ==
  ASSUME Inv, Next, faults' = 0
  PROVE  \/ \E n \in SvcNames, new \in ApiService \cup {Nil} : ServiceEvent(n, new)
         \/ \E t \in Threads : SyncServiceMap(t)
         \/ SyncReadKernel(NoFault) \/ SyncDecide
         \/ \E sp \in sync.todo : FullSyncPort(sp, NoFault)
         \/ CheckUnusedRule(NoFault) \/ SyncServices
         \/ \E n \in sync.items : DeletePrevious(n, NoFault)
         \/ \E sp \in sync.todo : AddCurrent(sp, NoFault)
         \/ ClearServiceItems \/ Crash
         \/ /\ UNCHANGED <<serviceChanges, serviceMap>>
            /\ ipvs'.services = ipvs.services /\ ipvs'.persistent = ipvs.persistent
            /\ \/ UNCHANGED <<stage, sync>>
               \/ {stage, stage'} \cap {"decide", "full", "services", "serviceItems"} = {}
<1> DEFINE Same == /\ UNCHANGED <<serviceChanges, serviceMap>>
                   /\ ipvs'.services = ipvs.services /\ ipvs'.persistent = ipvs.persistent
                   /\ \/ UNCHANGED <<stage, sync>>
                      \/ {stage, stage'} \cap
                           {"decide", "full", "services", "serviceItems"} = {}
<1>1. ASSUME NEW f, Fault(f) PROVE f = NoFault
  BY <1>1, NoFaultYet, Zenon DEF Inv
<1>2. ~Fault(<<"dummyLink">>) /\ ~Fault(<<"bind">>)
  BY <1>1, Zenon DEF NoFault
<1>3. ASSUME NEW sp PROVE ~SyncNoDummyLink /\ ~FullSyncNotBound(sp) /\ ~AddCurrentNotBound(sp)
  BY <1>2, Zenon DEF SyncNoDummyLink, FullSyncNotBound, AddCurrentNotBound
<1>4. ASSUME NEW x, NEW f,
             \/ SyncReadKernel(f) \/ FullSyncPort(x, f) \/ CheckUnusedRule(f)
             \/ DeletePrevious(x, f) \/ AddCurrent(x, f)
      PROVE  f = NoFault
  BY <1>1, <1>4, Zenon DEF SyncReadKernel, FullSyncPort, CheckUnusedRule, DeletePrevious, AddCurrent
<1>5. CASE Informers
  <2>1. CASE \E n \in SvcNames, new \in ApiEndpoints \cup {Nil} : EndpointsEvent(n, new)
    BY <2>1, Zenon DEF EndpointsEvent, mapVars, kernelVars
  <2> QED
    BY <1>5, <2>1, ServiceObjsAssumption, EndpointsObjsAssumption, Zenon
       DEF Informers, OnServiceAdd, OnServiceUpdate, OnServiceDelete, OnEndpointsAdd,
           OnEndpointsUpdate, OnEndpointsDelete
<1>6. Node => Same
  BY Zenon DEF Node, Traffic, OtherOpen, OtherClose, changeVars, mapVars, ctlVars, kernelVars
<1>7. ASSUME NEW t, isInitialized(t) \/ SyncTooEarly(t) PROVE Same
  BY <1>7, Zenon DEF isInitialized, SyncTooEarly, changeVars, mapVars, kernelVars
<1>8. OnServiceSynced \/ OnEndpointsSynced => Same
  BY Zenon DEF OnServiceSynced, OnEndpointsSynced, changeVars, mapVars, kernelVars
<1>9. ASSUME Loop PROVE Same
  <2>1. PICK f \in MasqCalls : SyncLoopStart(f) \/ SyncTick(f)
    BY <1>9, Zenon DEF Loop
  <2> QED BY <2>1, Zenon DEF SyncLoopStart, SyncTick, changeVars, mapVars
<1>10. SyncEndpointsMap \/ SyncEndpoints \/ ClearEndpointsItems => Same
  BY Zenon DEF SyncEndpointsMap, SyncEndpoints, ClearEndpointsItems, changeVars, mapVars, kernelVars
<1>11. ASSUME NEW f, SyncFinish(f) PROVE Same
  BY <1>11, Zenon DEF SyncFinish, changeVars, mapVars
<1>12. ASSUME NEW sp, NEW f, SyncEndpointChange(sp, f) PROVE Same
  <2>1. /\ UNCHANGED <<serviceChanges, serviceMap, stage>> /\ stage = "endpointsItems"
        /\ \/ ipvs' = ipvs
           \/ \E keys : ipvs' = CreateEndpointRule(ipvs, keys, sp)
    BY <1>12, Zenon DEF SyncEndpointChange, changeVars, mapVars, ctlVars
  <2>2. ipvs'.services = ipvs.services /\ ipvs'.persistent = ipvs.persistent
    BY <2>1, EndpointRuleServices DEF Inv, TypeOK
  <2> QED BY <2>1, <2>2, Zenon
<1> HIDE DEF Same
<1>13. \/ SyncReadKernel(NoFault) \/ SyncDecide \/ Informers
       \/ \E t \in Threads : SyncServiceMap(t)
       \/ \E sp \in sync.todo : FullSyncPort(sp, NoFault)
       \/ CheckUnusedRule(NoFault) \/ SyncServices
       \/ \E n \in sync.items : DeletePrevious(n, NoFault)
       \/ \E sp \in sync.todo : AddCurrent(sp, NoFault)
       \/ ClearServiceItems \/ Crash \/ Same
  BY <1>3, <1>4, <1>6, <1>7, <1>8, <1>9, <1>10, <1>11, <1>12, NextCases, Zenon
<1> QED BY <1>5, <1>13, Zenon DEF Same

\* The entries the rules of a name come from are entries.
LEMMA RuleEntriesType ==
  ASSUME TypeOK, NEW n \in SvcNames
  PROVE  RuleEntries(n) \in ServicePortMap
<1>1. serviceMap[n] \in ServicePortMap
  BY Zenon DEF TypeOK
<1>2. serviceChanges[n] # Nil => serviceChanges[n].previous \in ServicePortMap \cup {Nil}
  BY Zenon DEF TypeOK, ServiceChangeMap, ServiceChange
<1>3. NoServicePorts \in ServicePortMap
  BY Zenon DEF NoServicePorts, ServicePortMap
<1> QED BY <1>1, <1>2, <1>3, Zenon DEF RuleEntries, CarriedOut, SvcEntries

\* What an entry asks for are keys.
LEMMA AskedType ==
  ASSUME NEW info \in ServiceInfo
  PROVE  Asked(info) \in SUBSET ServiceKeys
<1>1. (IF info.nodePort = 0 THEN {} ELSE NodeIPs) \in SUBSET IPs
  BY AddressAssumption, Zenon
<1>2. info.externalIPs \in SUBSET IPs
  BY Zenon DEF ServiceInfo
<1> QED BY <1>1, <1>2, KeysType, Zenon DEF Asked

\* The rules a step neither creates nor changes keep what explains them.
LEMMA KeptRules ==
  ASSUME RulesExplained,
         \A n \in SvcNames : RuleEntries(n)' = RuleEntries(n),
         NEW l \in ipvs.services, l \in ipvs'.persistent <=> l \in ipvs.persistent
  PROVE  \E sp \in ServicePortNames : Explains(RuleEntries(sp[1])'[sp[2]], l, ipvs'.persistent)
<1>1. PICK sp \in ServicePortNames : Explains(RuleEntries(sp[1])[sp[2]], l, ipvs.persistent)
  BY Zenon DEF RulesExplained
<1>2. RuleEntries(sp[1])' = RuleEntries(sp[1])
  BY Zenon DEF ServicePortNames
<1> QED BY <1>1, <1>2, Zenon DEF Explains

\* Creating rules an entry asks for, with the affinity of the entry.
LEMMA CreatedRules ==
  ASSUME Inv, RulesExplained, ipvs.persistent \subseteq ipvs.services,
         \A n \in SvcNames : RuleEntries(n)' = RuleEntries(n),
         NEW sp \in ServicePortNames, NEW info \in ServiceInfo, info = RuleEntries(sp[1])[sp[2]],
         NEW keys \in SUBSET ServiceKeys, keys \subseteq Asked(info),
         ipvs'.services = AddIpvsService(ipvs, keys, info.affinity).services,
         ipvs'.persistent = AddIpvsService(ipvs, keys, info.affinity).persistent
  PROVE  RulesExplained' /\ ipvs'.persistent \subseteq ipvs'.services
<1> DEFINE new == Lib(keys) \ ipvs.services
<1>1. /\ ipvs'.services = ipvs.services \cup new
      /\ ipvs'.persistent = IF info.affinity THEN ipvs.persistent \cup new ELSE ipvs.persistent
  BY Zenon DEF AddIpvsService, Inv, TypeOK, IpvsTables
<1>2. ipvs'.persistent \subseteq ipvs'.services
  BY <1>1, Zenon
<1>3. ASSUME NEW l \in ipvs'.services
      PROVE  \E o \in ServicePortNames : Explains(RuleEntries(o[1])'[o[2]], l, ipvs'.persistent)
  <2>1. CASE l \in ipvs.services
    <3>1. l \in ipvs'.persistent <=> l \in ipvs.persistent
      BY <1>1, <2>1, Zenon
    <3> QED BY <2>1, <3>1, KeptRules, Zenon
  <2>2. CASE l \in new
    <3>1. l \in ipvs'.persistent <=> info.affinity
      BY <1>1, <2>2, Zenon
    <3>2. l \in Lib(Asked(info))
      BY <2>2, Zenon DEF Lib
    <3>3. info # Nil
      BY NilAssumption, Zenon
    <3>4. RuleEntries(sp[1])'[sp[2]] = info
      BY Zenon DEF ServicePortNames
    <3> QED BY <3>1, <3>2, <3>3, <3>4, Zenon DEF Explains
  <2> QED BY <1>1, <2>1, <2>2, Zenon
<1> QED BY <1>2, <1>3, Zenon DEF RulesExplained

\* A callback changes no entry that rules come from, unless its event is late.
LEMMA EventKeepsRules ==
  ASSUME Inv, PendingChangesAreCurrent, HistoryInv, ServiceMapExact', Next, ServiceHistory,
         NEW n \in SvcNames, NEW new \in ApiService \cup {Nil}, ServiceEvent(n, new),
         svcLate' = {}
  PROVE  /\ \A m \in SvcNames : RuleEntries(m)' = RuleEntries(m)
         /\ SvcWindow => serviceChanges' = serviceChanges
<1>1. /\ svcObj' = [svcObj EXCEPT ![n] = new] /\ stage' = stage /\ mu' = mu
      /\ serviceChanges' = ServiceChangesUpdate(serviceChanges, n, svcObj[n], new)
      /\ serviceMap' = serviceMap /\ ~ServiceItemsLocked /\ sync' = sync
  BY Zenon DEF ServiceEvent, mapVars
<1>2. ~ClearServiceItems /\ ~\E t \in Threads : SyncServiceMap(t)
  BY <1>1, NilThreadAssumption, Zenon DEF ClearServiceItems, SyncServiceMap
<1>3. svcApplied' = svcApplied
  BY <1>2, ServiceHistoryCases, Zenon
<1>4. \A m \in SvcNames : m \notin svcLate /\
        (svcObj'[m] = svcObj[m] \/ (~SvcWindow /\ m \notin svcApplied))
  BY ServiceHistoryCases, Zenon
<1>5. /\ \A m \in SvcNames \ {n} : serviceChanges'[m] = serviceChanges[m]
      /\ svcObj'[n] = svcObj[n] => serviceChanges'[n] = serviceChanges[n]
  <2>1. \A m \in SvcNames \ {n} : serviceChanges'[m] = serviceChanges[m]
    BY <1>1, Zenon DEF ServiceChangesUpdate, Inv, TypeOK, ServiceChangeMap
  <2> DEFINE prev == IF serviceChanges[n] = Nil THEN serviceToServiceMap(svcObj[n])
                                               ELSE serviceChanges[n].previous
             cur == serviceToServiceMap(new)
  <2>2. serviceChanges'[n] = IF prev = cur THEN Nil ELSE [previous |-> prev, current |-> cur]
    BY <1>1, Zenon DEF ServiceChangesUpdate, Inv, TypeOK, ServiceChangeMap
  <2>3. serviceChanges[n] # Nil =>
          /\ serviceChanges[n] = [previous |-> serviceChanges[n].previous,
                                  current |-> serviceChanges[n].current]
          /\ serviceChanges[n].current = serviceToServiceMap(svcObj[n])
          /\ serviceChanges[n].previous # serviceChanges[n].current
    BY Zenon DEF PendingChangesAreCurrent, HistoryInv, ChangesAreReal, Inv, TypeOK,
           ServiceChangeMap, ServiceChange
  <2>4. svcObj'[n] = new
    BY <1>1, Zenon DEF Inv, TypeOK
  <2> QED BY <2>1, <2>2, <2>3, <2>4, Zenon
<1>6. ASSUME NEW m \in SvcNames PROVE RuleEntries(m)' = RuleEntries(m)
  <2>1. CASE serviceChanges'[m] = serviceChanges[m]
    BY <1>1, <2>1, Zenon DEF RuleEntries, CarriedOut, ServiceItemsLocked
  <2>2. CASE serviceChanges'[m] # serviceChanges[m]
    <3>1. m \notin svcApplied /\ m \notin svcApplied' /\ m \notin svcLate /\ m \notin svcLate'
      BY <1>3, <1>4, <1>5, <2>2, Zenon
    <3>2. serviceChanges[m] # Nil => serviceMap[m] = SvcEntries(serviceChanges[m].previous)
      BY <3>1, Zenon DEF HistoryInv, ServiceMapExact
    <3>3. serviceChanges'[m] # Nil => serviceMap'[m] = SvcEntries(serviceChanges'[m].previous)
      BY <3>1, Zenon DEF ServiceMapExact
    <3>4. RuleEntries(m) = serviceMap[m] /\ RuleEntries(m)' = serviceMap'[m]
      BY <3>2, <3>3, Zenon DEF RuleEntries, CarriedOut
    <3> QED BY <1>1, <3>4, Zenon
  <2> QED BY <2>1, <2>2, Zenon
<1>7. ASSUME SvcWindow PROVE serviceChanges' = serviceChanges
  <2>1. \A m \in SvcNames : serviceChanges'[m] = serviceChanges[m]
    BY <1>4, <1>5, <1>7, Zenon
  <2>2. serviceChanges' = [serviceChanges EXCEPT ![n] = serviceChanges'[n]]
    BY <1>1, Zenon DEF ServiceChangesUpdate, Inv, TypeOK, ServiceChangeMap
  <2> QED BY <2>1, <2>2, Zenon DEF Inv, TypeOK, ServiceChangeMap
<1> QED BY <1>6, <1>7, Zenon

\* Where the entries of an unchanged map come from.
LEMMA SameEntries ==
  ASSUME serviceChanges' = serviceChanges, serviceMap' = serviceMap,
         \/ stage' = stage /\ sync'.items = sync.items
         \/ stage # "serviceItems" /\ stage' # "serviceItems"
  PROVE  \A n \in SvcNames : RuleEntries(n)' = RuleEntries(n)
BY Zenon DEF RuleEntries, CarriedOut, ServiceItemsLocked

\* While the addresses of the node are those that were read, a service port may
\* have the rules it asks for.
LEMMA AskedKeys ==
  ASSUME sync.nodeIPs = NodeIPs, NEW info
  PROVE  AllKeys(info) = Asked(info)
BY Zenon DEF AllKeys, Asked

\* A full sync of one service port creates rules with its affinity.
LEMMA FullSyncPortAffinity ==
  ASSUME Inv, ipvs.persistent \subseteq ipvs.services, RulesExplained, RulesReady,
         NEW sp \in sync.todo, FullSyncPort(sp, NoFault)
  PROVE  ipvs'.persistent \subseteq ipvs'.services /\ RulesExplained' /\ RulesReady'
<1> DEFINE info == serviceMap[sp[1]][sp[2]]
           keys == HeldKeys(sp, info, NoFault)
           created == {k \in keys \ (keys \cap sync.kernelIpvsMap.services) :
                         NoFault # <<"service", k>>}
           t == AddIpvsService(ipvs, created, info.affinity)
<1>1. /\ stage = "full" /\ stage' = "full"
      /\ serviceChanges' = serviceChanges /\ serviceMap' = serviceMap
      /\ sync'.items = sync.items /\ sync'.nodeIPs = sync.nodeIPs
  BY Zenon DEF FullSyncPort, mapVars, ctlVars, changeVars, Inv, TypeOK, SyncLocals
<1>2. \E reached : ipvs' = CreateEndpointRule(t, reached, sp)
  BY Zenon DEF FullSyncPort
<1>3. sp \in ServicePortNames /\ info \in ServiceInfo
  BY <1>1, FullSyncInfo, Zenon
<1>4. keys \in SUBSET ServiceKeys
  BY <1>3, HeldTypes, Zenon DEF Inv
<1>5. created \in SUBSET ServiceKeys /\ created \subseteq Asked(info)
  <2>1. keys \subseteq Asked(info)
    BY <1>1, HeldKeysAmongAll, AskedKeys, Zenon DEF RulesReady
  <2> HIDE DEF keys
  <2> QED BY <1>4, <2>1, Zenon
<1>6. info = RuleEntries(sp[1])[sp[2]]
  <2>1. sp[1] \in SvcNames
    BY <1>3, Zenon DEF ServicePortNames
  <2>2. serviceChanges[sp[1]] = Nil
    BY <1>1, <2>1, Zenon DEF RulesReady, ServicesPending
  <2> QED BY <2>2, Zenon DEF RuleEntries, CarriedOut
<1>7. \A n \in SvcNames : RuleEntries(n)' = RuleEntries(n)
  BY <1>1, SameEntries, Zenon
<1>8. RulesReady'
  BY <1>1, Zenon DEF RulesReady
<1> HIDE DEF info, keys, created
<1>9. t \in IpvsTables
  BY <1>5, AddIpvsServiceType, Zenon DEF Inv, TypeOK
<1>10. ipvs'.services = t.services /\ ipvs'.persistent = t.persistent
  BY <1>2, <1>9, EndpointRuleServices
<1>11. RulesExplained' /\ ipvs'.persistent \subseteq ipvs'.services
  BY <1>3, <1>5, <1>6, <1>7, <1>10, CreatedRules, Zenon
<1> QED BY <1>8, <1>11, Zenon

\* Carrying out a change first deletes every rule of the previous entries.
LEMMA DeletePreviousAffinity ==
  ASSUME Inv, ipvs.persistent \subseteq ipvs.services, RulesExplained, RulesReady,
         NEW n \in sync.items, DeletePrevious(n, NoFault)
  PROVE  ipvs'.persistent \subseteq ipvs'.services /\ RulesExplained' /\ RulesReady'
<1> DEFINE prev == serviceChanges[n].previous
           gone == {k \in PreviousKeys(n) : NoFault # <<"service", k>>}
<1>1. /\ stage = "serviceItems" /\ stage' = "serviceItems"
      /\ serviceChanges' = serviceChanges /\ serviceMap' = serviceMap
      /\ sync'.items = sync.items \ {n} /\ sync'.nodeIPs = sync.nodeIPs
      /\ sync'.todo = {n} \X SvcPortsOf(serviceChanges[n].current)
      /\ ipvs' = DeleteIpvsService(ipvs, gone)
  BY Zenon DEF DeletePrevious, mapVars, ctlVars, changeVars, Inv, TypeOK, SyncLocals
<1>2. n \in SvcNames /\ serviceChanges[n] # Nil
  BY <1>1, Zenon DEF Inv, LoopsVisitEntries, ServicesPending
<1>3. RulesReady'
  BY <1>1, Zenon DEF RulesReady
<1>4. gone = PreviousKeys(n)
  BY Zenon DEF NoFault
<1> HIDE DEF gone
<1>5. /\ ipvs'.services = ipvs.services \ Lib(gone)
      /\ ipvs'.persistent = ipvs.persistent \ Lib(gone)
  BY <1>1, Zenon DEF DeleteIpvsService
<1>6. ASSUME NEW l \in ipvs'.services
      PROVE  \E sp \in ServicePortNames : Explains(RuleEntries(sp[1])'[sp[2]], l, ipvs'.persistent)
  <2>1. PICK sp \in ServicePortNames : Explains(RuleEntries(sp[1])[sp[2]], l, ipvs.persistent)
    BY <1>5, Zenon DEF RulesExplained
  <2>2. sp[1] \in SvcNames /\ sp[2] \in PortNames
    BY Zenon DEF ServicePortNames
  <2>3. sp[1] # n
    <3> SUFFICES ASSUME sp[1] = n PROVE l \in Lib(gone)
      BY <1>5, Zenon
    <3>1. RuleEntries(n) = SvcEntries(prev)
      BY <1>1, <1>2, Zenon DEF RuleEntries, CarriedOut, ServiceItemsLocked
    <3>2. RuleEntries(n)[sp[2]] # Nil /\ l \in Lib(Asked(RuleEntries(n)[sp[2]]))
      BY <2>1, Zenon DEF Explains
    <3>3. prev # Nil
      BY <2>2, <3>1, <3>2, Zenon DEF SvcEntries, NoServicePorts
    <3>4. RuleEntries(n)[sp[2]] = prev[sp[2]] /\ sp[2] \in SvcPortsOf(prev)
      BY <2>2, <3>1, <3>2, <3>3, Zenon DEF SvcEntries, SvcPortsOf
    <3>5. AllKeys(prev[sp[2]]) = Asked(prev[sp[2]])
      BY <1>1, AskedKeys, Zenon DEF RulesReady
    <3>6. Asked(prev[sp[2]]) \subseteq gone
      BY <1>4, <3>4, <3>5, Zenon DEF PreviousKeys
    <3> QED BY <3>2, <3>4, <3>6, Zenon DEF Lib
  <2>4. RuleEntries(sp[1])' = RuleEntries(sp[1])
    BY <1>1, <2>3, Zenon DEF RuleEntries, CarriedOut, ServiceItemsLocked
  <2>5. l \in ipvs'.persistent <=> l \in ipvs.persistent
    BY <1>5, Zenon
  <2> QED BY <2>1, <2>4, <2>5, Zenon DEF Explains
<1> QED BY <1>3, <1>5, <1>6, Zenon DEF RulesExplained

\* Carrying out a change then creates the rules of the current entries.
LEMMA AddCurrentAffinity ==
  ASSUME Inv, PendingChangesAreCurrent, ServiceMapExact, ServicesApplied, svcLate = {},
         ipvs.persistent \subseteq ipvs.services, RulesExplained, RulesReady,
         NEW sp \in sync.todo, AddCurrent(sp, NoFault)
  PROVE  ipvs'.persistent \subseteq ipvs'.services /\ RulesExplained' /\ RulesReady'
<1> DEFINE info == serviceChanges[sp[1]].current[sp[2]]
           keys == {k \in HeldKeys(sp, info, NoFault) : NoFault # <<"service", k>>}
<1>1. /\ stage = "serviceItems" /\ stage' = "serviceItems"
      /\ serviceChanges' = serviceChanges /\ serviceMap' = serviceMap
      /\ sync'.items = sync.items /\ sync'.nodeIPs = sync.nodeIPs
      /\ sync'.todo \subseteq sync.todo
      /\ ipvs' = AddIpvsService(ipvs, keys, info.affinity)
  BY Zenon DEF AddCurrent, mapVars, ctlVars, changeVars, Inv, TypeOK, SyncLocals
<1>2. sp \in ServicePortNames /\ info \in ServiceInfo
  BY <1>1, ItemInfo, Zenon
<1>3. keys \in SUBSET ServiceKeys /\ keys \subseteq Asked(info)
  <2>1. HeldKeys(sp, info, NoFault) \in SUBSET ServiceKeys
    BY <1>2, HeldTypes, Zenon DEF Inv
  <2>2. HeldKeys(sp, info, NoFault) \subseteq Asked(info)
    BY <1>1, HeldKeysAmongAll, AskedKeys, Zenon DEF RulesReady
  <2> QED BY <2>1, <2>2, Zenon
<1>4. info = RuleEntries(sp[1])[sp[2]]
  <2>1. sp[1] \in SvcNames /\ sp[2] \in PortNames
    BY <1>2, Zenon DEF ServicePortNames
  <2>2. sp[1] \notin sync.items /\ serviceChanges[sp[1]] # Nil
    BY <1>1, Zenon DEF RulesReady, Inv, LoopsVisitEntries
  <2>3. RuleEntries(sp[1]) = serviceMap[sp[1]]
    BY <1>1, <2>2, Zenon DEF RuleEntries, CarriedOut, ServiceItemsLocked
  <2>4. sp[1] \in svcApplied
    BY <1>1, <2>1, <2>2, Zenon DEF ServicesApplied, ServicesPending, ServiceItemsLocked
  <2>5. serviceMap[sp[1]] = SvcEntries(serviceChanges[sp[1]].current)
    BY <2>1, <2>2, <2>4, Zenon DEF ServiceMapExact, PendingChangesAreCurrent
  <2>6. serviceChanges[sp[1]].current # Nil
    BY <1>1, Zenon DEF Inv, LoopsVisitEntries, SvcPortsOf
  <2> QED BY <2>3, <2>5, <2>6, Zenon DEF SvcEntries
<1>5. \A n \in SvcNames : RuleEntries(n)' = RuleEntries(n)
  BY <1>1, SameEntries, Zenon
<1>6. RulesReady'
  BY <1>1, Zenon DEF RulesReady
<1> HIDE DEF info, keys
<1>7. RulesExplained' /\ ipvs'.persistent \subseteq ipvs'.services
  BY <1>1, <1>2, <1>3, <1>4, <1>5, CreatedRules, Zenon
<1> QED BY <1>6, <1>7, Zenon

\* Every step that is not disturbed keeps the rules explained.
LEMMA AffinityStep ==
  ASSUME Inv, LocalsFresh, PendingChangesAreCurrent, HistoryInv, ServiceMapExact',
         AffinityInv, HNext
  PROVE  AffinityInv'
<1> SUFFICES ASSUME faults' = 0, crashes' = 0, svcLate' = {}
             PROVE  ipvs'.persistent \subseteq ipvs'.services /\ RulesExplained' /\ RulesReady'
  BY Zenon DEF AffinityInv, Undisturbed
<1> DEFINE Goal == ipvs'.persistent \subseteq ipvs'.services /\ RulesExplained' /\ RulesReady'
<1>1. Next
  BY Zenon DEF HNext
<1>2. ~Crash /\ crashes' = crashes
  <2>1. ~Crash
    BY DEF Crash, Inv, TypeOK
  <2> QED BY <1>1, <2>1, HistorySteps, Zenon
<1>3. ServiceHistory
  BY <1>2, Zenon DEF HNext
<1>4. faults = 0 /\ crashes = 0 /\ svcLate = {}
  BY <1>1, <1>2, <1>3, FaultsGrow, Zenon DEF ServiceHistory
<1>5. ipvs.persistent \subseteq ipvs.services /\ RulesExplained /\ RulesReady
  BY <1>4, Zenon DEF AffinityInv, Undisturbed
<1>6. ServiceMapExact /\ ServicesApplied
  BY Zenon DEF HistoryInv
<1>7. ASSUME ipvs'.services \subseteq ipvs.services,
             ipvs'.persistent = ipvs.persistent \cap ipvs'.services,
             \A n \in SvcNames : RuleEntries(n)' = RuleEntries(n)
      PROVE  ipvs'.persistent \subseteq ipvs'.services /\ RulesExplained'
  <2>1. ASSUME NEW l \in ipvs'.services
        PROVE  \E sp \in ServicePortNames :
                 Explains(RuleEntries(sp[1])'[sp[2]], l, ipvs'.persistent)
    BY <1>5, <1>7, KeptRules, Zenon
  <2> QED BY <1>7, <2>1, Zenon DEF RulesExplained
<1>8. ASSUME ipvs'.services = ipvs.services, ipvs'.persistent = ipvs.persistent,
             \A n \in SvcNames : RuleEntries(n)' = RuleEntries(n)
      PROVE  ipvs'.persistent \subseteq ipvs'.services /\ RulesExplained'
  BY <1>5, <1>7, <1>8, Zenon
<1>9. ASSUME NEW n \in SvcNames, NEW new \in ApiService \cup {Nil}, ServiceEvent(n, new)
      PROVE  Goal
  <2>1. /\ \A m \in SvcNames : RuleEntries(m)' = RuleEntries(m)
        /\ SvcWindow => serviceChanges' = serviceChanges
    BY <1>1, <1>3, <1>9, EventKeepsRules, Zenon
  <2>2. ipvs' = ipvs /\ stage' = stage /\ sync' = sync
    BY <1>9, Zenon DEF ServiceEvent, kernelVars
  <2>3. RulesReady'
    BY <1>5, <2>1, <2>2, Zenon DEF RulesReady, SvcWindow
  <2> QED BY <1>8, <2>1, <2>2, <2>3, Zenon
<1>10. ASSUME NEW t \in Threads, SyncServiceMap(t) PROVE Goal
  <2>1. /\ serviceChanges' = serviceChanges /\ ipvs' = ipvs
        /\ serviceMap' = UpdateServiceMap(serviceMap, serviceChanges)
        /\ mu = Nil /\ stage' = "endpointsMap"
    BY <1>10, Zenon DEF SyncServiceMap, changeVars, kernelVars
  <2>2. stage = "none"
    BY <2>1, Zenon DEF LocalsFresh
  <2>3. \A n \in SvcNames : RuleEntries(n)' = RuleEntries(n)
    BY <2>1, <2>2, Zenon DEF RuleEntries, CarriedOut, ServiceItemsLocked, UpdateServiceMap
  <2>4. RulesReady'
    BY <2>1, Zenon DEF RulesReady
  <2> QED BY <1>8, <2>1, <2>3, <2>4, Zenon
<1>11. ASSUME SyncReadKernel(NoFault) PROVE Goal
  <2>1. /\ serviceChanges' = serviceChanges /\ serviceMap' = serviceMap /\ ipvs' = ipvs
        /\ stage = "kernel"
        /\ stage' = IF ServicesPending(serviceChanges) = {} THEN "decide" ELSE "services"
        /\ sync'.nodeIPs = GetNodeIPs(NoFault)
    BY <1>11, Zenon DEF SyncReadKernel, changeVars, mapVars, kernelVars, Inv, TypeOK, SyncLocals
  <2>2. GetNodeIPs(NoFault) = NodeIPs
    BY Zenon DEF GetNodeIPs, NoFault
  <2>3. RulesReady'
    BY <2>1, <2>2, Zenon DEF RulesReady, ServicesPending
  <2>4. \A n \in SvcNames : RuleEntries(n)' = RuleEntries(n)
    BY <2>1, SameEntries, Zenon
  <2> QED BY <1>8, <2>1, <2>3, <2>4, Zenon
<1>12. ASSUME SyncDecide \/ SyncServices PROVE Goal
  <2>1. /\ serviceChanges' = serviceChanges /\ serviceMap' = serviceMap /\ ipvs' = ipvs
        /\ sync'.nodeIPs = sync.nodeIPs
        /\ \/ stage = "decide" /\ stage' \in {"full", "services"}
           \/ stage = "services" /\ stage' = "endpoints"
           \/ /\ stage = "services" /\ stage' = "serviceItems"
              /\ sync'.items = ServicesPending(serviceChanges) /\ sync'.todo = sync.todo
    BY <1>12, Zenon DEF SyncDecide, SyncServices, changeVars, mapVars, kernelVars, Inv, TypeOK,
                 SyncLocals
  <2>2. stage = "services" => sync.todo = {}
    BY Zenon DEF LocalsFresh
  <2>3. RulesReady'
    BY <1>5, <2>1, <2>2, Zenon DEF RulesReady
  <2>4. \A n \in SvcNames : RuleEntries(n)' = RuleEntries(n)
    BY <2>1, Zenon DEF RuleEntries, CarriedOut, ServiceItemsLocked, ServicesPending
  <2> QED BY <1>8, <2>1, <2>3, <2>4, Zenon
<1>13. ASSUME CheckUnusedRule(NoFault) PROVE Goal
  <2>1. /\ serviceChanges' = serviceChanges /\ serviceMap' = serviceMap /\ sync' = sync
        /\ stage = "full" /\ stage' = "services"
        /\ ipvs' = ipvs \/ \E keys : ipvs' = DeleteIpvsService(ipvs, keys)
    BY <1>13, Zenon DEF CheckUnusedRule, changeVars, mapVars
  <2>2. /\ ipvs'.services \subseteq ipvs.services
        /\ ipvs'.persistent = ipvs.persistent \cap ipvs'.services
    BY <1>5, <2>1 DEF DeleteIpvsService
  <2>3. RulesReady'
    BY <1>5, <2>1, Zenon DEF RulesReady
  <2>4. \A n \in SvcNames : RuleEntries(n)' = RuleEntries(n)
    BY <2>1, SameEntries, Zenon
  <2> QED BY <1>7, <2>2, <2>3, <2>4, Zenon
<1>14. ASSUME ClearServiceItems PROVE Goal
  <2>1. /\ serviceChanges' = NewServiceChangeMap /\ serviceMap' = serviceMap /\ ipvs' = ipvs
        /\ stage = "serviceItems" /\ stage' = "endpoints" /\ sync.items = {}
    BY <1>14, Zenon DEF ClearServiceItems, mapVars, kernelVars
  <2>2. \A n \in SvcNames : RuleEntries(n)' = RuleEntries(n)
    BY <2>1, Zenon DEF RuleEntries, CarriedOut, ServiceItemsLocked, NewServiceChangeMap
  <2>3. RulesReady'
    BY <2>1, Zenon DEF RulesReady
  <2> QED BY <1>8, <2>1, <2>2, <2>3, Zenon
<1>15. ASSUME UNCHANGED <<serviceChanges, serviceMap>>,
              ipvs'.services = ipvs.services, ipvs'.persistent = ipvs.persistent,
              \/ UNCHANGED <<stage, sync>>
              \/ {stage, stage'} \cap {"decide", "full", "services", "serviceItems"} = {}
       PROVE  Goal
  <2>1. \/ UNCHANGED <<stage, sync>>
        \/ /\ stage \notin {"decide", "full", "services", "serviceItems"}
           /\ stage' \notin {"decide", "full", "services", "serviceItems"}
    BY <1>15, Zenon
  <2>2. \A n \in SvcNames : RuleEntries(n)' = RuleEntries(n)
    BY <1>15, <2>1, SameEntries, Zenon
  <2>3. RulesReady'
    BY <1>5, <1>15, <2>1, Zenon DEF RulesReady
  <2> QED BY <1>8, <1>15, <2>2, <2>3, Zenon
<1>16. ASSUME NEW sp \in sync.todo, FullSyncPort(sp, NoFault) PROVE Goal
  BY <1>5, <1>16, FullSyncPortAffinity, Zenon
<1>17. ASSUME NEW n \in sync.items, DeletePrevious(n, NoFault) PROVE Goal
  BY <1>5, <1>17, DeletePreviousAffinity, Zenon
<1>18. ASSUME NEW sp \in sync.todo, AddCurrent(sp, NoFault) PROVE Goal
  BY <1>4, <1>5, <1>6, <1>18, AddCurrentAffinity, Zenon
<1> HIDE DEF Goal
<1>19. Goal
  BY <1>1, <1>2, <1>9, <1>10, <1>11, <1>12, <1>13, <1>14, <1>15, <1>16, <1>17, <1>18,
     RuleSteps, Zenon
<1> QED BY <1>19, Zenon DEF Goal

\* Between syncs, when every event has been handled, the rules come from the
\* Services as the last events had them.
LEMMA RulesFollowServices ==
  ASSUME Inv, LocalsFresh, HistoryInv, AffinityInv
  PROVE  AffinityFollowsService
<1> SUFFICES ASSUME mu = Nil, faults = 0, crashes = 0, svcLate = {},
                    ServicesPending(serviceChanges) = {},
                    NEW sp \in ServicePortNames, NEW k \in ObjectKeys(sp),
                    \A other \in ServicePortNames \ {sp} : k \notin ObjectKeys(other),
                    CreateLibIpvsService(k) \in ipvs.services
             PROVE  CreateLibIpvsService(k) \in ipvs.persistent
                      <=> ServiceEntries(svcObj[sp[1]])[sp[2]].affinity
  BY Zenon DEF AffinityFollowsService
<1>1. \A n \in SvcNames : RuleEntries(n) = ServiceEntries(svcObj[n])
  <2>1. \A n \in SvcNames : serviceChanges[n] = Nil
    BY Zenon DEF ServicesPending
  <2>2. \A n \in SvcNames : RuleEntries(n) = serviceMap[n]
    BY <2>1, Zenon DEF RuleEntries, CarriedOut
  <2>3. \A n \in SvcNames : serviceMap[n] = SvcEntries(serviceToServiceMap(svcObj[n]))
    BY <2>1, Zenon DEF HistoryInv, ServiceMapExact
  <2> QED BY <2>2, <2>3, Zenon DEF SvcEntries, ServiceEntries
<1>2. ASSUME NEW o \in ServicePortNames, RuleEntries(o[1])[o[2]] # Nil
      PROVE  /\ RuleEntries(o[1])[o[2]] \in ServiceInfo
             /\ ObjectKeys(o) = Asked(RuleEntries(o[1])[o[2]])
  <2>1. o[1] \in SvcNames /\ o[2] \in PortNames
    BY Zenon DEF ServicePortNames
  <2>2. RuleEntries(o[1]) \in ServicePortMap
    BY <2>1, RuleEntriesType, Zenon DEF Inv
  <2>3. RuleEntries(o[1]) = ServiceEntries(svcObj[o[1]])
    BY <1>1, <2>1, Zenon
  <2> QED BY <1>2, <2>1, <2>2, <2>3, Zenon DEF ServicePortMap, ObjectKeys, Asked
<1>3. k \in ServiceKeys
  <2>1. sp[1] \in SvcNames
    BY Zenon DEF ServicePortNames
  <2>2. RuleEntries(sp[1])[sp[2]] # Nil
    BY <1>1, <2>1, Zenon DEF ObjectKeys
  <2> QED BY <1>2, <2>2, AskedType, Zenon
<1>4. PICK o \in ServicePortNames :
        Explains(RuleEntries(o[1])[o[2]], CreateLibIpvsService(k), ipvs.persistent)
  BY Zenon DEF AffinityInv, Undisturbed, RulesExplained
<1>5. k \in ObjectKeys(o)
  BY <1>2, <1>3, <1>4, AskedType, LibMember DEF Explains
<1>6. o = sp
  BY <1>5, Zenon
<1>7. RuleEntries(sp[1]) = ServiceEntries(svcObj[sp[1]])
  BY <1>1, Zenon DEF ServicePortNames
<1> QED BY <1>4, <1>6, <1>7, Zenon DEF Explains

\* A rule has the session affinity its Service asks for: no sequence of events and
\* syncs leaves a rule with the flag of an older Service, as long as no call fails
\* and no event is late.
THEOREM AffinityIsFollowed == HSpec => []AffinityFollowsService
<1>1. HInit => AffinityInv
  BY DEF HInit, Init, NoIpvs, AffinityInv, RulesExplained, RulesReady
<1>2. Inv /\ LocalsFresh /\ PendingChangesAreCurrent /\ HistoryInv /\ HistoryInv'
        /\ AffinityInv /\ [HNext]_hvars => AffinityInv'
  <2>1. ASSUME AffinityInv, UNCHANGED hvars PROVE AffinityInv'
    <3>1. UNCHANGED <<serviceChanges, serviceMap, ipvs, stage, sync, faults, crashes, svcLate>>
      BY <2>1, Zenon DEF hvars, histVars, vars, changeVars, mapVars, ctlVars, kernelVars, boundVars
    <3>2. \A n : RuleEntries(n)' = RuleEntries(n)
      BY <3>1, Zenon DEF RuleEntries, CarriedOut, ServiceItemsLocked
    <3> QED BY <2>1, <3>1, <3>2, Zenon DEF AffinityInv, Undisturbed, RulesExplained, RulesReady
  <2>2. HistoryInv' => ServiceMapExact'
    BY Zenon DEF HistoryInv
  <2> QED BY <2>1, <2>2, AffinityStep, Zenon
<1>3. HInit => Init
  BY Zenon DEF HInit
<1>4. [HNext]_hvars => [Next]_vars
  BY Zenon DEF HNext, hvars
<1>5. Inv /\ LocalsFresh /\ HistoryInv /\ AffinityInv => AffinityFollowsService
  BY RulesFollowServices, Zenon
<1> QED
  BY <1>1, <1>2, <1>3, <1>4, <1>5, HistoryAlways, InvAlways, PendingChangesCorrect, PTL
     DEF HSpec, Spec

-----------------------------------------------------------------------------
(* Flows to cluster IPs *)

\* The entries that the Service objects of a service port's name give it.
EntriesOf(sp) == {ServiceEntries(o)[sp[2]] : o \in ServiceObjs[sp[1]]} \ {Nil}

\* The key of the rule for the cluster IP, and its form in the kernel.
ClusterKey(info) == Key(info.ip, info.port, info)

ClusterRule(info) == CreateLibIpvsService(ClusterKey(info))

\* The cluster address of a service port is fixed: the number of one of its ports
\* is never given to another port, and no other service port asks for a rule there.
AddressesFixed ==
  \A sp, other \in ServicePortNames : \A a \in EntriesOf(sp), b \in EntriesOf(other) :
    /\ sp = other => ClusterKey(a) = ClusterKey(b)
    /\ ClusterKey(a) \in Asked(b) => sp = other

\* The entries of a port map come from the objects of the name.
KnownPorts(n, m) == \A p \in SvcPortsOf(m) : m[p] \in EntriesOf(<<n, p>>)

\* Objects, changes and the service map come from the objects of each name.
EntriesInv ==
  \A n \in SvcNames :
    /\ svcObj[n] \in ServiceObjs[n] \cup {Nil}
    /\ serviceChanges[n] # Nil => /\ KnownPorts(n, serviceChanges[n].previous)
                                  /\ KnownPorts(n, serviceChanges[n].current)
    /\ KnownPorts(n, serviceMap[n])

\* The real servers and the flows at the cluster address of an entry.
RealServers(a) == {s \in ipvs.servers : s.svc = ClusterRule(a)}

FlowsTo(a) == {f \in conntrack : f.ip = a.ip /\ f.port = a.port /\ f.natIP # Nil}

EndpointIPs(sp) == {e.ip : e \in endpointsMap[sp[1]][sp[2]]}

\* The endpoints, and those that the sync under way flushes at its end.
KnownIPs(sp) == EndpointIPs(sp) \cup {q.ip : q \in {q \in sync.staleEndpoints : q.svc = sp}}

\* The real servers that are no endpoints any more.
OldServers(sp, a) == {s \in RealServers(a) : s.dst.ip \notin EndpointIPs(sp)}

\* The sync under way has yet to visit the service port, and deletes them then.
DeletesServers(sp, a) ==
  /\ EpWindow \/ EndpointsItemsLocked
  /\ endpointsChanges[sp[1]] # Nil /\ sp[2] \in EpPortsOf(endpointsChanges[sp[1]].previous)
  /\ EndpointsItemsLocked => sp \in sync.todo
  /\ stage # "kernel" =>
       \A s \in OldServers(sp, a) : CreateInterServer(s) \in sync.kernelIpvsMap.servers

\* The sync under way has yet to visit the name, and deletes the rule then.
DeletesRule(sp) ==
  /\ stage \in {"endpointsMap", "kernel", "services", "serviceItems"}
  /\ serviceChanges[sp[1]] # Nil /\ sp[2] \in SvcPortsOf(serviceChanges[sp[1]].previous)
  /\ ServiceItemsLocked => sp[1] \in sync.items

\* The cluster address of a service port that is in the service map: servers and
\* flows lead to endpoints, or to those that the sync under way takes away.
PresentSafe(sp, a) ==
  /\ \A s \in RealServers(a) : s.dst.ip \in KnownIPs(sp)
  /\ \A f \in FlowsTo(a) : f.natIP \in KnownIPs(sp)
  /\ OldServers(sp, a) # {} => DeletesServers(sp, a)

\* That of one that is not: nothing is there, or the sync under way takes it away.
AbsentSafe(sp, a) ==
  /\ a.ip \in sync.staleServices \/ (FlowsTo(a) = {} /\ ClusterRule(a) \notin ipvs.services)
  /\ ClusterRule(a) \in ipvs.services => DeletesRule(sp)

Safe(sp, a) ==
  /\ RealServers(a) # {} => ClusterRule(a) \in ipvs.services
  /\ IF serviceMap[sp[1]][sp[2]] = Nil THEN AbsentSafe(sp, a) ELSE PresentSafe(sp, a)

\* A sync begins without stale endpoints, and asks for no other addresses.
FlowReady ==
  /\ sync.nodeIPs \subseteq NodeIPs
  /\ stage \in {"none", "endpointsMap"} => sync.staleEndpoints = {}

FlowSafe ==
  \A sp \in ServicePortNames : sp[1] \notin svcLate \cup epLate =>
    \A a \in EntriesOf(sp) : a.protocol = "udp" => Safe(sp, a)

FlowInv == faults = 0 /\ crashes = 0 => EntriesInv /\ FlowReady /\ FlowSafe

\* Such an entry is an entry.
LEMMA EntryType ==
  ASSUME NEW sp \in ServicePortNames, NEW a \in EntriesOf(sp)
  PROVE  a \in ServiceInfo /\ ClusterKey(a) \in ServiceKeys
<1>1. sp[1] \in SvcNames /\ sp[2] \in PortNames
  BY Zenon DEF ServicePortNames
<1>2. PICK o \in ServiceObjs[sp[1]] : a = ServiceEntries(o)[sp[2]]
  BY Zenon DEF EntriesOf
<1>3. o \in ApiService
  BY <1>1, ServiceObjsAssumption, Zenon
<1>4. serviceToServiceMap(o) \in ServicePortMap \cup {Nil} /\ NoServicePorts \in ServicePortMap
  BY <1>3, ServiceToMapType, Zenon DEF NoServicePorts, ServicePortMap
<1>5. ServiceEntries(o) \in ServicePortMap
  BY <1>4, Zenon DEF ServiceEntries
<1>6. a # Nil
  BY Zenon DEF EntriesOf
<1>7. a \in ServiceInfo
  BY <1>1, <1>2, <1>5, <1>6, Zenon DEF ServicePortMap
<1>8. ClusterKey(a) \in ServiceKeys
  BY <1>7 DEF ClusterKey, Key, ServiceInfo, ServiceKeys
<1> QED BY <1>7, <1>8, Zenon

\* The entries of a service port agree on the cluster address.
LEMMA SameAddress ==
  ASSUME AddressesFixed, NEW sp \in ServicePortNames, NEW a \in EntriesOf(sp),
         NEW b \in EntriesOf(sp)
  PROVE  /\ ClusterKey(b) = ClusterKey(a)
         /\ b.ip = a.ip /\ b.port = a.port /\ b.protocol = a.protocol
<1>1. ClusterKey(b) = ClusterKey(a)
  BY ZenonT(30) DEF AddressesFixed
<1> QED BY <1>1 DEF ClusterKey, Key

\* A service port visits its own cluster address, and no other one does.
LEMMA OwnAddress ==
  ASSUME AddressesFixed, FlowReady,
         NEW sp \in ServicePortNames, NEW a \in EntriesOf(sp),
         NEW other \in ServicePortNames, NEW b \in EntriesOf(other)
  PROVE  ClusterKey(a) \in AllKeys(b) <=> sp = other
<1>1. AllKeys(b) \subseteq Asked(b)
  <2>1. (IF b.nodePort = 0 THEN {} ELSE sync.nodeIPs)
          \subseteq (IF b.nodePort = 0 THEN {} ELSE NodeIPs)
    BY Zenon DEF FlowReady
  <2> QED BY <2>1, KeysMonotone, Zenon DEF AllKeys, Asked
<1>2. ClusterKey(b) \in AllKeys(b)
  BY Zenon DEF AllKeys, Keys, ClusterKey
<1>3. ClusterKey(a) \in Asked(b) => sp = other
  BY Zenon DEF AddressesFixed
<1>4. ASSUME sp = other PROVE ClusterKey(a) = ClusterKey(b)
  BY <1>4, SameAddress
<1> QED BY <1>1, <1>2, <1>3, <1>4, Zenon

\* What the service map and the changes have for a service port.
LEMMA KnownEntries ==
  ASSUME Inv, EntriesInv, NEW sp \in ServicePortNames
  PROVE  /\ serviceMap[sp[1]][sp[2]] # Nil => serviceMap[sp[1]][sp[2]] \in EntriesOf(sp)
         /\ serviceChanges[sp[1]] # Nil =>
              /\ sp[2] \in SvcPortsOf(serviceChanges[sp[1]].previous)
                   => serviceChanges[sp[1]].previous[sp[2]] \in EntriesOf(sp)
              /\ sp[2] \in SvcPortsOf(serviceChanges[sp[1]].current)
                   => serviceChanges[sp[1]].current[sp[2]] \in EntriesOf(sp)
<1>1. sp[1] \in SvcNames /\ sp[2] \in PortNames /\ sp = <<sp[1], sp[2]>>
  BY DEF ServicePortNames
<1>2. serviceMap[sp[1]] # Nil
  BY <1>1, NilAssumption, Zenon DEF Inv, TypeOK
<1>3. serviceMap[sp[1]][sp[2]] # Nil => sp[2] \in SvcPortsOf(serviceMap[sp[1]])
  BY <1>1, <1>2, Zenon DEF SvcPortsOf
<1> QED BY <1>1, <1>3, Zenon DEF EntriesInv, KnownPorts

-----------------------------------------------------------------------------
(* Flows: what the calls do to one cluster address *)

\* Creating services.
LEMMA CreatedService ==
  ASSUME NEW t \in IpvsTables, NEW keys \in SUBSET ServiceKeys, NEW k \in ServiceKeys,
         NEW affinity
  PROVE  /\ CreateLibIpvsService(k) \in AddIpvsService(t, keys, affinity).services
              <=> CreateLibIpvsService(k) \in t.services \/ k \in keys
         /\ AddIpvsService(t, keys, affinity).servers = t.servers
<1>1. CreateLibIpvsService(k) \in Lib(keys) <=> k \in keys
  BY LibMember, Zenon
<1>2. /\ AddIpvsService(t, keys, affinity).services = t.services \cup (Lib(keys) \ t.services)
      /\ AddIpvsService(t, keys, affinity).servers = t.servers
  BY DEF AddIpvsService, IpvsTables
<1> QED BY <1>1, <1>2, Zenon

\* Deleting services.
LEMMA DeletedService ==
  ASSUME NEW t, NEW keys \in SUBSET ServiceKeys, NEW k \in ServiceKeys
  PROVE  /\ CreateLibIpvsService(k) \in DeleteIpvsService(t, keys).services
              <=> CreateLibIpvsService(k) \in t.services /\ k \notin keys
         /\ \A s \in DeleteIpvsService(t, keys).servers :
              s.svc = CreateLibIpvsService(k) => s \in t.servers /\ k \notin keys
<1>1. CreateLibIpvsService(k) \in Lib(keys) <=> k \in keys
  BY LibMember, Zenon
<1>2. /\ DeleteIpvsService(t, keys).services = t.services \ Lib(keys)
      /\ DeleteIpvsService(t, keys).servers = {s \in t.servers : s.svc \notin Lib(keys)}
  BY DEF DeleteIpvsService
<1> QED BY <1>1, <1>2, Zenon

\* CreateEndpointRule adds endpoints only, under services that are there.
LEMMA AddedServers ==
  ASSUME NEW t \in IpvsTables, NEW keys \in SUBSET ServiceKeys, NEW k \in ServiceKeys,
         NEW sp, NEW s \in CreateEndpointRule(t, keys, sp).servers,
         s.svc = CreateLibIpvsService(k)
  PROVE  \/ s \in t.servers
         \/ k \in keys /\ s.svc \in t.services /\ s.dst.ip \in EndpointIPs(sp)
<1> DEFINE old == {r \in sync.kernelIpvsMap.servers : r.svc \in keys}
           new == [svc: keys,
                   dst: {[ip |-> e.ip, port |-> e.port] : e \in endpointsMap[sp[1]][sp[2]]}]
<1>1. CreateEndpointRule(t, keys, sp) = DeleteIpvsServer(AddIpvsServer(t, new \ old), old \ new)
  BY Zenon DEF CreateEndpointRule
<1>2. \A r \in new : r.svc \in keys /\ r.dst.ip \in EndpointIPs(sp)
  BY DEF EndpointIPs
<1> HIDE DEF old, new
<1>3. s \in AddIpvsServer(t, new \ old).servers
  BY <1>1 DEF DeleteIpvsServer, AddIpvsServer, IpvsTables
<1>4. \/ s \in t.servers
      \/ \E r \in new : s = CreateLibIpvsServer(r) /\ CreateLibIpvsService(r.svc) \in t.services
  BY <1>3 DEF AddIpvsServer, IpvsTables
<1>5. ASSUME NEW r \in new, s = CreateLibIpvsServer(r), CreateLibIpvsService(r.svc) \in t.services
      PROVE  k \in keys /\ s.svc \in t.services /\ s.dst.ip \in EndpointIPs(sp)
  <2>1. s.svc = CreateLibIpvsService(r.svc) /\ s.dst = r.dst
    BY <1>5 DEF CreateLibIpvsServer
  <2>2. r.svc \in ServiceKeys
    BY <1>2, Zenon
  <2>3. r.svc = k
    BY <2>1, <2>2, LibInjective, Zenon
  <2> QED BY <1>2, <1>5, <2>1, <2>3, Zenon
<1> QED BY <1>4, <1>5, Zenon

\* CreateEndpointRule deletes the servers that were read and are no endpoints.
LEMMA RemovedServers ==
  ASSUME NEW t \in IpvsTables, NEW keys, NEW k \in keys, k \in ServiceKeys, NEW sp,
         NEW s \in CreateEndpointRule(t, keys, sp).servers,
         s.svc = CreateLibIpvsService(k), s \in t.servers,
         CreateInterServer(s) \in sync.kernelIpvsMap.servers
  PROVE  s.dst.ip \in EndpointIPs(sp)
<1> DEFINE old == {r \in sync.kernelIpvsMap.servers : r.svc \in keys}
           new == [svc: keys,
                   dst: {[ip |-> e.ip, port |-> e.port] : e \in endpointsMap[sp[1]][sp[2]]}]
           r == CreateInterServer(s)
<1>1. CreateEndpointRule(t, keys, sp) = DeleteIpvsServer(AddIpvsServer(t, new \ old), old \ new)
  BY Zenon DEF CreateEndpointRule
<1>2. s \in [svc: LibKeys, dst: Servers]
  BY DEF IpvsTables
<1>3. r.svc = k /\ r.dst = s.dst
  BY KeyRoundTrip DEF CreateInterServer
<1>4. CreateLibIpvsServer(r) = s
  BY <1>2, <1>3 DEF CreateLibIpvsServer
<1>5. r \in old
  BY <1>3, Zenon
<1>6. \A q \in new : q.dst.ip \in EndpointIPs(sp)
  BY DEF EndpointIPs
<1> HIDE DEF old, new, r
<1>7. r \notin old \ new
  BY <1>1, <1>4 DEF DeleteIpvsServer, AddIpvsServer, IpvsTables
<1> QED BY <1>3, <1>5, <1>6, <1>7, Zenon

-----------------------------------------------------------------------------
(* Flows: the steps *)

\* The steps without a failing call that flows and what they depend on can tell.
LEMMA FlowSteps ==
  ASSUME Inv, Next, faults' = 0
  PROVE  \/ Informers \/ Crash \/ \E t \in Threads : SyncServiceMap(t)
         \/ SyncEndpointsMap \/ SyncReadKernel(NoFault) \/ SyncDecide
         \/ \E sp \in sync.todo : FullSyncPort(sp, NoFault)
         \/ CheckUnusedRule(NoFault) \/ SyncServices
         \/ \E n \in sync.items : DeletePrevious(n, NoFault)
         \/ \E sp \in sync.todo : AddCurrent(sp, NoFault)
         \/ ClearServiceItems \/ SyncEndpoints
         \/ \E sp \in sync.todo : SyncEndpointChange(sp, NoFault)
         \/ ClearEndpointsItems \/ SyncFinish(NoFault)
         \/ \E k \in ipvs.services : Traffic(k)
         \/ UNCHANGED <<objVars, changeVars, mapVars, stage, sync, ipvs, conntrack>>
<1> DEFINE Same == UNCHANGED <<objVars, changeVars, mapVars, stage, sync, ipvs, conntrack>>
<1>1. ASSUME NEW f, Fault(f) PROVE f = NoFault
  BY <1>1, NoFaultYet, Zenon DEF Inv
<1>2. ~Fault(<<"dummyLink">>) /\ ~Fault(<<"bind">>)
  BY <1>1, Zenon DEF NoFault
<1>3. ASSUME NEW sp PROVE ~SyncNoDummyLink /\ ~FullSyncNotBound(sp) /\ ~AddCurrentNotBound(sp)
  BY <1>2, Zenon DEF SyncNoDummyLink, FullSyncNotBound, AddCurrentNotBound
<1>4. ASSUME NEW x, NEW f,
             \/ SyncReadKernel(f) \/ FullSyncPort(x, f) \/ CheckUnusedRule(f)
             \/ DeletePrevious(x, f) \/ AddCurrent(x, f) \/ SyncEndpointChange(x, f)
             \/ SyncFinish(f)
      PROVE  f = NoFault
  BY <1>1, <1>4, Zenon DEF SyncReadKernel, FullSyncPort, CheckUnusedRule, DeletePrevious,
                           AddCurrent, SyncEndpointChange, SyncFinish
<1>5. ASSUME Node PROVE Same \/ \E k \in ipvs.services : Traffic(k)
  BY <1>5, Zenon DEF Node, OtherOpen, OtherClose, ctlVars, kernelVars
<1>6. ASSUME NEW t, isInitialized(t) \/ SyncTooEarly(t) PROVE Same
  BY <1>6, Zenon DEF isInitialized, SyncTooEarly, kernelVars
<1>7. OnServiceSynced \/ OnEndpointsSynced => Same
  BY Zenon DEF OnServiceSynced, OnEndpointsSynced, kernelVars
<1>8. ASSUME Loop PROVE Same
  <2>1. PICK f \in MasqCalls : SyncLoopStart(f) \/ SyncTick(f)
    BY <1>8, Zenon DEF Loop
  <2> QED BY <2>1, Zenon DEF SyncLoopStart, SyncTick
<1> HIDE DEF Same
<1>9. \/ Informers \/ Crash \/ \E t \in Threads : SyncServiceMap(t)
      \/ SyncEndpointsMap \/ SyncReadKernel(NoFault) \/ SyncDecide
      \/ \E sp \in sync.todo : FullSyncPort(sp, NoFault)
      \/ CheckUnusedRule(NoFault) \/ SyncServices
      \/ \E n \in sync.items : DeletePrevious(n, NoFault)
      \/ \E sp \in sync.todo : AddCurrent(sp, NoFault)
      \/ ClearServiceItems \/ SyncEndpoints
      \/ \E sp \in sync.todo : SyncEndpointChange(sp, NoFault)
      \/ ClearEndpointsItems \/ SyncFinish(NoFault)
      \/ \E k \in ipvs.services : Traffic(k)
      \/ Same
  BY <1>3, <1>4, <1>5, <1>6, <1>7, <1>8, NextCases, Zenon
<1> QED BY <1>9, Zenon DEF Same

\* The port map of a Service object has entries that the object gives.
LEMMA ObjectEntries ==
  ASSUME NEW n \in SvcNames, NEW o \in ServiceObjs[n] \cup {Nil}
  PROVE  KnownPorts(n, serviceToServiceMap(o))
<1> SUFFICES ASSUME NEW p \in SvcPortsOf(serviceToServiceMap(o))
             PROVE  serviceToServiceMap(o)[p] \in EntriesOf(<<n, p>>)
  BY Zenon DEF KnownPorts
<1>1. serviceToServiceMap(o) # Nil /\ serviceToServiceMap(o)[p] # Nil
  BY Zenon DEF SvcPortsOf
<1>2. o # Nil
  BY <1>1, Zenon DEF serviceToServiceMap
<1>3. serviceToServiceMap(o) = ServiceEntries(o)
  BY <1>1, Zenon DEF ServiceEntries
<1>4. <<n, p>>[1] = n /\ <<n, p>>[2] = p
  OBVIOUS
<1> QED BY <1>1, <1>2, <1>3, <1>4, Zenon DEF EntriesOf

\* A Service callback puts such port maps into the change map.
LEMMA ServiceEventEntries ==
  ASSUME Inv, EntriesInv, NEW n \in SvcNames,
         NEW new \in ServiceObjs[n] \cup {Nil}, ServiceEvent(n, new)
  PROVE  EntriesInv'
<1> DEFINE prev == IF serviceChanges[n] = Nil THEN serviceToServiceMap(svcObj[n])
                                              ELSE serviceChanges[n].previous
           cur  == serviceToServiceMap(new)
<1>1. KnownPorts(n, prev) /\ KnownPorts(n, cur)
  BY ObjectEntries, Zenon DEF EntriesInv
<1>2. /\ serviceMap' = serviceMap
      /\ svcObj' = [svcObj EXCEPT ![n] = new]
      /\ serviceChanges' = ServiceChangesUpdate(serviceChanges, n, svcObj[n], new)
  BY Zenon DEF ServiceEvent, mapVars
<1>3. serviceChanges' = [serviceChanges EXCEPT ![n] = IF prev = cur THEN Nil
                                                     ELSE [previous |-> prev, current |-> cur]]
  BY <1>2, Zenon DEF ServiceChangesUpdate
<1> HIDE DEF prev, cur
<1>4. svcObj \in [SvcNames -> ApiService \cup {Nil}] /\ serviceChanges \in ServiceChangeMap
  BY Zenon DEF Inv, TypeOK
<1>5. ASSUME NEW m \in SvcNames, serviceChanges'[m] # Nil
      PROVE  /\ KnownPorts(m, serviceChanges'[m].previous)
             /\ KnownPorts(m, serviceChanges'[m].current)
  <2>1. CASE m = n
    <3>1. serviceChanges'[m] = [previous |-> prev, current |-> cur]
      BY <1>3, <1>4, <1>5, <2>1, Zenon DEF ServiceChangeMap
    <3>2. serviceChanges'[m].previous = prev /\ serviceChanges'[m].current = cur
      BY <3>1
    <3> QED BY <1>1, <2>1, <3>2, Zenon
  <2>2. CASE m # n
    <3>1. serviceChanges'[m] = serviceChanges[m]
      BY <1>3, <1>4, <2>2, Zenon DEF ServiceChangeMap
    <3> QED BY <1>5, <3>1, Zenon DEF EntriesInv
  <2> QED BY <2>1, <2>2, Zenon
<1>6. \A m \in SvcNames : svcObj'[m] \in ServiceObjs[m] \cup {Nil}
  BY <1>2, <1>4, Zenon DEF EntriesInv
<1> QED BY <1>2, <1>5, <1>6, Zenon DEF EntriesInv

\* No step makes up an entry.
LEMMA EntriesStep ==
  ASSUME Inv, EntriesInv, Next, faults' = 0, ~Crash
  PROVE  EntriesInv'
<1>1. ASSUME UNCHANGED <<svcObj, serviceChanges, serviceMap>> PROVE EntriesInv'
  BY <1>1, Zenon DEF EntriesInv
<1>2. CASE Informers
  <2>1. PICK n \in SvcNames :
          \/ \E new \in ServiceObjs[n] \cup {Nil} : ServiceEvent(n, new)
          \/ \E new : EndpointsEvent(n, new)
    BY <1>2, Zenon DEF Informers, OnServiceAdd, OnServiceUpdate, OnServiceDelete,
                       OnEndpointsAdd, OnEndpointsUpdate, OnEndpointsDelete
  <2>2. ASSUME NEW new, EndpointsEvent(n, new) PROVE EntriesInv'
    BY <1>1, <2>2, Zenon DEF EndpointsEvent, mapVars
  <2> QED BY <2>1, <2>2, ServiceEventEntries, Zenon
<1>3. ASSUME NEW t, SyncServiceMap(t) PROVE EntriesInv'
  <2>1. /\ UNCHANGED <<svcObj, serviceChanges>>
        /\ serviceMap' = UpdateServiceMap(serviceMap, serviceChanges)
    BY <1>3, Zenon DEF SyncServiceMap, objVars, changeVars
  <2>2. ASSUME NEW n \in SvcNames, NEW p \in SvcPortsOf(serviceMap'[n])
        PROVE  serviceMap'[n][p] \in EntriesOf(<<n, p>>)
    <3>1. p \in PortNames /\ serviceMap'[n][p] # Nil
      BY Zenon DEF SvcPortsOf
    <3>2. \/ serviceMap'[n][p] = serviceMap[n][p]
          \/ /\ serviceChanges[n] # Nil /\ p \in SvcPortsOf(serviceChanges[n].current)
             /\ serviceMap'[n][p] = serviceChanges[n].current[p]
      BY <2>1, <3>1, UpdateServiceMapEntry
    <3>3. CASE serviceMap'[n][p] = serviceMap[n][p]
      <4>1. p \in SvcPortsOf(serviceMap[n])
        BY <3>1, <3>3, NilAssumption, Zenon DEF SvcPortsOf, Inv, TypeOK
      <4> QED BY <3>3, <4>1, Zenon DEF EntriesInv, KnownPorts
    <3> QED BY <3>2, <3>3, Zenon DEF EntriesInv, KnownPorts
  <2>3. \A n \in SvcNames : KnownPorts(n, serviceMap'[n])
    BY <2>2, Zenon DEF KnownPorts
  <2> QED BY <2>1, <2>3, Zenon DEF EntriesInv
<1>4. ASSUME ClearServiceItems PROVE EntriesInv'
  <2>1. UNCHANGED <<svcObj, serviceMap>> /\ serviceChanges' = NewServiceChangeMap
    BY <1>4, Zenon DEF ClearServiceItems, objVars, mapVars
  <2>2. \A n \in SvcNames : serviceChanges'[n] = Nil
    BY <2>1, Zenon DEF NewServiceChangeMap
  <2> QED BY <2>1, <2>2, Zenon DEF EntriesInv
<1>5. ASSUME NEW x, NEW f,
             \/ SyncEndpointsMap \/ SyncReadKernel(f) \/ SyncDecide \/ FullSyncPort(x, f)
             \/ CheckUnusedRule(f) \/ SyncServices \/ DeletePrevious(x, f) \/ AddCurrent(x, f)
             \/ SyncEndpoints \/ SyncEndpointChange(x, f) \/ ClearEndpointsItems
             \/ SyncFinish(f) \/ Traffic(x)
             \/ UNCHANGED <<objVars, changeVars, mapVars, stage, sync, ipvs, conntrack>>
      PROVE  EntriesInv'
  <2>1. UNCHANGED <<svcObj, serviceChanges, serviceMap>>
    BY <1>5, Zenon
       DEF SyncEndpointsMap, SyncReadKernel, SyncDecide, FullSyncPort, CheckUnusedRule,
           SyncServices, DeletePrevious, AddCurrent, SyncEndpoints, SyncEndpointChange,
           ClearEndpointsItems, SyncFinish, Traffic, objVars, changeVars, mapVars
  <2> QED BY <1>1, <2>1, Zenon
<1> QED BY <1>2, <1>3, <1>4, <1>5, FlowSteps, Zenon

\* A callback that gives the object again leaves a pending change as it is.
LEMMA SameServiceChange ==
  ASSUME Inv, PendingChangesAreCurrent, ChangesAreReal,
         NEW n \in SvcNames, NEW new \in ApiService \cup {Nil},
         svcObj' = [svcObj EXCEPT ![n] = new],
         serviceChanges' = ServiceChangesUpdate(serviceChanges, n, svcObj[n], new),
         NEW m \in SvcNames, svcObj'[m] = svcObj[m]
  PROVE  serviceChanges'[m] = serviceChanges[m]
<1> DEFINE prev == IF serviceChanges[n] = Nil THEN serviceToServiceMap(svcObj[n])
                                              ELSE serviceChanges[n].previous
           cur == serviceToServiceMap(new)
<1>1. serviceChanges'[n] = IF prev = cur THEN Nil ELSE [previous |-> prev, current |-> cur]
  BY Zenon DEF ServiceChangesUpdate, Inv, TypeOK, ServiceChangeMap
<1>2. serviceChanges[n] # Nil =>
        /\ serviceChanges[n] = [previous |-> serviceChanges[n].previous,
                                current |-> serviceChanges[n].current]
        /\ serviceChanges[n].current = serviceToServiceMap(svcObj[n])
        /\ serviceChanges[n].previous # serviceChanges[n].current
  BY Zenon DEF PendingChangesAreCurrent, ChangesAreReal, Inv, TypeOK, ServiceChangeMap,
               ServiceChange
<1>3. svcObj'[n] = new
  BY Zenon DEF Inv, TypeOK
<1>4. CASE m = n
  BY <1>1, <1>2, <1>3, <1>4, Zenon
<1>5. CASE m # n
  BY <1>5, Zenon DEF ServiceChangesUpdate, Inv, TypeOK, ServiceChangeMap
<1> QED BY <1>4, <1>5, Zenon

\* The same for an Endpoints callback.
LEMMA SameEndpointsChange ==
  ASSUME Inv, PendingChangesAreCurrent, ChangesAreReal,
         NEW n \in SvcNames, NEW new \in ApiEndpoints \cup {Nil},
         epObj' = [epObj EXCEPT ![n] = new],
         endpointsChanges' = EndpointsChangesUpdate(endpointsChanges, n, epObj[n], new),
         NEW m \in SvcNames, epObj'[m] = epObj[m]
  PROVE  endpointsChanges'[m] = endpointsChanges[m]
<1> DEFINE prev == IF endpointsChanges[n] = Nil THEN endpointsToEndpointsMap(epObj[n])
                                                ELSE endpointsChanges[n].previous
           cur == endpointsToEndpointsMap(new)
<1>1. endpointsChanges'[n] = IF prev = cur THEN Nil ELSE [previous |-> prev, current |-> cur]
  BY Zenon DEF EndpointsChangesUpdate, Inv, TypeOK, EndpointsChangeMap
<1>2. endpointsChanges[n] # Nil =>
        /\ endpointsChanges[n] = [previous |-> endpointsChanges[n].previous,
                                  current |-> endpointsChanges[n].current]
        /\ endpointsChanges[n].current = endpointsToEndpointsMap(epObj[n])
        /\ endpointsChanges[n].previous # endpointsChanges[n].current
  BY Zenon DEF PendingChangesAreCurrent, ChangesAreReal, Inv, TypeOK, EndpointsChangeMap,
               EndpointsChange
<1>3. epObj'[n] = new
  BY Zenon DEF Inv, TypeOK
<1>4. CASE m = n
  BY <1>1, <1>2, <1>3, <1>4, Zenon
<1>5. CASE m # n
  BY <1>5, Zenon DEF EndpointsChangesUpdate, Inv, TypeOK, EndpointsChangeMap
<1> QED BY <1>4, <1>5, Zenon

\* A step that leaves the entry and the endpoints of the service port alone keeps
\* its cluster address safe, if it creates no rule and no server there that the
\* entry and the endpoints do not ask for, and leaves old ones only to be deleted.
LEMMA SafeKept ==
  ASSUME NEW sp, NEW a, Safe(sp, a),
         serviceMap' = serviceMap, endpointsMap' = endpointsMap,
         sync'.staleEndpoints = sync.staleEndpoints,
         sync'.staleServices = sync.staleServices, FlowsTo(a)' \subseteq FlowsTo(a),
         \A s \in RealServers(a)' :
           /\ ClusterRule(a) \in ipvs'.services
           /\ \/ s \in RealServers(a)
              \/ serviceMap[sp[1]][sp[2]] # Nil /\ s.dst.ip \in EndpointIPs(sp),
         serviceMap[sp[1]][sp[2]] = Nil /\ ClusterRule(a) \in ipvs'.services
           => ClusterRule(a) \in ipvs.services /\ DeletesRule(sp)',
         serviceMap[sp[1]][sp[2]] # Nil /\ OldServers(sp, a)' # {}
           => DeletesServers(sp, a)'
  PROVE  Safe(sp, a)'
<1>1. RealServers(a)' # {} => ClusterRule(a) \in ipvs'.services
  BY Zenon
<1>2. EndpointIPs(sp)' = EndpointIPs(sp) /\ KnownIPs(sp)' = KnownIPs(sp)
      /\ EndpointIPs(sp) \subseteq KnownIPs(sp)
  BY Zenon DEF EndpointIPs, KnownIPs
<1>3. CASE serviceMap[sp[1]][sp[2]] = Nil
  <2>1. AbsentSafe(sp, a)
    BY <1>3, Zenon DEF Safe
  <2>2. AbsentSafe(sp, a)'
    BY <1>3, <2>1, Zenon DEF AbsentSafe, ClusterRule, ClusterKey, Key
  <2> QED BY <1>1, <1>3, <2>2, Zenon DEF Safe, ClusterRule, ClusterKey, Key
<1>4. CASE serviceMap[sp[1]][sp[2]] # Nil
  <2>1. PresentSafe(sp, a)
    BY <1>4, Zenon DEF Safe
  <2>2. PresentSafe(sp, a)'
    BY <1>2, <1>4, <2>1, Zenon DEF PresentSafe
  <2> QED BY <1>1, <1>4, <2>2, Zenon DEF Safe, ClusterRule, ClusterKey, Key
<1> QED BY <1>3, <1>4, Zenon

\* A Service callback that is not late.
LEMMA ServiceEventSafe ==
  ASSUME Inv, PendingChangesAreCurrent, HistoryInv, Next, ServiceHistory,
         NEW n \in SvcNames, NEW new \in ApiService \cup {Nil}, ServiceEvent(n, new),
         NEW sp \in ServicePortNames, sp[1] \notin svcLate', NEW a, Safe(sp, a)
  PROVE  Safe(sp, a)'
<1>1. /\ svcObj' = [svcObj EXCEPT ![n] = new] /\ stage' = stage /\ sync' = sync
      /\ serviceChanges' = ServiceChangesUpdate(serviceChanges, n, svcObj[n], new)
      /\ serviceMap' = serviceMap /\ endpointsMap' = endpointsMap /\ ipvs' = ipvs
      /\ conntrack' = conntrack /\ endpointsChanges' = endpointsChanges
      /\ ~ServiceItemsLocked
  BY Zenon DEF ServiceEvent, mapVars, kernelVars
<1>2. sp[1] \in SvcNames
  BY Zenon DEF ServicePortNames
<1>3. svcObj'[sp[1]] = svcObj[sp[1]] \/ ~SvcWindow
  BY <1>2, ServiceHistoryCases, Zenon
<1>4. svcObj'[sp[1]] = svcObj[sp[1]] => serviceChanges'[sp[1]] = serviceChanges[sp[1]]
  BY <1>1, <1>2, SameServiceChange, Zenon DEF HistoryInv
<1>5. DeletesRule(sp) => DeletesRule(sp)'
  BY <1>1, <1>3, <1>4, Zenon DEF DeletesRule, SvcWindow, ServiceItemsLocked
<1>6. /\ RealServers(a)' = RealServers(a) /\ FlowsTo(a)' = FlowsTo(a)
      /\ OldServers(sp, a)' = OldServers(sp, a)
      /\ DeletesServers(sp, a)' = DeletesServers(sp, a)
  BY <1>1, Zenon DEF RealServers, FlowsTo, OldServers, DeletesServers, EndpointIPs, EpWindow,
                     EndpointsItemsLocked
<1> QED BY <1>1, <1>5, <1>6, SafeKept, Zenon DEF Safe, AbsentSafe, PresentSafe

\* The same for an Endpoints callback.
LEMMA EndpointsEventSafe ==
  ASSUME Inv, PendingChangesAreCurrent, HistoryInv, Next, EndpointsHistory,
         NEW n \in SvcNames, NEW new \in ApiEndpoints \cup {Nil}, EndpointsEvent(n, new),
         NEW sp \in ServicePortNames, sp[1] \notin epLate', NEW a, Safe(sp, a)
  PROVE  Safe(sp, a)'
<1>1. /\ epObj' = [epObj EXCEPT ![n] = new] /\ stage' = stage /\ sync' = sync
      /\ endpointsChanges' = EndpointsChangesUpdate(endpointsChanges, n, epObj[n], new)
      /\ serviceMap' = serviceMap /\ endpointsMap' = endpointsMap /\ ipvs' = ipvs
      /\ conntrack' = conntrack /\ serviceChanges' = serviceChanges
      /\ ~EndpointsItemsLocked
  BY Zenon DEF EndpointsEvent, mapVars, kernelVars
<1>2. sp[1] \in SvcNames
  BY Zenon DEF ServicePortNames
<1>3. epObj'[sp[1]] = epObj[sp[1]] \/ ~EpWindow
  BY <1>2, EndpointsHistoryCases, Zenon
<1>4. epObj'[sp[1]] = epObj[sp[1]] => endpointsChanges'[sp[1]] = endpointsChanges[sp[1]]
  BY <1>1, <1>2, SameEndpointsChange, Zenon DEF HistoryInv
<1>5. /\ RealServers(a)' = RealServers(a) /\ FlowsTo(a)' = FlowsTo(a)
      /\ OldServers(sp, a)' = OldServers(sp, a)
      /\ DeletesRule(sp)' = DeletesRule(sp)
  BY <1>1, Zenon DEF RealServers, FlowsTo, OldServers, DeletesRule, EndpointIPs,
                     ServiceItemsLocked
<1>6. DeletesServers(sp, a) => DeletesServers(sp, a)'
  BY <1>1, <1>3, <1>4, <1>5, Zenon DEF DeletesServers, EpWindow, EndpointsItemsLocked
<1> QED BY <1>1, <1>5, <1>6, SafeKept, Zenon DEF Safe, AbsentSafe, PresentSafe

\* Applying the Service changes: the flows of a port that goes away are stale.
LEMMA SyncServiceMapSafe ==
  ASSUME AddressesFixed, Inv, LocalsFresh, EntriesInv, NEW t, SyncServiceMap(t),
         NEW sp \in ServicePortNames, NEW a \in EntriesOf(sp), a.protocol = "udp",
         Safe(sp, a)
  PROVE  Safe(sp, a)'
<1> DEFINE info == serviceMap[sp[1]][sp[2]]
<1>1. /\ stage = "none" /\ stage' = "endpointsMap"
      /\ serviceMap' = UpdateServiceMap(serviceMap, serviceChanges)
      /\ sync'.staleServices = StaleServices(serviceMap, serviceChanges)
      /\ sync'.staleEndpoints = {} /\ sync.staleEndpoints = {} /\ sync.staleServices = {}
      /\ UNCHANGED <<serviceChanges, endpointsChanges, endpointsMap, ipvs, conntrack>>
  <2>1. /\ stage = "none" /\ stage' = "endpointsMap" /\ sync = NoLocals
        /\ serviceMap' = UpdateServiceMap(serviceMap, serviceChanges)
        /\ sync' = [sync EXCEPT !.staleServices = StaleServices(serviceMap, serviceChanges)]
        /\ UNCHANGED <<serviceChanges, endpointsChanges, endpointsMap, ipvs, conntrack>>
    BY Zenon DEF SyncServiceMap, LocalsFresh, changeVars, kernelVars
  <2>2. sync.staleEndpoints = {} /\ sync.staleServices = {}
    BY <2>1 DEF NoLocals
  <2>3. /\ sync'.staleServices = StaleServices(serviceMap, serviceChanges)
        /\ sync'.staleEndpoints = sync.staleEndpoints
    BY <2>1, Zenon DEF Inv, TypeOK, SyncLocals
  <2> QED BY <2>1, <2>2, <2>3, Zenon
<1>2. sp[1] \in SvcNames /\ sp[2] \in PortNames
  BY Zenon DEF ServicePortNames
<1>3. /\ RealServers(a)' = RealServers(a) /\ FlowsTo(a)' = FlowsTo(a)
      /\ EndpointIPs(sp)' = EndpointIPs(sp) /\ KnownIPs(sp)' = KnownIPs(sp)
      /\ OldServers(sp, a)' = OldServers(sp, a)
  BY <1>1, Zenon DEF RealServers, FlowsTo, EndpointIPs, KnownIPs, OldServers
<1>4. ~DeletesRule(sp) /\ ~DeletesServers(sp, a)
  BY <1>1, Zenon DEF DeletesRule, DeletesServers, EpWindow, EndpointsItemsLocked
<1>5. CASE info = Nil
  <2>1. FlowsTo(a) = {} /\ ClusterRule(a) \notin ipvs.services /\ RealServers(a) = {}
    BY <1>1, <1>4, <1>5, Zenon DEF Safe, AbsentSafe
  <2>2. OldServers(sp, a) = {}
    BY <2>1, Zenon DEF OldServers
  <2> QED BY <1>1, <1>3, <2>1, <2>2, Zenon DEF Safe, AbsentSafe, PresentSafe
<1>6. CASE info # Nil /\ serviceMap'[sp[1]][sp[2]] # Nil
  BY <1>1, <1>3, <1>4, <1>6, Zenon DEF Safe, PresentSafe
<1>7. CASE info # Nil /\ serviceMap'[sp[1]][sp[2]] = Nil
  <2>1. /\ serviceChanges[sp[1]] # Nil
        /\ sp[2] \in SvcPortsOf(serviceChanges[sp[1]].previous)
        /\ sp[2] \notin SvcPortsOf(serviceChanges[sp[1]].current)
    <3>1. \A p \in SvcPortsOf(serviceChanges[sp[1]].current) :
            serviceChanges[sp[1]].current[p] # Nil
      BY Zenon DEF SvcPortsOf
    <3> QED BY <1>1, <1>2, <1>7, <3>1, UpdateServiceMapEntry, SMTT(30)
  <2>2. info.ip = a.ip /\ info.protocol = "udp"
    BY <1>7, KnownEntries, SameAddress, Zenon
  <2>3. a.ip \in sync'.staleServices
    BY <1>1, <1>7, <2>1, <2>2, Zenon DEF StaleServices
  <2>4. DeletesRule(sp)'
    BY <1>1, <2>1, Zenon DEF DeletesRule, ServiceItemsLocked
  <2>5. RealServers(a) # {} => ClusterRule(a) \in ipvs.services
    BY Zenon DEF Safe
  <2> QED BY <1>1, <1>3, <1>7, <2>3, <2>4, <2>5, Zenon DEF Safe, AbsentSafe
<1> QED BY <1>5, <1>6, <1>7, Zenon

\* Applying the Endpoints changes: the endpoints that go away are stale.
LEMMA LeavingEndpoints ==
  ASSUME Inv, PendingChangesAreCurrent, EndpointsMapExact, SyncEndpointsMap,
         NEW sp \in ServicePortNames, sp[1] \notin epLate,
         NEW ip \in EndpointIPs(sp), ip \notin EndpointIPs(sp)'
  PROVE  /\ \E q \in sync'.staleEndpoints : q.ip = ip /\ q.svc = sp
         /\ endpointsChanges[sp[1]] # Nil
         /\ sp[2] \in EpPortsOf(endpointsChanges[sp[1]].previous)
<1> DEFINE n == sp[1]
           p == sp[2]
           prev == endpointsChanges[n].previous
           cur == endpointsChanges[n].current
<1>1. /\ endpointsMap' = UpdateEndpointsMap(endpointsMap, endpointsChanges)
      /\ sync'.staleEndpoints = StaleEndpoints(endpointsChanges)
  BY Zenon DEF SyncEndpointsMap, Inv, TypeOK, SyncLocals
<1>2. n \in SvcNames /\ p \in PortNames
  BY Zenon DEF ServicePortNames
<1>3. PICK e \in endpointsMap[n][p] : e.ip = ip
  BY Zenon DEF EndpointIPs
<1>4. e \notin endpointsMap'[n][p]
  BY <1>3, Zenon DEF EndpointIPs
<1>5. endpointsChanges[n] # Nil
  BY <1>1, <1>2, <1>3, <1>4, Zenon DEF UpdateEndpointsMap
<1>6. endpointsMap[n] = EpEntries(prev) \/ endpointsMap[n] = EpEntries(cur)
  BY <1>2, <1>5, Zenon DEF EndpointsMapExact, PendingChangesAreCurrent
<1>7. endpointsMap'[n] = EpEntries(cur)
  BY <1>1, <1>2, <1>5, <1>6, AppliedEndpointsEntries, ZenonT(30) DEF Inv, TypeOK
<1>8. endpointsMap[n] = EpEntries(prev)
  BY <1>3, <1>4, <1>6, <1>7, Zenon
<1>9. prev # Nil /\ e \in prev[p]
  BY <1>2, <1>3, <1>8, Zenon DEF EpEntries, NoEndpointsPorts
<1>10. e \notin EndpointsAt(cur, p) /\ e \in EndpointsAt(prev, p)
  BY <1>4, <1>7, <1>9, Zenon DEF EpEntries, EndpointsAt
<1>11. [ip |-> e.ip, svc |-> sp] \in sync'.staleEndpoints
  <2> DEFINE gone == {[ip |-> x.ip, svc |-> sp] :
                        x \in EndpointsAt(prev, p) \ EndpointsAt(cur, p)}
  <2>1. [ip |-> e.ip, svc |-> sp] \in gone
    BY <1>10, Zenon
  <2>2. gone \subseteq StaleEndpoints(endpointsChanges)
    BY <1>5, Zenon DEF StaleEndpoints
  <2> QED BY <1>1, <2>1, <2>2, Zenon
<1>12. p \in EpPortsOf(prev)
  BY <1>2, <1>9, Zenon DEF EpPortsOf
<1>13. [ip |-> e.ip, svc |-> sp].ip = ip /\ [ip |-> e.ip, svc |-> sp].svc = sp
  BY <1>3
<1> QED BY <1>5, <1>11, <1>12, <1>13, Zenon

\* So the servers and flows they leave behind are accounted for.
LEMMA SyncEndpointsMapSafe ==
  ASSUME Inv, PendingChangesAreCurrent, EndpointsMapExact, FlowReady, SyncEndpointsMap,
         NEW sp \in ServicePortNames, sp[1] \notin epLate, NEW a, Safe(sp, a)
  PROVE  Safe(sp, a)'
<1>1. /\ stage = "endpointsMap" /\ stage' = "kernel" /\ sync.staleEndpoints = {}
      /\ sync.staleServices \subseteq sync'.staleServices
      /\ UNCHANGED <<serviceChanges, endpointsChanges, serviceMap, ipvs, conntrack>>
  BY Zenon DEF SyncEndpointsMap, FlowReady, changeVars, kernelVars, Inv, TypeOK, SyncLocals
<1>2. RealServers(a)' = RealServers(a) /\ FlowsTo(a)' = FlowsTo(a)
  BY <1>1, Zenon DEF RealServers, FlowsTo
<1>3. CASE serviceMap[sp[1]][sp[2]] = Nil
  <2>1. DeletesRule(sp) => DeletesRule(sp)'
    BY <1>1, Zenon DEF DeletesRule, ServiceItemsLocked
  <2> QED BY <1>1, <1>2, <1>3, <2>1, Zenon DEF Safe, AbsentSafe
<1>4. CASE serviceMap[sp[1]][sp[2]] # Nil
  <2>1. KnownIPs(sp) = EndpointIPs(sp)
    BY <1>1, Zenon DEF KnownIPs
  <2>2. EndpointIPs(sp) \subseteq KnownIPs(sp)'
    <3> SUFFICES ASSUME NEW ip \in EndpointIPs(sp), ip \notin EndpointIPs(sp)'
                 PROVE  ip \in KnownIPs(sp)'
      BY Zenon DEF KnownIPs
    <3>1. PICK q \in sync'.staleEndpoints : q.ip = ip /\ q.svc = sp
      BY LeavingEndpoints, Zenon
    <3> QED BY <3>1, Zenon DEF KnownIPs
  <2>3. ASSUME OldServers(sp, a)' # {} PROVE DeletesServers(sp, a)'
    <3>1. PICK s \in RealServers(a) : s.dst.ip \notin EndpointIPs(sp)'
      BY <1>2, <2>3, Zenon DEF OldServers
    <3>2. s.dst.ip \in EndpointIPs(sp)
      BY <1>4, <2>1, <3>1, Zenon DEF Safe, PresentSafe
    <3>3. /\ endpointsChanges[sp[1]] # Nil
          /\ sp[2] \in EpPortsOf(endpointsChanges[sp[1]].previous)
      BY <3>1, <3>2, LeavingEndpoints, Zenon
    <3> QED BY <1>1, <3>3, Zenon DEF DeletesServers, EpWindow, EndpointsItemsLocked
  <2>4. PresentSafe(sp, a)'
    BY <1>2, <1>4, <2>1, <2>2, <2>3, Zenon DEF Safe, PresentSafe
  <2> QED BY <1>1, <1>2, <1>4, <2>4, Zenon DEF Safe
<1> QED BY <1>3, <1>4, Zenon

\* A step that changes neither the kernel nor the maps, and keeps what the sync
\* under way has yet to delete.
LEMMA ControlSafe ==
  ASSUME NEW sp, NEW a, Safe(sp, a),
         UNCHANGED <<serviceMap, endpointsMap, ipvs, conntrack>>,
         sync'.staleEndpoints = sync.staleEndpoints,
         sync'.staleServices = sync.staleServices,
         DeletesRule(sp) => DeletesRule(sp)',
         OldServers(sp, a) # {} /\ DeletesServers(sp, a) => DeletesServers(sp, a)'
  PROVE  Safe(sp, a)'
<1>1. /\ RealServers(a)' = RealServers(a) /\ FlowsTo(a)' = FlowsTo(a)
      /\ OldServers(sp, a)' = OldServers(sp, a)
  BY Zenon DEF RealServers, FlowsTo, OldServers, EndpointIPs
<1> QED BY <1>1, SafeKept, Zenon DEF Safe, AbsentSafe, PresentSafe

\* The kernel is read with every real server that is to be deleted.
LEMMA ReadKernelSafe ==
  ASSUME Inv, SyncReadKernel(NoFault), NEW sp \in ServicePortNames, NEW a, Safe(sp, a)
  PROVE  Safe(sp, a)'
<1>1. /\ stage = "kernel"
      /\ stage' = IF ServicesPending(serviceChanges) = {} THEN "decide" ELSE "services"
      /\ UNCHANGED <<serviceChanges, endpointsChanges, serviceMap, endpointsMap, ipvs, conntrack>>
      /\ sync' = [sync EXCEPT !.kernelIpvsMap = BuildIpvsMap(NoFault),
                              !.nodeIPs       = GetNodeIPs(NoFault)]
  BY Zenon DEF SyncReadKernel, changeVars, mapVars, kernelVars
<1>2. /\ sync'.staleEndpoints = sync.staleEndpoints /\ sync'.staleServices = sync.staleServices
      /\ sync'.kernelIpvsMap = BuildIpvsMap(NoFault)
  BY <1>1 DEF Inv, TypeOK, SyncLocals
<1>3. BuildIpvsMap(NoFault).servers = ListIpvsServer(ipvs, ListIpvsService(ipvs))
  <2>1. NoFault # <<"services">> /\ \A k : NoFault # <<"servers", k>>
    BY DEF NoFault
  <2>2. {k \in ListIpvsService(ipvs) : NoFault # <<"servers", k>>} = ListIpvsService(ipvs)
    BY <2>1, Zenon
  <2> QED BY <2>1, <2>2 DEF BuildIpvsMap
<1>4. DeletesRule(sp) => DeletesRule(sp)'
  BY <1>1, Zenon DEF DeletesRule, ServicesPending, ServiceItemsLocked, ServicePortNames
<1>5. ASSUME OldServers(sp, a) # {}, DeletesServers(sp, a) PROVE DeletesServers(sp, a)'
  <2>1. OldServers(sp, a)' = OldServers(sp, a)
    BY <1>1, Zenon DEF OldServers, RealServers, EndpointIPs
  <2>2. ClusterRule(a) \in ipvs.services
    BY <1>5, Zenon DEF Safe, OldServers
  <2>3. ASSUME NEW s \in OldServers(sp, a) PROVE CreateInterServer(s) \in sync'.kernelIpvsMap.servers
    <3>1. s \in ipvs.servers /\ s.svc \in ipvs.services
      BY <2>2, Zenon DEF OldServers, RealServers
    <3> QED BY <1>2, <1>3, <3>1, Zenon DEF ListIpvsServer, ListIpvsService
  <2> QED BY <1>1, <1>5, <2>1, <2>3, Zenon DEF DeletesServers, EpWindow, EndpointsItemsLocked
<1> QED BY <1>1, <1>2, <1>4, <1>5, ControlSafe, Zenon

\* The steps between the loops.
LEMMA StagesSafe ==
  ASSUME Inv, NEW sp \in ServicePortNames, NEW a, Safe(sp, a),
         \/ SyncDecide \/ SyncServices \/ ClearServiceItems \/ SyncEndpoints
         \/ ClearEndpointsItems
  PROVE  Safe(sp, a)'
<1> USE DEF changeVars, mapVars, kernelVars
<1>1. sp[1] \in SvcNames /\ sp[2] \in PortNames /\ sp = <<sp[1], sp[2]>>
  BY DEF ServicePortNames
<1> DEFINE Quiet == /\ UNCHANGED <<serviceMap, endpointsMap, ipvs, conntrack>>
                    /\ sync'.staleEndpoints = sync.staleEndpoints
                    /\ sync'.staleServices = sync.staleServices
                    /\ sync'.kernelIpvsMap = sync.kernelIpvsMap
<1>2. Quiet
  BY Zenon DEF SyncDecide, SyncServices, ClearServiceItems, SyncEndpoints,
               ClearEndpointsItems, Inv, TypeOK, SyncLocals
<1>3. OldServers(sp, a)' = OldServers(sp, a)
  BY <1>2, Zenon DEF OldServers, RealServers, EndpointIPs
<1>4. CASE SyncDecide
  <2>1. stage = "decide" /\ stage' \in {"full", "services"} /\ endpointsChanges' = endpointsChanges
    BY <1>4, Zenon DEF SyncDecide
  <2>2. ~DeletesRule(sp)
    BY <2>1, Zenon DEF DeletesRule
  <2>3. DeletesServers(sp, a) => DeletesServers(sp, a)'
    BY <1>2, <1>3, <2>1, Zenon DEF DeletesServers, EpWindow, EndpointsItemsLocked
  <2> QED BY <1>2, <2>2, <2>3, ControlSafe, Zenon
<1>5. CASE SyncServices
  <2>1. /\ stage = "services" /\ stage' \in {"endpoints", "serviceItems"}
        /\ endpointsChanges' = endpointsChanges /\ serviceChanges' = serviceChanges
        /\ serviceChanges[sp[1]] # Nil => stage' = "serviceItems" /\ sp[1] \in sync'.items
    <3>1. serviceChanges[sp[1]] # Nil => sp[1] \in ServicesPending(serviceChanges)
      BY <1>1, Zenon DEF ServicesPending
    <3>2. CASE ServicesPending(serviceChanges) = {}
      BY <1>5, <3>1, <3>2, Zenon DEF SyncServices
    <3>3. CASE ServicesPending(serviceChanges) # {}
      <4>1. sync'.items = ServicesPending(serviceChanges)
        BY <1>5, <3>3, Zenon DEF SyncServices, Inv, TypeOK, SyncLocals
      <4> QED BY <1>5, <3>1, <3>3, <4>1, Zenon DEF SyncServices
    <3> QED BY <3>2, <3>3, Zenon
  <2>2. DeletesRule(sp) => DeletesRule(sp)'
    BY <2>1, Zenon DEF DeletesRule, ServiceItemsLocked
  <2>3. DeletesServers(sp, a) => DeletesServers(sp, a)'
    BY <1>2, <1>3, <2>1, Zenon DEF DeletesServers, EpWindow, EndpointsItemsLocked
  <2> QED BY <1>2, <2>2, <2>3, ControlSafe, Zenon
<1>6. CASE ClearServiceItems
  <2>1. /\ stage = "serviceItems" /\ stage' = "endpoints" /\ sync.items = {}
        /\ endpointsChanges' = endpointsChanges
    BY <1>6, Zenon DEF ClearServiceItems
  <2>2. ~DeletesRule(sp)
    BY <2>1, Zenon DEF DeletesRule, ServiceItemsLocked
  <2>3. DeletesServers(sp, a) => DeletesServers(sp, a)'
    BY <1>2, <1>3, <2>1, Zenon DEF DeletesServers, EpWindow, EndpointsItemsLocked
  <2> QED BY <1>2, <2>2, <2>3, ControlSafe, Zenon
<1>7. CASE SyncEndpoints
  <2>1. /\ stage = "endpoints" /\ endpointsChanges' = endpointsChanges
        /\ endpointsChanges[sp[1]] # Nil =>
             stage' = "endpointsItems" /\ ChangedPorts(sp[1]) \subseteq sync'.todo
    <3>1. endpointsChanges[sp[1]] # Nil => sp[1] \in EndpointsPending(endpointsChanges)
      BY <1>1, Zenon DEF EndpointsPending
    <3>2. CASE EndpointsPending(endpointsChanges) = {}
      BY <1>7, <3>1, <3>2, Zenon DEF SyncEndpoints
    <3>3. CASE EndpointsPending(endpointsChanges) # {}
      <4>1. sync'.todo = UNION {ChangedPorts(n) : n \in EndpointsPending(endpointsChanges)}
        BY <1>7, <3>3, Zenon DEF SyncEndpoints, Inv, TypeOK, SyncLocals
      <4>2. endpointsChanges[sp[1]] # Nil => ChangedPorts(sp[1]) \subseteq sync'.todo
        BY <3>1, <4>1, Zenon
      <4> QED BY <1>7, <3>3, <4>2, Zenon DEF SyncEndpoints
    <3> QED BY <3>2, <3>3, Zenon
  <2>2. ~DeletesRule(sp)
    BY <2>1, Zenon DEF DeletesRule
  <2>3. sp[2] \in EpPortsOf(endpointsChanges[sp[1]].previous) => sp \in ChangedPorts(sp[1])
    BY <1>1 DEF ChangedPorts
  <2>4. DeletesServers(sp, a) => DeletesServers(sp, a)'
    BY <1>2, <1>3, <2>1, <2>3, Zenon DEF DeletesServers, EpWindow, EndpointsItemsLocked
  <2> QED BY <1>2, <2>2, <2>4, ControlSafe, Zenon
<1>8. CASE ClearEndpointsItems
  <2>1. stage = "endpointsItems" /\ sync.todo = {}
    BY <1>8, Zenon DEF ClearEndpointsItems
  <2>2. ~DeletesRule(sp) /\ ~DeletesServers(sp, a)
    BY <2>1, Zenon DEF DeletesRule, DeletesServers, EndpointsItemsLocked
  <2> QED BY <1>2, <2>2, ControlSafe, Zenon
<1> QED BY <1>4, <1>5, <1>6, <1>7, <1>8, Zenon

\* CheckUnusedRule and DeletePrevious only delete rules, with their servers; the
\* latter deletes those of a service port that went away.
LEMMA DeletionsSafe ==
  ASSUME AddressesFixed, Inv, EntriesInv, FlowReady,
         NEW sp \in ServicePortNames, NEW a \in EntriesOf(sp), Safe(sp, a),
         CheckUnusedRule(NoFault) \/ \E n \in sync.items : DeletePrevious(n, NoFault)
  PROVE  Safe(sp, a)'
<1> DEFINE unused == {k \in ListIpvsService(ipvs) \ sync.activeServiceMap :
                        NoFault # <<"service", k>>}
<1>1. a \in ServiceInfo /\ ClusterKey(a) \in ServiceKeys
  BY EntryType, Zenon
<1>2. sp[1] \in SvcNames /\ sp[2] \in PortNames
  BY Zenon DEF ServicePortNames
<1>3. ipvs \in IpvsTables
  BY Zenon DEF Inv, TypeOK
<1>4. ASSUME NEW keys \in SUBSET ServiceKeys, ipvs' = DeleteIpvsService(ipvs, keys)
      PROVE  /\ ClusterRule(a) \in ipvs'.services
                  <=> ClusterRule(a) \in ipvs.services /\ ClusterKey(a) \notin keys
             /\ \A s \in RealServers(a)' : s \in RealServers(a) /\ ClusterKey(a) \notin keys
  BY <1>1, <1>4, DeletedService, Zenon DEF RealServers, ClusterRule
<1>5. ASSUME NEW keys \in SUBSET ServiceKeys, ipvs' = DeleteIpvsService(ipvs, keys),
             UNCHANGED <<serviceMap, endpointsMap, endpointsChanges, conntrack>>,
             sync'.staleEndpoints = sync.staleEndpoints,
             sync'.staleServices = sync.staleServices,
             sync'.kernelIpvsMap = sync.kernelIpvsMap,
             EpWindow, EpWindow', stage # "kernel",
             ClusterKey(a) \notin keys /\ DeletesRule(sp) => DeletesRule(sp)'
      PROVE  Safe(sp, a)'
  <2>1. FlowsTo(a)' = FlowsTo(a) /\ EndpointIPs(sp)' = EndpointIPs(sp)
    BY <1>5, Zenon DEF FlowsTo, EndpointIPs
  <2>2. RealServers(a)' # {} => ClusterRule(a) \in ipvs'.services
    BY <1>4, <1>5, Zenon DEF Safe
  <2>3. OldServers(sp, a)' \subseteq OldServers(sp, a)
    BY <1>4, <1>5, <2>1, Zenon DEF OldServers
  <2>4. OldServers(sp, a)' # {} /\ DeletesServers(sp, a) => DeletesServers(sp, a)'
    BY <1>5, <2>3, Zenon DEF DeletesServers, EpWindow, EndpointsItemsLocked
  <2> QED BY <1>4, <1>5, <2>1, <2>2, <2>3, <2>4, SafeKept, Zenon
             DEF Safe, AbsentSafe, PresentSafe
<1>6. CASE CheckUnusedRule(NoFault)
  <2>1. /\ stage = "full" /\ stage' = "services" /\ sync' = sync
        /\ UNCHANGED <<serviceMap, endpointsMap, endpointsChanges, conntrack>>
        /\ ipvs' = DeleteIpvsService(ipvs, unused)
    <3>1. NoFault # <<"services">>
      BY DEF NoFault
    <3> QED BY <1>6, <3>1, Zenon DEF CheckUnusedRule, changeVars, mapVars
  <2>2. unused \in SUBSET ServiceKeys
    BY <1>3, ListIpvsServiceType, Zenon
  <2>3. ~DeletesRule(sp)
    BY <2>1, Zenon DEF DeletesRule
  <2>4. EpWindow /\ EpWindow' /\ stage # "kernel"
    BY <2>1, Zenon DEF EpWindow
  <2> HIDE DEF unused
  <2> QED BY <1>5, <2>1, <2>2, <2>3, <2>4, Zenon
<1>7. ASSUME NEW n \in sync.items, DeletePrevious(n, NoFault) PROVE Safe(sp, a)'
  <2> DEFINE gone == {k \in PreviousKeys(n) : NoFault # <<"service", k>>}
  <2>1. /\ stage = "serviceItems" /\ stage' = "serviceItems"
        /\ UNCHANGED <<serviceMap, endpointsMap, serviceChanges, endpointsChanges, conntrack>>
        /\ sync'.staleEndpoints = sync.staleEndpoints
        /\ sync'.staleServices = sync.staleServices
        /\ sync'.kernelIpvsMap = sync.kernelIpvsMap
        /\ sync'.items = sync.items \ {n}
        /\ ipvs' = DeleteIpvsService(ipvs, gone)
    BY <1>7, Zenon DEF DeletePrevious, mapVars, ctlVars, changeVars, Inv, TypeOK, SyncLocals
  <2>2. gone = PreviousKeys(n)
    BY Zenon DEF NoFault
  <2>3. n \in SvcNames /\ serviceChanges[n] # Nil
    BY <2>1, Zenon DEF Inv, LoopsVisitEntries, ServicesPending
  <2>4. gone \in SUBSET ServiceKeys
    <3>1. \A p \in SvcPortsOf(serviceChanges[n].previous) :
            AllKeys(serviceChanges[n].previous[p]) \in SUBSET ServiceKeys
      BY <2>3, ServiceChangeType, AllKeysType, Zenon DEF Inv
    <3> QED BY <2>2, <3>1, Zenon DEF PreviousKeys
  <2>5. ASSUME n = sp[1], DeletesRule(sp) PROVE ClusterKey(a) \in gone
    <3>1. /\ sp[2] \in SvcPortsOf(serviceChanges[n].previous)
          /\ serviceChanges[n].previous[sp[2]] \in EntriesOf(sp)
      BY <2>3, <2>5, KnownEntries, Zenon DEF DeletesRule
    <3>2. ClusterKey(a) \in AllKeys(serviceChanges[n].previous[sp[2]])
      BY <3>1, OwnAddress, SMTT(30)
    <3> QED BY <2>2, <3>1, <3>2, Zenon DEF PreviousKeys
  <2>6. ClusterKey(a) \notin gone /\ DeletesRule(sp) => DeletesRule(sp)'
    BY <2>1, <2>5, Zenon DEF DeletesRule, ServiceItemsLocked
  <2>7. EpWindow /\ EpWindow' /\ stage # "kernel"
    BY <2>1, Zenon DEF EpWindow
  <2> HIDE DEF gone
  <2> QED BY <1>5, <2>1, <2>4, <2>6, <2>7, Zenon
<1> QED BY <1>6, <1>7, Zenon

\* AddCurrent creates the rule of a service port only if it is in the service map.
LEMMA AddCurrentSafe ==
  ASSUME AddressesFixed, Inv, PendingChangesAreCurrent, ServiceMapExact, ServicesApplied,
         EntriesInv, FlowReady, NEW x \in sync.todo, AddCurrent(x, NoFault),
         NEW sp \in ServicePortNames, sp[1] \notin svcLate,
         NEW a \in EntriesOf(sp), Safe(sp, a)
  PROVE  Safe(sp, a)'
<1> DEFINE info == serviceChanges[x[1]].current[x[2]]
           keys == {k \in HeldKeys(x, info, NoFault) : NoFault # <<"service", k>>}
<1>1. /\ stage = "serviceItems" /\ stage' = "serviceItems"
      /\ UNCHANGED <<serviceMap, endpointsMap, serviceChanges, endpointsChanges>>
      /\ sync'.staleEndpoints = sync.staleEndpoints
      /\ sync'.staleServices = sync.staleServices
      /\ sync'.kernelIpvsMap = sync.kernelIpvsMap
      /\ sync'.items = sync.items
      /\ ipvs' = AddIpvsService(ipvs, keys, info.affinity)
  BY Zenon DEF AddCurrent, mapVars, ctlVars, changeVars, Inv, TypeOK, SyncLocals
<1>2. conntrack' \subseteq conntrack
  BY Zenon DEF AddCurrent, HoldPorts, ClearUdpConntrackForPort
<1>3. /\ x \in ServicePortNames /\ info \in ServiceInfo /\ info \in EntriesOf(x)
      /\ serviceChanges[x[1]] # Nil /\ x[2] \in SvcPortsOf(serviceChanges[x[1]].current)
  <2>1. x \in ServicePortNames /\ info \in ServiceInfo
    BY <1>1, ItemInfo, Zenon
  <2>2. serviceChanges[x[1]] # Nil /\ x[2] \in SvcPortsOf(serviceChanges[x[1]].current)
    BY <1>1, Zenon DEF Inv, LoopsVisitEntries
  <2> QED BY <2>1, <2>2, KnownEntries, Zenon
<1>4. keys \in SUBSET ServiceKeys /\ keys \subseteq AllKeys(info)
  <2>1. HeldKeys(x, info, NoFault) \in SUBSET ServiceKeys
    BY <1>3, HeldTypes, Zenon DEF Inv
  <2>2. HeldKeys(x, info, NoFault) \subseteq AllKeys(info)
    BY HeldKeysAmongAll, Zenon
  <2> QED BY <2>1, <2>2, Zenon
<1>5. ClusterKey(a) \in keys => x = sp
  <2> HIDE DEF info, keys
  <2> QED BY <1>3, <1>4, OwnAddress
<1>6. ASSUME x = sp PROVE serviceMap[sp[1]][sp[2]] # Nil
  <2>1. sp[1] \in SvcNames /\ sp[2] \in PortNames
    BY Zenon DEF ServicePortNames
  <2>2. sp[1] \in svcApplied
    BY <1>1, <1>3, <1>6, <2>1, Zenon DEF ServicesApplied, ServicesPending, ServiceItemsLocked
  <2>3. serviceMap[sp[1]] = SvcEntries(serviceChanges[sp[1]].current)
    BY <1>3, <1>6, <2>1, <2>2, Zenon DEF ServiceMapExact, PendingChangesAreCurrent
  <2> QED BY <1>3, <1>6, <2>3, Zenon DEF SvcEntries, SvcPortsOf
<1> HIDE DEF info, keys
<1>7. /\ ClusterRule(a) \in ipvs'.services
           <=> ClusterRule(a) \in ipvs.services \/ ClusterKey(a) \in keys
      /\ ipvs'.servers = ipvs.servers
  <2>1. ClusterKey(a) \in ServiceKeys /\ ipvs \in IpvsTables
    BY EntryType, Zenon DEF Inv, TypeOK
  <2> QED BY <1>1, <1>4, <2>1, CreatedService DEF ClusterRule
<1>8. /\ RealServers(a)' = RealServers(a) /\ FlowsTo(a)' \subseteq FlowsTo(a)
      /\ OldServers(sp, a)' = OldServers(sp, a)
  BY <1>1, <1>2, <1>7, Zenon DEF RealServers, FlowsTo, OldServers, EndpointIPs
<1>9. DeletesRule(sp) => DeletesRule(sp)'
  BY <1>1, Zenon DEF DeletesRule, ServiceItemsLocked
<1>10. DeletesServers(sp, a) => DeletesServers(sp, a)'
  BY <1>1, <1>8, Zenon DEF DeletesServers, EpWindow, EndpointsItemsLocked
<1> QED BY <1>1, <1>5, <1>6, <1>7, <1>8, <1>9, <1>10, SafeKept, Zenon
           DEF Safe, AbsentSafe, PresentSafe

\* A full sync of one service port adds rules and servers at its own cluster
\* address only.
LEMMA FullSyncPortSafe ==
  ASSUME AddressesFixed, Inv, EntriesInv, FlowReady,
         NEW x \in sync.todo, FullSyncPort(x, NoFault),
         NEW sp \in ServicePortNames, NEW a \in EntriesOf(sp), Safe(sp, a)
  PROVE  Safe(sp, a)'
<1> DEFINE info == serviceMap[x[1]][x[2]]
           keys == HeldKeys(x, info, NoFault)
           hasCluster == keys \cap sync.kernelIpvsMap.services
           created == {k \in keys \ hasCluster : NoFault # <<"service", k>>}
           reached == {k \in hasCluster \cup created : NoFault # <<"server", k>>}
           t == AddIpvsService(ipvs, created, info.affinity)
<1>1. /\ stage = "full" /\ stage' = "full"
      /\ UNCHANGED <<serviceMap, endpointsMap, serviceChanges, endpointsChanges>>
      /\ sync'.staleEndpoints = sync.staleEndpoints
      /\ sync'.staleServices = sync.staleServices
      /\ sync'.kernelIpvsMap = sync.kernelIpvsMap
  BY Zenon DEF FullSyncPort, mapVars, ctlVars, changeVars, Inv, TypeOK, SyncLocals
<1>2. ipvs' = CreateEndpointRule(t, reached, x) /\ conntrack' \subseteq conntrack
  BY Zenon DEF FullSyncPort, HoldPorts, ClearUdpConntrackForPort
<1>3. x \in ServicePortNames /\ info \in ServiceInfo /\ info \in EntriesOf(x) /\ info # Nil
  <2>1. x \in ServicePortNames /\ info \in ServiceInfo
    BY <1>1, FullSyncInfo, Zenon
  <2>2. info # Nil
    BY <2>1, NilAssumption, Zenon
  <2> QED BY <2>1, <2>2, KnownEntries, Zenon
<1>4. /\ created \in SUBSET ServiceKeys /\ reached \in SUBSET ServiceKeys
      /\ created \subseteq AllKeys(info) /\ reached \subseteq AllKeys(info)
  <2>1. keys \in SUBSET ServiceKeys
    BY <1>3, HeldTypes, Zenon DEF Inv
  <2>2. keys \subseteq AllKeys(info)
    BY HeldKeysAmongAll, Zenon
  <2> HIDE DEF keys
  <2> QED BY <2>1, <2>2, Zenon
<1> HIDE DEF info, keys, hasCluster, created, reached
<1>5. ClusterKey(a) \in created \cup reached => x = sp
  BY <1>3, <1>4, OwnAddress
<1>6. x = sp => serviceMap[sp[1]][sp[2]] # Nil
  BY <1>3, Zenon DEF info
<1>7. ClusterKey(a) \in ServiceKeys /\ ipvs \in IpvsTables /\ t \in IpvsTables
  BY <1>4, EntryType, AddIpvsServiceType, Zenon DEF Inv, TypeOK
<1>8. /\ ClusterRule(a) \in t.services
           <=> ClusterRule(a) \in ipvs.services \/ ClusterKey(a) \in created
      /\ t.servers = ipvs.servers
  BY <1>4, <1>7, CreatedService, Zenon DEF ClusterRule
<1> HIDE DEF t
<1>9. ipvs'.services = t.services
  BY <1>2, <1>7, EndpointRuleServices, Zenon
<1>10. ASSUME NEW s \in RealServers(a)'
       PROVE  /\ ClusterRule(a) \in ipvs'.services
              /\ \/ s \in RealServers(a)
                 \/ serviceMap[sp[1]][sp[2]] # Nil /\ s.dst.ip \in EndpointIPs(sp)
  <2>1. s \in CreateEndpointRule(t, reached, x).servers /\ s.svc = ClusterRule(a)
    BY <1>2, Zenon DEF RealServers, ClusterRule, ClusterKey, Key
  <2>2. \/ s \in t.servers
        \/ ClusterKey(a) \in reached /\ s.svc \in t.services /\ s.dst.ip \in EndpointIPs(x)
    BY <1>4, <1>7, <2>1, AddedServers, Zenon DEF ClusterRule
  <2>3. CASE s \in t.servers
    <3>1. s \in RealServers(a)
      BY <1>8, <2>1, <2>3, Zenon DEF RealServers
    <3>2. ClusterRule(a) \in ipvs.services
      BY <3>1, Zenon DEF Safe
    <3> QED BY <1>8, <1>9, <3>1, <3>2, Zenon
  <2>4. CASE ClusterKey(a) \in reached /\ s.svc \in t.services /\ s.dst.ip \in EndpointIPs(x)
    BY <1>5, <1>6, <1>9, <2>1, <2>4, Zenon
  <2> QED BY <2>2, <2>3, <2>4, Zenon
<1>11. EndpointIPs(sp)' = EndpointIPs(sp) /\ FlowsTo(a)' \subseteq FlowsTo(a)
  BY <1>1, <1>2, Zenon DEF EndpointIPs, FlowsTo
<1>12. OldServers(sp, a)' \subseteq OldServers(sp, a)
  BY <1>10, <1>11, Zenon DEF OldServers
<1>13. DeletesServers(sp, a) => DeletesServers(sp, a)'
  BY <1>1, <1>12, Zenon DEF DeletesServers, EpWindow, EndpointsItemsLocked
<1>14. ~DeletesRule(sp)
  BY <1>1, Zenon DEF DeletesRule
<1>15. ASSUME serviceMap[sp[1]][sp[2]] = Nil PROVE ClusterRule(a) \notin ipvs'.services
  BY <1>5, <1>6, <1>8, <1>9, <1>14, <1>15, Zenon DEF Safe, AbsentSafe
<1> QED BY <1>1, <1>10, <1>11, <1>12, <1>13, <1>15, SafeKept, Zenon DEF Safe, PresentSafe

\* A sync of Endpoints changes deletes the old servers of a service port when it
\* visits it.
LEMMA EndpointChangeSafe ==
  ASSUME AddressesFixed, Inv, EntriesInv, FlowReady,
         NEW x \in sync.todo, SyncEndpointChange(x, NoFault),
         NEW sp \in ServicePortNames, NEW a \in EntriesOf(sp), Safe(sp, a)
  PROVE  Safe(sp, a)'
<1> DEFINE info == serviceMap[x[1]][x[2]]
           keys == {k \in AllKeys(info) : NoFault # <<"server", k>>}
<1>1. /\ stage = "endpointsItems" /\ stage' = "endpointsItems"
      /\ UNCHANGED <<serviceMap, endpointsMap, serviceChanges, endpointsChanges, conntrack>>
      /\ sync'.staleEndpoints = sync.staleEndpoints
      /\ sync'.staleServices = sync.staleServices
      /\ sync'.kernelIpvsMap = sync.kernelIpvsMap
      /\ sync'.todo = sync.todo \ {x}
      /\ ipvs' = IF info = Nil THEN ipvs ELSE CreateEndpointRule(ipvs, keys, x)
  BY Zenon DEF SyncEndpointChange, mapVars, ctlVars, changeVars, Inv, TypeOK, SyncLocals
<1>2. x \in ServicePortNames /\ sync.todo \subseteq ServicePortNames
  BY Zenon DEF Inv, TypeOK, SyncLocals
<1>3. keys = AllKeys(info)
  BY Zenon DEF NoFault
<1>4. ipvs \in IpvsTables /\ ClusterKey(a) \in ServiceKeys
  BY EntryType, Zenon DEF Inv, TypeOK
<1>5. EndpointIPs(sp)' = EndpointIPs(sp) /\ FlowsTo(a)' = FlowsTo(a)
  BY <1>1, Zenon DEF EndpointIPs, FlowsTo
<1>6. ~DeletesRule(sp)
  BY <1>1, Zenon DEF DeletesRule
<1>7. CASE info = Nil
  <2>1. x = sp => serviceMap[sp[1]][sp[2]] = Nil
    BY <1>7, Zenon
  <2>2. ipvs' = ipvs
    BY <1>1, <1>7, Zenon
  <2>3. RealServers(a)' = RealServers(a) /\ OldServers(sp, a)' = OldServers(sp, a)
    BY <1>1, <2>2, Zenon DEF RealServers, OldServers, EndpointIPs
  <2>4. DeletesServers(sp, a) /\ x # sp => DeletesServers(sp, a)'
    BY <1>1, <2>3, Zenon DEF DeletesServers, EpWindow, EndpointsItemsLocked
  <2> QED BY <1>1, <1>5, <1>6, <2>1, <2>2, <2>3, <2>4, SafeKept, Zenon
             DEF Safe, AbsentSafe, PresentSafe
<1>8. CASE info # Nil
  <2>1. info \in EntriesOf(x) /\ info \in ServiceInfo
    BY <1>2, <1>8, KnownEntries, EntryType, Zenon
  <2>2. keys \in SUBSET ServiceKeys
    BY <1>3, <2>1, AllKeysType, Zenon DEF Inv
  <2>3. ClusterKey(a) \in keys <=> sp = x
    BY <1>2, <1>3, <2>1, OwnAddress
  <2>4. ipvs' = CreateEndpointRule(ipvs, keys, x)
    BY <1>1, <1>8, Zenon
  <2>5. x = sp => serviceMap[sp[1]][sp[2]] # Nil
    BY <1>8, Zenon
  <2> HIDE DEF info, keys
  <2>6. ipvs'.services = ipvs.services
    BY <1>4, <2>4, EndpointRuleServices
  <2>7. ASSUME NEW s \in RealServers(a)'
        PROVE  /\ s \in CreateEndpointRule(ipvs, keys, x).servers /\ s.svc = ClusterRule(a)
               /\ ClusterRule(a) \in ipvs'.services
               /\ \/ s \in RealServers(a)
                  \/ x = sp /\ s.dst.ip \in EndpointIPs(sp)
    <3>1. s \in CreateEndpointRule(ipvs, keys, x).servers /\ s.svc = ClusterRule(a)
      BY <2>4, Zenon DEF RealServers, ClusterRule, ClusterKey, Key
    <3>2. \/ s \in ipvs.servers
          \/ ClusterKey(a) \in keys /\ s.svc \in ipvs.services /\ s.dst.ip \in EndpointIPs(x)
      BY <1>4, <2>2, <3>1, AddedServers, Zenon DEF ClusterRule
    <3>3. s \in ipvs.servers => s \in RealServers(a) /\ ClusterRule(a) \in ipvs.services
      BY <3>1, Zenon DEF RealServers, Safe
    <3> QED BY <2>3, <2>6, <3>1, <3>2, <3>3, Zenon
  <2>8. OldServers(sp, a)' \subseteq OldServers(sp, a)
    BY <1>5, <2>7, Zenon DEF OldServers
  <2>9. ASSUME x = sp, serviceMap[sp[1]][sp[2]] # Nil, NEW s \in OldServers(sp, a)' PROVE FALSE
    <3>1. s \in OldServers(sp, a) /\ s \in RealServers(a)'
      BY <2>8, <2>9, Zenon DEF OldServers
    <3>2. CreateInterServer(s) \in sync.kernelIpvsMap.servers
      BY <1>1, <2>9, <3>1, Zenon DEF Safe, PresentSafe, DeletesServers
    <3>3. s \in ipvs.servers
      BY <3>1, Zenon DEF OldServers, RealServers
    <3>4. s.dst.ip \in EndpointIPs(sp)
      BY <1>4, <2>3, <2>7, <2>9, <3>1, <3>2, <3>3, RemovedServers, Zenon DEF ClusterRule
    <3> QED BY <3>1, <3>4, Zenon DEF OldServers
  <2>10. DeletesServers(sp, a) /\ x # sp => DeletesServers(sp, a)'
    BY <1>1, <2>8, Zenon DEF DeletesServers, EpWindow, EndpointsItemsLocked
  <2> QED BY <1>1, <1>5, <1>6, <2>5, <2>6, <2>7, <2>8, <2>9, <2>10, SafeKept, Zenon
             DEF Safe, AbsentSafe, PresentSafe
<1> QED BY <1>7, <1>8, Zenon

\* The end of a sync flushes the flows to what the sync took away.
LEMMA SyncFinishSafe ==
  ASSUME AddressesFixed, Inv, EntriesInv, SyncFinish(NoFault),
         NEW sp \in ServicePortNames, NEW a \in EntriesOf(sp), a.protocol = "udp",
         Safe(sp, a)
  PROVE  Safe(sp, a)'
<1> DEFINE cleared == ClearUDPConntrackForIP(conntrack, sync.staleServices)
<1>1. /\ stage = "finish" /\ UNCHANGED <<serviceMap, endpointsMap, ipvs>>
      /\ conntrack' = deleteEndpointConnections(cleared, sync.staleEndpoints)
  BY Zenon DEF SyncFinish, mapVars
<1>2. ~DeletesRule(sp) /\ ~DeletesServers(sp, a)
  BY <1>1, Zenon DEF DeletesRule, DeletesServers, EpWindow, EndpointsItemsLocked
<1>3. /\ RealServers(a)' = RealServers(a) /\ EndpointIPs(sp)' = EndpointIPs(sp)
      /\ OldServers(sp, a)' = OldServers(sp, a)
      /\ EndpointIPs(sp)' \subseteq KnownIPs(sp)'
  BY <1>1, Zenon DEF RealServers, EndpointIPs, OldServers, KnownIPs
<1>4. FlowsTo(a)' \subseteq {f \in FlowsTo(a) : f.ip \notin sync.staleServices}
  BY <1>1, Zenon DEF FlowsTo, deleteEndpointConnections, ClearUDPConntrackForPeers,
                     ClearUDPConntrackForIP
<1>5. CASE serviceMap[sp[1]][sp[2]] = Nil
  <2>1. ClusterRule(a) \notin ipvs.services
    BY <1>2, <1>5, Zenon DEF Safe, AbsentSafe
  <2>2. FlowsTo(a)' = {}
    BY <1>4, <1>5, Zenon DEF Safe, AbsentSafe, FlowsTo
  <2> QED BY <1>1, <1>3, <1>5, <2>1, <2>2, Zenon DEF Safe, AbsentSafe
<1>6. CASE serviceMap[sp[1]][sp[2]] # Nil
  <2>1. OldServers(sp, a) = {}
    BY <1>2, <1>6, Zenon DEF Safe, PresentSafe
  <2>2. IsUdp(sp) /\ serviceMap[sp[1]][sp[2]].ip = a.ip
    <3>1. serviceMap[sp[1]][sp[2]] \in EntriesOf(sp)
      BY <1>6, KnownEntries, Zenon
    <3>2. serviceMap[sp[1]][sp[2]].protocol = "udp" /\ serviceMap[sp[1]][sp[2]].ip = a.ip
      BY <3>1, SameAddress
    <3> QED BY <1>6, <3>2, Zenon DEF IsUdp
  <2>3. ASSUME NEW f \in FlowsTo(a)' PROVE f.natIP \in EndpointIPs(sp)
    <3>1. f \in FlowsTo(a) /\ f.natIP \in KnownIPs(sp) /\ f.ip = a.ip
      BY <1>4, <1>6, Zenon DEF Safe, PresentSafe, FlowsTo
    <3>2. ASSUME NEW q \in sync.staleEndpoints, q.svc = sp, q.ip = f.natIP PROVE FALSE
      <4> DEFINE pairs == {<<serviceMap[r.svc[1]][r.svc[2]].ip, r.ip>> :
                             r \in {r \in sync.staleEndpoints : IsUdp(r.svc)}}
      <4>1. q \in {r \in sync.staleEndpoints : IsUdp(r.svc)}
        BY <2>2, <3>2, Zenon
      <4>2. <<serviceMap[q.svc[1]][q.svc[2]].ip, q.ip>> \in pairs
        BY <4>1, Zenon
      <4>3. <<f.ip, f.natIP>> \in pairs
        BY <2>2, <3>1, <3>2, <4>2, Zenon
      <4>4. <<f.ip, f.natIP>> \notin pairs
        BY <1>1, Zenon DEF FlowsTo, deleteEndpointConnections, ClearUDPConntrackForPeers
      <4> QED BY <4>3, <4>4, Zenon
    <3> QED BY <3>1, <3>2, Zenon DEF KnownIPs
  <2>4. ASSUME NEW s \in RealServers(a)' PROVE s.dst.ip \in EndpointIPs(sp)
    BY <1>3, <2>1, Zenon DEF OldServers
  <2>5. PresentSafe(sp, a)'
    BY <1>3, <2>1, <2>3, <2>4, Zenon DEF PresentSafe
  <2>6. RealServers(a)' # {} => ClusterRule(a) \in ipvs'.services
    BY <1>1, <1>3, Zenon DEF Safe
  <2> QED BY <1>1, <1>6, <2>5, <2>6, Zenon DEF Safe, ClusterRule, ClusterKey, Key
<1> QED BY <1>5, <1>6, Zenon

\* A new flow to a cluster address goes to a real server of its rule.
LEMMA TrafficSafe ==
  ASSUME Inv, NEW k \in ipvs.services, Traffic(k),
         NEW sp \in ServicePortNames, NEW a \in EntriesOf(sp), a.protocol = "udp",
         Safe(sp, a)
  PROVE  Safe(sp, a)'
<1> DEFINE dsts == {s.dst.ip : s \in {s \in ipvs.servers : s.svc = k}}
<1>1. /\ k.protocol = IPPROTO_UDP
      /\ UNCHANGED <<serviceChanges, endpointsChanges, serviceMap, endpointsMap, stage, sync, ipvs>>
      /\ \E ip \in IF dsts = {} THEN {Nil} ELSE dsts :
           conntrack' = conntrack \cup {[ip |-> k.ip, port |-> k.port, natIP |-> ip]}
  BY Zenon DEF Traffic, changeVars, mapVars, ctlVars
<1>2. /\ RealServers(a)' = RealServers(a) /\ KnownIPs(sp)' = KnownIPs(sp)
      /\ OldServers(sp, a)' = OldServers(sp, a) /\ DeletesRule(sp)' = DeletesRule(sp)
      /\ DeletesServers(sp, a)' = DeletesServers(sp, a)
  BY <1>1, Zenon DEF RealServers, KnownIPs, EndpointIPs, OldServers, DeletesRule, DeletesServers,
                     ServiceItemsLocked, EndpointsItemsLocked, EpWindow
<1>3. PICK ip \in IF dsts = {} THEN {Nil} ELSE dsts :
        conntrack' = conntrack \cup {[ip |-> k.ip, port |-> k.port, natIP |-> ip]}
  BY <1>1, Zenon
<1>4. ASSUME NEW f \in FlowsTo(a)'
      PROVE  \/ f \in FlowsTo(a)
             \/ /\ k = ClusterRule(a)
                /\ \E s \in RealServers(a) : s.dst.ip = f.natIP
  <2>1. f \in conntrack' /\ f.ip = a.ip /\ f.port = a.port /\ f.natIP # Nil
    BY Zenon DEF FlowsTo
  <2>2. CASE f \in conntrack
    BY <2>1, <2>2, Zenon DEF FlowsTo
  <2>3. CASE f = [ip |-> k.ip, port |-> k.port, natIP |-> ip]
    <3>1. f.ip = k.ip /\ f.port = k.port /\ f.natIP = ip
      BY <2>3
    <3>2. k = ClusterRule(a)
      <4>1. k \in LibKeys
        BY Zenon DEF Inv, TypeOK, IpvsTables
      <4>2. ClusterRule(a) = [ip |-> a.ip, port |-> a.port, protocol |-> IPPROTO_UDP]
        BY DEF ClusterRule, ClusterKey, Key, CreateLibIpvsService, ToProtocolNumber
      <4> QED BY <1>1, <2>1, <3>1, <4>1, <4>2, Zenon DEF LibKeys
    <3>3. ip \in dsts
      BY <2>1, <3>1, Zenon
    <3>4. PICK s \in ipvs.servers : s.svc = k /\ s.dst.ip = ip
      BY <3>3, Zenon
    <3> QED BY <3>1, <3>2, <3>4, Zenon DEF RealServers
  <2> QED BY <1>3, <2>1, <2>2, <2>3, Zenon
<1>5. CASE serviceMap[sp[1]][sp[2]] = Nil
  <2>1. AbsentSafe(sp, a)'
    BY <1>1, <1>2, <1>4, <1>5, Zenon DEF Safe, AbsentSafe, ClusterRule, ClusterKey, Key
  <2> QED BY <1>1, <1>2, <1>5, <2>1, Zenon DEF Safe, ClusterRule, ClusterKey, Key
<1>6. CASE serviceMap[sp[1]][sp[2]] # Nil
  <2>1. PresentSafe(sp, a)'
    BY <1>2, <1>4, <1>6, Zenon DEF Safe, PresentSafe
  <2> QED BY <1>1, <1>2, <1>6, <2>1, Zenon DEF Safe, ClusterRule, ClusterKey, Key
<1> QED BY <1>5, <1>6, Zenon

\* A step of something else.
LEMMA SameSafe ==
  ASSUME NEW sp, NEW a, Safe(sp, a),
         UNCHANGED <<serviceChanges, endpointsChanges, serviceMap, endpointsMap, stage, sync,
                     ipvs, conntrack>>
  PROVE  Safe(sp, a)'
<1>1. OldServers(sp, a)' = OldServers(sp, a)
  BY Zenon DEF OldServers, RealServers, EndpointIPs
<1>2. DeletesRule(sp)' = DeletesRule(sp) /\ DeletesServers(sp, a)' = DeletesServers(sp, a)
  BY <1>1, Zenon DEF DeletesRule, DeletesServers, ServiceItemsLocked, EndpointsItemsLocked,
                     EpWindow
<1> QED BY <1>2, ControlSafe, Zenon

\* A sync without a failing call reads the node's own addresses, and leaves no
\* stale endpoints to the next one.
LEMMA FlowReadyStep ==
  ASSUME Inv, LocalsFresh, FlowReady, Next, faults' = 0, ~Crash
  PROVE  FlowReady'
<1> USE DEF Inv, TypeOK, SyncLocals
<1>1. ASSUME sync'.nodeIPs = sync.nodeIPs,
             stage' \in {"none", "endpointsMap"} =>
               stage \in {"none", "endpointsMap"} /\ sync'.staleEndpoints = sync.staleEndpoints
      PROVE  FlowReady'
  BY <1>1, Zenon DEF FlowReady
<1>2. ASSUME NEW t, SyncServiceMap(t) PROVE FlowReady'
  <2>1. stage = "none" /\ sync'.nodeIPs = sync.nodeIPs
        /\ sync'.staleEndpoints = sync.staleEndpoints
    BY <1>2, Zenon DEF SyncServiceMap, LocalsFresh
  <2> QED BY <1>1, <2>1, Zenon
<1>3. ASSUME SyncReadKernel(NoFault) PROVE FlowReady'
  <2>1. sync'.nodeIPs = NodeIPs /\ stage' \in {"decide", "services"}
    BY <1>3, Zenon DEF SyncReadKernel, GetNodeIPs, NoFault
  <2> QED BY <2>1, Zenon DEF FlowReady
<1>4. ASSUME SyncFinish(NoFault) PROVE FlowReady'
  <2>1. sync'.nodeIPs = {} /\ sync'.staleEndpoints = {}
    BY <1>4, Zenon DEF SyncFinish, NoLocals
  <2> QED BY <2>1, Zenon DEF FlowReady
<1>5. ASSUME NEW x, NEW f,
             \/ SyncEndpointsMap \/ SyncDecide \/ FullSyncPort(x, f) \/ CheckUnusedRule(f)
             \/ SyncServices \/ DeletePrevious(x, f) \/ AddCurrent(x, f) \/ ClearServiceItems
             \/ SyncEndpoints \/ SyncEndpointChange(x, f) \/ ClearEndpointsItems
      PROVE  FlowReady'
  <2>1. sync'.nodeIPs = sync.nodeIPs /\ stage' \notin {"none", "endpointsMap"}
    BY <1>5, Zenon
       DEF SyncEndpointsMap, SyncDecide, FullSyncPort, CheckUnusedRule, SyncServices,
           DeletePrevious, AddCurrent, ClearServiceItems, SyncEndpoints, SyncEndpointChange,
           ClearEndpointsItems, ctlVars
  <2> QED BY <1>1, <2>1, Zenon
<1>6. ASSUME NEW x,
             \/ Informers \/ Traffic(x)
             \/ UNCHANGED <<objVars, changeVars, mapVars, stage, sync, ipvs, conntrack>>
      PROVE  FlowReady'
  <2>1. UNCHANGED <<stage, sync>>
    BY <1>6, Zenon DEF Informers, OnServiceAdd, OnServiceUpdate, OnServiceDelete,
       OnEndpointsAdd, OnEndpointsUpdate, OnEndpointsDelete, ServiceEvent, EndpointsEvent,
       Traffic, ctlVars
  <2> QED BY <1>1, <2>1, Zenon
<1> QED BY <1>2, <1>3, <1>4, <1>5, <1>6, FlowSteps, Zenon

\* Every step keeps the cluster addresses of the names without a late event safe.
LEMMA FlowStep ==
  ASSUME AddressesFixed, Inv, LocalsFresh, PendingChangesAreCurrent, HistoryInv, FlowInv, HNext
  PROVE  FlowInv'
<1> SUFFICES ASSUME faults' = 0, crashes' = 0 PROVE EntriesInv' /\ FlowReady' /\ FlowSafe'
  BY Zenon DEF FlowInv
<1>1. Next
  BY Zenon DEF HNext
<1>2. ~Crash /\ crashes' = crashes
  <2>1. ~Crash
    BY SMTT(30) DEF Crash, Inv, TypeOK
  <2> QED BY <1>1, <2>1, HistorySteps, Zenon
<1>3. ServiceHistory /\ EndpointsHistory
  BY <1>2, Zenon DEF HNext
<1>4. faults = 0 /\ crashes = 0
  BY <1>1, <1>2, FaultsGrow, Zenon
<1>5. EntriesInv /\ FlowReady /\ FlowSafe
  BY <1>4, Zenon DEF FlowInv
<1>6. EntriesInv' /\ FlowReady'
  BY <1>1, <1>2, <1>5, EntriesStep, FlowReadyStep, Zenon
<1>7. ASSUME NEW sp \in ServicePortNames, sp[1] \notin svcLate' \cup epLate',
             NEW a \in EntriesOf(sp), a.protocol = "udp"
      PROVE  Safe(sp, a)'
  <2>1. sp[1] \notin svcLate \cup epLate /\ sp[1] \in SvcNames
    BY <1>3, <1>7, Zenon DEF ServiceHistory, EndpointsHistory, ServicePortNames
  <2>2. Safe(sp, a)
    BY <1>5, <1>7, <2>1, Zenon DEF FlowSafe
  <2>3. CASE Informers
    <3>1. PICK n \in SvcNames :
            \/ \E new \in ApiService \cup {Nil} : ServiceEvent(n, new)
            \/ \E new \in ApiEndpoints \cup {Nil} : EndpointsEvent(n, new)
      BY <2>3, ServiceObjsAssumption, EndpointsObjsAssumption, Zenon
         DEF Informers, OnServiceAdd, OnServiceUpdate, OnServiceDelete,
             OnEndpointsAdd, OnEndpointsUpdate, OnEndpointsDelete
    <3> QED BY <1>1, <1>3, <1>7, <2>2, <3>1, ServiceEventSafe, EndpointsEventSafe, Zenon
  <2>4. ASSUME NEW t, SyncServiceMap(t) PROVE Safe(sp, a)'
    BY <1>5, <1>7, <2>2, <2>4, SyncServiceMapSafe, Zenon
  <2>5. CASE SyncEndpointsMap
    BY <1>5, <1>7, <2>1, <2>2, <2>5, SyncEndpointsMapSafe, Zenon DEF HistoryInv
  <2>6. CASE SyncReadKernel(NoFault)
    BY <1>7, <2>2, <2>6, ReadKernelSafe, Zenon
  <2>7. CASE \/ SyncDecide \/ SyncServices \/ ClearServiceItems \/ SyncEndpoints
             \/ ClearEndpointsItems
    BY <1>7, <2>2, <2>7, StagesSafe, Zenon
  <2>8. ASSUME NEW x \in sync.todo, FullSyncPort(x, NoFault) PROVE Safe(sp, a)'
    BY <1>5, <1>7, <2>2, <2>8, FullSyncPortSafe, Zenon
  <2>9. CASE CheckUnusedRule(NoFault) \/ \E n \in sync.items : DeletePrevious(n, NoFault)
    BY <1>5, <1>7, <2>2, <2>9, DeletionsSafe, Zenon
  <2>10. ASSUME NEW x \in sync.todo, AddCurrent(x, NoFault) PROVE Safe(sp, a)'
    BY <1>5, <1>7, <2>1, <2>2, <2>10, AddCurrentSafe, Zenon DEF HistoryInv
  <2>11. ASSUME NEW x \in sync.todo, SyncEndpointChange(x, NoFault) PROVE Safe(sp, a)'
    BY <1>5, <1>7, <2>2, <2>11, EndpointChangeSafe, Zenon
  <2>12. CASE SyncFinish(NoFault)
    BY <1>5, <1>7, <2>2, <2>12, SyncFinishSafe, Zenon
  <2>13. ASSUME NEW k \in ipvs.services, Traffic(k) PROVE Safe(sp, a)'
    BY <1>7, <2>2, <2>13, TrafficSafe, Zenon
  <2>14. CASE UNCHANGED <<objVars, changeVars, mapVars, stage, sync, ipvs, conntrack>>
    <3>1. UNCHANGED <<serviceChanges, endpointsChanges, serviceMap, endpointsMap, stage, sync,
                      ipvs, conntrack>>
      BY <2>14, Zenon DEF changeVars, mapVars
    <3> QED BY <2>2, <3>1, SameSafe, Zenon
  <2> QED BY <1>1, <1>2, <2>3, <2>4, <2>5, <2>6, <2>7, <2>8, <2>9, <2>10, <2>11, <2>12,
             <2>13, <2>14, FlowSteps, Zenon
<1>8. FlowSafe'
  BY <1>7, Zenon DEF FlowSafe
<1> QED BY <1>6, <1>8, Zenon

\* Between syncs nothing is left to delete or to flush.
LEMMA SafeBetweenSyncs ==
  ASSUME Inv, LocalsFresh, FlowInv
  PROVE  NoStaleClusterFlows
<1> SUFFICES ASSUME mu = Nil, faults = 0, crashes = 0, NEW f \in conntrack,
                    NEW sp \in ServicePorts(serviceMap), sp[1] \notin svcLate \cup epLate,
                    f.ip = InfoOf(sp).ip, f.port = InfoOf(sp).port, IsUdp(sp), f.natIP # Nil
             PROVE  \E e \in endpointsMap[sp[1]][sp[2]] : e.ip = f.natIP
  BY Zenon DEF NoStaleClusterFlows
<1>1. sp \in ServicePortNames /\ serviceMap[sp[1]][sp[2]] # Nil
  BY Zenon DEF ServicePorts
<1>2. InfoOf(sp) \in EntriesOf(sp) /\ InfoOf(sp).protocol = "udp"
  BY <1>1, KnownEntries, Zenon DEF InfoOf, IsUdp, FlowInv
<1>3. PresentSafe(sp, InfoOf(sp))
  BY <1>1, <1>2, Zenon DEF FlowInv, FlowSafe, Safe
<1>4. f.natIP \in KnownIPs(sp)
  BY <1>3, Zenon DEF PresentSafe, FlowsTo
<1>5. sync.staleEndpoints = {}
  BY DEF LocalsFresh, NoLocals
<1> QED BY <1>4, <1>5, Zenon DEF KnownIPs, EndpointIPs

\* No UDP flow to a cluster IP leads to an endpoint that has left the service port,
\* between syncs: whatever the order of callbacks, syncs and packets, the servers
\* go before the flows do, so no packet brings a flow back.  No call fails, no event
\* of the name is late, and cluster addresses are not handed on.
THEOREM ClusterFlowsAreCurrent ==
  ASSUME AddressesFixed
  PROVE  HSpec => []NoStaleClusterFlows
<1>1. HInit => FlowInv
  <2> SUFFICES ASSUME HInit PROVE EntriesInv /\ FlowReady /\ FlowSafe
    BY Zenon DEF FlowInv
  <2>1. /\ \A n \in SvcNames : /\ svcObj[n] = Nil /\ serviceChanges[n] = Nil
                               /\ serviceMap[n] = NoServicePorts
        /\ stage = "none" /\ sync = NoLocals /\ ipvs = NoIpvs /\ conntrack = {}
    BY Zenon DEF HInit, Init, NewServiceChangeMap, NewServiceMap
  <2>2. \A n \in SvcNames : KnownPorts(n, serviceMap[n])
    BY <2>1, Zenon DEF KnownPorts, SvcPortsOf, NoServicePorts
  <2>3. EntriesInv
    BY <2>1, <2>2, Zenon DEF EntriesInv
  <2>4. sync.nodeIPs = {} /\ sync.staleEndpoints = {} /\ ipvs.services = {} /\ ipvs.servers = {}
    BY <2>1, Zenon DEF NoLocals, NoIpvs
  <2>5. ASSUME NEW sp \in ServicePortNames, NEW a PROVE Safe(sp, a)
    <3>1. serviceMap[sp[1]][sp[2]] = Nil
      <4>1. sp[1] \in SvcNames /\ sp[2] \in PortNames
        BY Zenon DEF ServicePortNames
      <4>2. serviceMap[sp[1]] = NoServicePorts
        BY <2>1, <4>1, Zenon
      <4> QED BY <4>1, <4>2, Zenon DEF NoServicePorts
    <3>2. RealServers(a) = {} /\ FlowsTo(a) = {}
      BY <2>1, <2>4, Zenon DEF RealServers, FlowsTo
    <3> QED BY <2>4, <3>1, <3>2, Zenon DEF Safe, AbsentSafe
  <2> QED BY <2>3, <2>4, <2>5, Zenon DEF FlowReady, FlowSafe
<1>2. Inv /\ LocalsFresh /\ PendingChangesAreCurrent /\ HistoryInv /\ FlowInv
        /\ [HNext]_hvars => FlowInv'
  <2>1. ASSUME FlowInv, UNCHANGED hvars PROVE FlowInv'
    <3>1. UNCHANGED <<svcObj, serviceChanges, endpointsChanges, serviceMap, endpointsMap, stage,
                      sync, ipvs, conntrack, faults, crashes, svcLate, epLate>>
      BY <2>1, Zenon DEF hvars, histVars, vars, objVars, changeVars, mapVars, ctlVars,
                         kernelVars, boundVars
    <3>2. EntriesInv => EntriesInv'
      BY <3>1, Zenon DEF EntriesInv
    <3>3. \A sp, a : Safe(sp, a) => Safe(sp, a)'
      BY <3>1, SameSafe, Zenon
    <3> QED BY <2>1, <3>1, <3>2, <3>3, Zenon DEF FlowInv, FlowReady, FlowSafe
  <2> QED BY <2>1, FlowStep, Zenon
<1>3. HInit => Init
  BY Zenon DEF HInit
<1>4. [HNext]_hvars => [Next]_vars
  BY Zenon DEF HNext, hvars
<1>5. Inv /\ LocalsFresh /\ FlowInv => NoStaleClusterFlows
  BY SafeBetweenSyncs, Zenon
<1> QED
  BY <1>1, <1>2, <1>3, <1>4, <1>5, HistoryAlways, InvAlways, PendingChangesCorrect, PTL
     DEF HSpec, Spec

=============================================================================
