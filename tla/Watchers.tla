------------------------------ MODULE Watchers ------------------------------
(***************************************************************************)
(* pkg/watchers: the informer calls the watcher in order, the watcher      *)
(* notifies its broadcaster, and the broadcaster starts one goroutine per  *)
(* listener and event.  One object; its handlers are the same for services *)
(* and endpoints.                                                          *)
(***************************************************************************)
EXTENDS Naturals, FiniteSets

CONSTANTS Listeners, Contents, NoObject, Unseen, MaxEvents

VARIABLES
  object,      \* the object the informer has told of last
  listeners,   \* Broadcaster.listeners
  notifying,   \* the listeners Notify has still to start a goroutine for
  latest,      \* the event Notify is about: its number and object
  flight,      \* goroutines that have not called OnUpdate: <<listener, event>>
  view,        \* the object of the last event each listener was given
  newest,      \* the highest number among the events each listener was given
  overtaken,   \* history: listeners given an event after a later one
  tombstone    \* history: a delete was dropped after the last event

wvars == <<object, listeners, notifying, latest, flight, view, newest, overtaken, tombstone>>

WatchInit ==
  /\ object = NoObject /\ listeners = {} /\ notifying = {}
  /\ latest = [n |-> 0, obj |-> NoObject] /\ flight = {}
  /\ view = [l \in Listeners |-> Unseen] /\ newest = [l \in Listeners |-> 0]
  /\ overtaken = {} /\ tombstone = FALSE

\* Listeners that are added later do not see the event.
Notify(o) ==
  /\ latest.n < MaxEvents
  /\ latest' = [n |-> latest.n + 1, obj |-> o] /\ notifying' = listeners
  /\ object' = o /\ tombstone' = FALSE
  /\ UNCHANGED <<listeners, flight, view, newest, overtaken>>

servicesAdd == notifying = {} /\ object = NoObject /\ \E o \in Contents : Notify(o)

\* An update that changes nothing is not passed on.
servicesUpdate ==
  /\ notifying = {} /\ object # NoObject
  /\ \E o \in Contents \ {object} : Notify(o)

servicesDelete == notifying = {} /\ object # NoObject /\ Notify(NoObject)

\* A delete that the watch missed comes as a tombstone, which is not an *api.Service.
servicesDeleteTombstone ==
  /\ notifying = {} /\ object # NoObject
  /\ object' = NoObject /\ tombstone' = TRUE
  /\ UNCHANGED <<listeners, notifying, latest, flight, view, newest, overtaken>>

RegisterHandler(l) ==
  /\ l \notin listeners /\ listeners' = listeners \cup {l}
  /\ UNCHANGED <<object, notifying, latest, flight, view, newest, overtaken, tombstone>>

\* The last listener is left out.
SkipsLastListener(l) ==
  /\ l \in notifying /\ notifying' = {}
  /\ flight' = IF Cardinality(notifying) = 1 THEN flight ELSE flight \cup {<<l, latest>>}
  /\ UNCHANGED <<object, listeners, latest, view, newest, overtaken, tombstone>>

goOnUpdate(l) ==
  /\ l \in notifying /\ notifying' = notifying \ {l}
  /\ flight' = flight \cup {<<l, latest>>}
  /\ UNCHANGED <<object, listeners, latest, view, newest, overtaken, tombstone>>

\* The goroutines run in any order.
OnUpdate(g) ==
  LET l == g[1]  e == g[2] IN
  /\ g \in flight /\ flight' = flight \ {g}
  /\ view' = [view EXCEPT ![l] = e.obj]
  /\ overtaken' = IF e.n < newest[l] THEN overtaken \cup {l} ELSE overtaken \ {l}
  /\ newest' = [newest EXCEPT ![l] = IF e.n > @ THEN e.n ELSE @]
  /\ UNCHANGED <<object, listeners, notifying, latest, tombstone>>

WatchNext ==
  \/ servicesAdd \/ servicesUpdate \/ servicesDelete \/ servicesDeleteTombstone
  \/ \E l \in Listeners : RegisterHandler(l) \/ goOnUpdate(l)
  \/ \E g \in flight : OnUpdate(g)

WatchSpec == WatchInit /\ [][WatchNext]_wvars

-----------------------------------------------------------------------------

\* A listener that has been given all it was sent knows the object as it is, except
\* for the two things the watcher does not guard against: the goroutine of an earlier
\* event ran last, or the delete was a tombstone.
QuietListenersCurrent ==
  \A l \in Listeners :
    l \notin notifying /\ (~\E g \in flight : g[1] = l) /\ view[l] # Unseen
    => l \in overtaken \/ tombstone \/ view[l] = object

=============================================================================
