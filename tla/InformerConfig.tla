--------------------------- MODULE InformerConfig ---------------------------
(***************************************************************************)
(* How Services and Endpoints reach the proxier: ServiceConfig and         *)
(* EndpointsConfig of pkg/proxy/config on top of a shared informer each.   *)
(*                                                                         *)
(* A reflector lists the objects, watches them and lists again when the    *)
(* watch breaks; it writes deltas to a queue.  One goroutine pops the      *)
(* queue, updates the cache and puts notifications into the buffer of the  *)
(* config's listener; another one calls the handlers.  Run of the config   *)
(* is a third one: it waits for the cache and then calls OnServiceSynced   *)
(* or OnEndpointsSynced.                                                   *)
(***************************************************************************)
EXTENDS Naturals, FiniteSets, Sequences, Functions

CONSTANTS
  Kinds, Names, Nil,
  Objs,         \* the objects the API server may have, by kind
  MaxChanges,
  MaxRepeats    \* broken watches and resyncs

\* There are finitely many names.
ASSUME NamesAssumption == \A S \in SUBSET Names : Cardinality(S) \in Nat

ASSUME ObjectsAssumption == \A k \in Kinds : Nil \notin Objs[k]

VARIABLES
  api,         \* the objects of the API server
  watching,    \* the watch of the reflector is open
  deltas,      \* items of the DeltaFIFO, by name
  queue,       \* the names with an item, in order
  populated, initialCount,
  indexer,     \* the cache of the informer
  pending,     \* the notifications in the buffer of the listener
  handlers,    \* a handler is registered with the config
  run,         \* Run of the config: "none", "waiting" or "synced"
  given,       \* the objects as the handler was last given them
  initial,     \* history: names of the first list the handler was not given yet
  raced,       \* history: a list was read while names were in the queue
  changes, repeats

fifo == <<deltas, queue, populated, initialCount>>

ivars == <<api, watching, fifo, indexer, pending, handlers, run, given,
           initial, raced, changes, repeats>>

NoObjects == [n \in Names |-> Nil]

ConfigInit ==
  /\ api \in [Kinds -> [Names -> UNION {Objs[k] : k \in Kinds} \cup {Nil}]]
  /\ \A k \in Kinds, n \in Names : api[k][n] \in Objs[k] \cup {Nil}
  /\ watching = [k \in Kinds |-> FALSE]
  /\ deltas = [k \in Kinds |-> [n \in Names |-> <<>>]]
  /\ queue = [k \in Kinds |-> <<>>]
  /\ populated = [k \in Kinds |-> FALSE] /\ initialCount = [k \in Kinds |-> 0]
  /\ indexer = [k \in Kinds |-> NoObjects] /\ pending = [k \in Kinds |-> <<>>]
  /\ handlers = [k \in Kinds |-> FALSE] /\ run = [k \in Kinds |-> "none"]
  /\ given = [k \in Kinds |-> NoObjects]
  /\ initial = [k \in Kinds |-> {}] /\ raced = [k \in Kinds |-> FALSE]
  /\ changes = 0 /\ repeats = 0

-----------------------------------------------------------------------------
(* The reflector and the DeltaFIFO.                                         *)

Set(o) == [type |-> "Set", obj |-> o, tombstone |-> FALSE]

Sync(o) == [type |-> "Sync", obj |-> o, tombstone |-> FALSE]

Deleted(o) == [type |-> "Deleted", obj |-> o, tombstone |-> FALSE]

Tombstone(o) == [type |-> "Deleted", obj |-> o, tombstone |-> TRUE]

Newest(s) == s[Len(s)]

IsDeleted(s) == s # <<>> /\ Newest(s).type = "Deleted"

\* A Sync does not bring back an object that is about to be deleted, and of two
\* deletions in a row the one with more information stays.
queueAction(s, d) ==
  CASE d.type = "Sync" /\ IsDeleted(s)    -> s
    [] d.type = "Deleted" /\ IsDeleted(s) -> IF Newest(s).tombstone THEN [s EXCEPT ![Len(s)] = d] ELSE s
    [] OTHER                              -> Append(s, d)

\* Every name with a new item goes to the end of the queue, in any order.
Enqueue(k, items) ==
  LET fresh == {n \in Names : deltas[k][n] = <<>> /\ items[n] # <<>>}
  IN  /\ deltas' = [deltas EXCEPT ![k] = items]
      /\ \E order \in Bijection(1..Cardinality(fresh), fresh) :
           queue' = [queue EXCEPT ![k] = @ \o order]

\* An object is created, changed or deleted, and a watch that is open sees it.
Change(k, n, o) ==
  LET old  == api[k][n]
      d    == IF o = Nil THEN Deleted(old) ELSE Set(o)
      skip == o = Nil /\ indexer[k][n] = Nil /\ deltas[k][n] = <<>>
  IN  /\ o # old /\ changes < MaxChanges
      /\ changes' = changes + 1 /\ api' = [api EXCEPT ![k][n] = o]
      /\ IF watching[k] /\ ~skip
         THEN Enqueue(k, [deltas[k] EXCEPT ![n] = queueAction(@, d)])
         ELSE UNCHANGED <<deltas, queue>>
      /\ UNCHANGED <<watching, populated, initialCount, indexer, pending, handlers, run,
                     given, initial, raced, repeats>>

WatchBreaks(k) ==
  /\ watching[k] /\ repeats < MaxRepeats
  /\ watching' = [watching EXCEPT ![k] = FALSE] /\ repeats' = repeats + 1
  /\ UNCHANGED <<api, fifo, indexer, pending, handlers, run, given, initial, raced,
                 changes>>

\* Replace: what is listed is synced, what is in the cache and not listed is
\* deleted with the object as the cache has it.
Replace(k) ==
  LET item(n) ==
        IF api[k][n] # Nil THEN queueAction(deltas[k][n], Sync(api[k][n]))
        ELSE IF indexer[k][n] # Nil
        THEN queueAction(deltas[k][n], Tombstone(indexer[k][n]))
        ELSE deltas[k][n]
      listed == {n \in Names : api[k][n] # Nil}
  IN  /\ ~watching[k] /\ watching' = [watching EXCEPT ![k] = TRUE]
      /\ Enqueue(k, [n \in Names |-> item(n)])
      /\ populated' = [populated EXCEPT ![k] = TRUE]
      /\ initialCount' = [initialCount EXCEPT ![k] = IF populated[k] THEN @ ELSE Cardinality(listed)]
      /\ initial' = [initial EXCEPT ![k] = IF populated[k] THEN @ ELSE listed]
      /\ raced' = [raced EXCEPT ![k] = @ \/ queue[k] # <<>>]
      /\ UNCHANGED <<api, indexer, pending, handlers, run, given, changes, repeats>>

\* The periodic resync, for the names without an item.
Resync(k) ==
  /\ watching[k] /\ repeats < MaxRepeats /\ repeats' = repeats + 1
  /\ Enqueue(k, [n \in Names |-> IF indexer[k][n] # Nil /\ deltas[k][n] = <<>>
                                 THEN <<Sync(indexer[k][n])>> ELSE deltas[k][n]])
  /\ UNCHANGED <<api, watching, populated, initialCount, indexer, pending, handlers, run,
                 given, initial, raced, changes>>

\* The list is in the queue, not yet in the cache.
SyncedWhenPopulated(k) == populated[k]

HasSynced(k) == populated[k] /\ initialCount[k] = 0

-----------------------------------------------------------------------------
(* The informer and the config.                                             *)

\* The object before the i-th delta and after it.
After(d) == IF d.type = "Deleted" THEN Nil ELSE d.obj

Before(k, n, i) == IF i = 1 THEN indexer[k][n] ELSE After(deltas[k][n][i - 1])

\* A notification has the cached object, and a deletion the object of its delta.
Notification(k, n, i) ==
  LET d == deltas[k][n][i]
  IN  [name |-> n, new |-> After(d), tombstone |-> d.tombstone,
       old |-> IF d.type = "Deleted" THEN d.obj ELSE Before(k, n, i)]

\* A delta of a resync goes to the listeners that resync only, as the one listener does.
HandleDeltas(k) ==
  /\ queue[k] # <<>>
  /\ LET n == Head(queue[k])
         d == deltas[k][n]
     IN  /\ indexer' = [indexer EXCEPT ![k][n] = After(Newest(d))]
         /\ pending' = [pending EXCEPT ![k] = @ \o [i \in 1..Len(d) |-> Notification(k, n, i)]]
         /\ deltas' = [deltas EXCEPT ![k][n] = <<>>]
         /\ queue' = [queue EXCEPT ![k] = Tail(@)]
         /\ initialCount' = [initialCount EXCEPT ![k] = IF @ > 0 THEN @ - 1 ELSE 0]
  /\ UNCHANGED <<api, watching, populated, handlers, run, given, initial, raced,
                 changes, repeats>>

\* A deletion that comes as a tombstone is dropped.
DropsTombstones(k) ==
  /\ pending[k] # <<>> /\ pending' = [pending EXCEPT ![k] = Tail(@)]
  /\ LET e == Head(pending[k])
     IN  IF handlers[k] /\ ~e.tombstone
         THEN /\ given' = [given EXCEPT ![k][e.name] = e.new]
              /\ initial' = [initial EXCEPT ![k] = @ \ {e.name}]
         ELSE UNCHANGED <<given, initial>>
  /\ UNCHANGED <<api, watching, fifo, indexer, handlers, run, raced, changes, repeats>>

\* handleAddService, handleUpdateService, handleDeleteService (and those of
\* Endpoints): the registered handlers are called; a tombstone is opened.
Deliver(k) ==
  /\ pending[k] # <<>> /\ pending' = [pending EXCEPT ![k] = Tail(@)]
  /\ LET e == Head(pending[k])
     IN  IF handlers[k]
         THEN /\ given' = [given EXCEPT ![k][e.name] = e.new]
              /\ initial' = [initial EXCEPT ![k] = @ \ {e.name}]
         ELSE UNCHANGED <<given, initial>>
  /\ UNCHANGED <<api, watching, fifo, indexer, handlers, run, raced, changes, repeats>>

\* NewServiceConfig, RegisterEventHandler and the start of Run.
StartConfig(k) ==
  /\ handlers' = [handlers EXCEPT ![k] = TRUE] /\ run' = [run EXCEPT ![k] = "waiting"]
  /\ UNCHANGED <<api, watching, fifo, indexer, pending, given, initial, raced,
                 changes, repeats>>

\* Run: OnServiceSynced or OnEndpointsSynced is called once the cache has synced.
RunConfig(k) ==
  /\ run[k] = "waiting" /\ HasSynced(k) /\ run' = [run EXCEPT ![k] = "synced"]
  /\ UNCHANGED <<api, watching, fifo, indexer, pending, handlers, given, initial, raced,
                 changes, repeats>>

-----------------------------------------------------------------------------

\* The callbacks are a chain, on which the change maps of the proxier rely: an Add
\* comes for an object the handler does not have, an Update with the object it was
\* given last, a Delete for an object it has, and with that object, unless a list
\* was read while names were in the queue.
ChainedEvents ==
  \A k \in Kinds : pending[k] # <<>> =>
    LET e    == Head(pending[k])
        last == given[k][e.name]
    IN  IF e.new = Nil THEN last # Nil /\ (raced[k] \/ e.old = last) ELSE e.old = last

\* OnServiceSynced is called when "the state is fully propagated to local cache":
\* what the handler was not given yet of the first list is on its way.
SyncedImpliesCached ==
  \A k \in Kinds : run[k] = "synced" =>
    \A n \in initial[k] : \E i \in DOMAIN pending[k] : pending[k][i].name = n

\* "OnServiceSynced is called once all the initial even handlers were called".
SyncedAfterInitialEvents == \A k \in Kinds : run[k] = "synced" => initial[k] = {}

=============================================================================
