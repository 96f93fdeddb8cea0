------------------------------- MODULE Server -------------------------------
(***************************************************************************)
(* The life of the process (app/server.go): Run creates the configs,       *)
(* starts the informers and the periodic loop of the proxier, waits for a  *)
(* signal and shuts down.                                                  *)
(***************************************************************************)
EXTENDS InformerConfig

CONSTANT MaxSignals

ASSUME KindsAssumption == Kinds = {"service", "endpoints"}

VARIABLES
  main,      \* where Run is
  started,   \* informerFactory.Start has run
  loop,      \* the SyncLoop goroutine
  wg,        \* the WaitGroup that Run would wait for
  process,   \* "up", "killed" by a signal nobody asked for, or "panicked"
  signals

svars == <<main, started, loop, wg, process, signals>>

vars == <<ivars, svars>>

Init ==
  /\ ConfigInit
  /\ main = "serviceConfig" /\ started = FALSE /\ loop = "none"
  /\ wg = 0 /\ process = "up" /\ signals = 0

Config(pc, k, next) ==
  /\ main = pc /\ main' = next /\ StartConfig(k)
  /\ UNCHANGED <<started, loop, wg, process, signals>>

RunServiceConfig == Config("serviceConfig", "service", "endpointsConfig")

RunEndpointsConfig == Config("endpointsConfig", "endpoints", "start")

\* go informerFactory.Start, birthCry, go SyncLoop.
RunSyncLoop ==
  /\ main = "start" /\ main' = "notify" /\ wg' = wg + 1 /\ loop' = "masq"
  /\ UNCHANGED <<ivars, started, process, signals>>

\* The informers are started before the handlers are registered.
factoryStartsFirst ==
  /\ ~started /\ started' = TRUE
  /\ UNCHANGED <<ivars, main, loop, wg, process, signals>>

factoryStart ==
  /\ main \notin {"serviceConfig", "endpointsConfig", "start"}
  /\ ~started /\ started' = TRUE
  /\ UNCHANGED <<ivars, main, loop, wg, process, signals>>

\* signal.Notify with a channel that has no room: signals that come before Run reads
\* it are dropped.
RunNotify ==
  /\ main = "notify" /\ main' = "signal" /\ signals' \in signals..MaxSignals
  /\ UNCHANGED <<ivars, started, loop, wg, process>>

\* A signal ends a process that does not ask for it; it is dropped once Run has
\* left the channel.
Signal ==
  /\ signals < MaxSignals /\ signals' = signals + 1
  /\ process' = IF main \in {"signal", "stop", "watchers"} THEN process ELSE "killed"
  /\ main' = IF main = "signal" THEN "stop" ELSE main
  /\ UNCHANGED <<ivars, started, loop, wg>>

\* Run does not wait for the loop to take the stop.
StopsAnyTime ==
  /\ main = "stop" /\ main' = "watchers"
  /\ UNCHANGED <<ivars, started, loop, wg, process, signals>>

\* StopCh <- struct{}{} meets the select of SyncLoop, which returns.
StopLoop ==
  /\ main = "stop" /\ loop = "select"
  /\ main' = "watchers" /\ loop' = "stopped" /\ wg' = wg - 1
  /\ UNCHANGED <<ivars, started, process, signals>>

\* EndpointsWatchConfig is nil, as nothing calls createWatcher: the process ends
\* before it would wait for the loop.
StopWatcher ==
  /\ main = "watchers" /\ process' = "panicked"
  /\ UNCHANGED <<ivars, main, started, loop, wg, signals>>

-----------------------------------------------------------------------------
(* The SyncLoop goroutine.                                                  *)

SyncLoopStart ==
  /\ loop = "masq" /\ loop' = "select"
  /\ UNCHANGED <<ivars, main, started, wg, process, signals>>

\* EnsureIPtablesMASQ fails and the loop is over.
SyncLoopFails ==
  /\ loop = "masq" /\ loop' = "failed" /\ wg' = wg - 1
  /\ UNCHANGED <<ivars, main, started, process, signals>>

\* The ticker may have fired whenever the loop comes to its select.
SyncLoopTick ==
  /\ loop = "select" /\ loop' = "sync"
  /\ UNCHANGED <<ivars, main, started, wg, process, signals>>

\* The loop returns after a sync that went wrong.
SyncErrorEndsLoop ==
  /\ loop = "sync" /\ loop' \in {"select", "returned"}
  /\ UNCHANGED <<ivars, main, started, wg, process, signals>>

SyncDone ==
  /\ loop = "sync" /\ loop' = "select"
  /\ UNCHANGED <<ivars, main, started, wg, process, signals>>

-----------------------------------------------------------------------------

RunStep ==
  \/ RunServiceConfig \/ RunEndpointsConfig \/ RunSyncLoop \/ RunNotify
  \/ StopWatcher

LoopStep == SyncLoopStart \/ SyncLoopFails \/ SyncLoopTick \/ SyncDone

Informers ==
  /\ UNCHANGED svars
  /\ \E k \in Kinds :
       \/ started /\ (Replace(k) \/ HandleDeltas(k) \/ Deliver(k))
       \/ RunConfig(k)

\* What changes before the informers are started is in the choice of Init.
Environment ==
  /\ started /\ UNCHANGED svars
  /\ \E k \in Kinds :
       \/ \E n \in Names, o \in Objs[k] \cup {Nil} : Change(k, n, o)
       \/ WatchBreaks(k) \/ Resync(k)

Up(A) == process = "up" /\ A

Next ==
  \/ Up(RunStep) \/ Up(factoryStart) \/ Up(LoopStep) \/ Up(StopLoop)
  \/ Up(Informers) \/ Up(Environment) \/ Up(Signal)

\* Go runs goroutines that are ready, and its select takes every ready case again
\* and again; a sync ends, the ticker fires and the API server answers.  Nobody has
\* to send a signal or to change an object.
Spec ==
  /\ Init /\ [][Next]_vars
  /\ WF_vars(Up(RunStep)) /\ WF_vars(Up(factoryStart)) /\ WF_vars(Up(Informers))
  /\ WF_vars(Up(LoopStep)) /\ SF_vars(Up(StopLoop))

-----------------------------------------------------------------------------

\* A signal that Run receives ends the process, unless SyncLoop returned at its
\* start: then nobody reads StopCh and Run waits for ever.
ShutdownEnds == main = "stop" ~> process # "up" \/ loop = "failed"

\* Shutdown does not cut a periodic sync: the process ends by its own hand only
\* when SyncLoop is past its last sync, although nothing waits for the WaitGroup.
NoSyncCut == process = "panicked" => loop = "stopped"

\* Nothing is lost between the API server and the handlers: once the objects stop
\* changing the handler of the proxier has been given what the cache has, which is
\* what the API server has unless a list was read while names were in the queue,
\* and both Synced callbacks have been made.
HandlersConverge ==
  <>[](process # "up" \/ \A k \in Kinds :
         /\ given[k] = indexer[k] /\ run[k] = "synced"
         /\ raced[k] \/ given[k] = api[k])

=============================================================================
