--------------------------- MODULE LibraryProofs ---------------------------
(***************************************************************************)
(* Proofs about the packages beside the proxy: for every minInterval,      *)
(* maxInterval and burst that construct accepts, for every number of       *)
(* loops, channels, listeners and events, and for every capacity of the    *)
(* channel of D-Bus signals.                                               *)
(***************************************************************************)
EXTENDS BoundedFrequencyRunner, AsyncRunner, HealthCheck, Watchers, XtablesLocks,
        FirewalldSignals, TLAPS

-----------------------------------------------------------------------------
(* Runner of pkg/util/async *)

AsyncInv ==
  /\ chans \in Nat /\ goroutines \subseteq Nat \X loopFuncs
  /\ LoopsStoppable

\* The next Stop reaches every loop that was not told to return, however many Starts
\* and Stops there were.
THEOREM LoopsAreStoppable == AsyncSpec => []LoopsStoppable
<1>1. AsyncInit => AsyncInv BY DEF AsyncInit, AsyncInv, LoopsStoppable
<1>2. AsyncInv /\ [AsyncNext]_avars => AsyncInv'
  <2> SUFFICES ASSUME AsyncInv, [AsyncNext]_avars PROVE AsyncInv' OBVIOUS
  <2> USE DEF AsyncInv, LoopsStoppable
  <2>1. CASE Start
    <3>1. \A g \in goroutines : g[1] \in chanClosed
      BY <2>1, NilChanAssumption DEF Start
    <3> QED BY <2>1, <3>1 DEF Start
  <2>2. CASE Stop BY <2>2 DEF Stop
  <2>3. CASE LoopReturns BY <2>3 DEF LoopReturns
  <2>4. CASE UNCHANGED avars BY <2>4 DEF avars
  <2> QED BY <2>1, <2>2, <2>3, <2>4 DEF AsyncNext
<1>3. AsyncInv => LoopsStoppable BY DEF AsyncInv
<1> QED BY <1>1, <1>2, <1>3, PTL DEF AsyncSpec

-----------------------------------------------------------------------------
(* The locks of iptables *)

\* Which locks a command has: those that take the file, those that take the socket, and
\* the restores, which take both.
LocksInv ==
  /\ cmd \in [Commands -> {"idle", "file", "running", "unlocked", "closing"}]
  /\ file \in Commands \cup {NobodyLocks} /\ socket \in Commands \cup {NobodyLocks}
  /\ openFiles \in [BestEfforts -> Nat] /\ lost \in [BestEfforts -> Nat]
  /\ \A c \in Restores \cup BestEfforts \cup News : file = c <=> cmd[c] \in {"file", "running"}
  /\ \A c \in Restores \cup Olds : socket = c <=> cmd[c] \in {"running", "closing"}
  /\ \A c \in Olds : file # c
  /\ \A c \in BestEfforts \cup News : socket # c
  /\ \A c \in BestEfforts : openFiles[c] = lost[c] + (IF cmd[c] = "running" THEN 1 ELSE 0)

\* Nobody holds a lock before the first command.
LEMMA LocksInvInit == LocksInit => LocksInv
BY CommandsAssumption DEF LocksInit, LocksInv, Commands

\* Every step takes and gives back the locks together with the command it is about.
LEMMA LocksInvNext == LocksInv /\ [LocksNext]_xvars => LocksInv'
<1> SUFFICES ASSUME LocksInv, [LocksNext]_xvars PROVE LocksInv' OBVIOUS
<1> USE CommandsAssumption DEF LocksInv, Commands, Goes, TakeFile, TakeSocket, Opens
<1>1. ASSUME NEW c \in Restores, grabFile(c) PROVE LocksInv' BY <1>1 DEF grabFile
<1>2. ASSUME NEW c \in Restores, grabSocket(c) PROVE LocksInv' BY <1>2 DEF grabSocket
<1>3. ASSUME NEW c \in Restores, grabTimeout(c) PROVE LocksInv' BY <1>3 DEF grabTimeout
<1>4. ASSUME NEW c \in Restores, closeFile(c) PROVE LocksInv' BY <1>4 DEF closeFile
<1>5. ASSUME NEW c \in Restores, closeSocket(c) PROVE LocksInv' BY <1>5 DEF closeSocket
<1>6. ASSUME NEW c \in BestEfforts, tryLock(c) PROVE LocksInv' BY <1>6 DEF tryLock
<1>7. ASSUME NEW c \in BestEfforts, tryLockRefused(c) PROVE LocksInv'
  BY <1>7 DEF tryLockRefused, NotLocked
<1>8. ASSUME NEW c \in BestEfforts, tryLockFails(c) PROVE LocksInv'
  BY <1>8 DEF tryLockFails, NotLocked
<1>9. ASSUME NEW c \in BestEfforts, Unlock(c) PROVE LocksInv' BY <1>9 DEF Unlock
<1>10. ASSUME NEW c \in BestEfforts, nopUnlock(c) PROVE LocksInv' BY <1>10 DEF nopUnlock
<1>11. ASSUME NEW c \in News, OtherNew(c) PROVE LocksInv' BY <1>11 DEF OtherNew
<1>12. ASSUME NEW c \in Olds, OtherOld(c) PROVE LocksInv' BY <1>12 DEF OtherOld
<1>13. CASE UNCHANGED xvars BY <1>13 DEF xvars
<1> QED
  BY <1>1, <1>2, <1>3, <1>4, <1>5, <1>6, <1>7, <1>8, <1>9, <1>10, <1>11, <1>12, <1>13, Zenon
  DEF LocksNext

\* However many programs there are of each kind: iptables-restore never runs beside a
\* command that has a lock, of whatever version, nor beside another restore.
THEOREM RestoreIsAlone == LocksSpec => []RestoreIsExclusive
<1>1. LocksInv => RestoreIsExclusive
  BY CommandsAssumption DEF LocksInv, RestoreIsExclusive, Commands
<1> QED BY <1>1, LocksInvInit, LocksInvNext, PTL DEF LocksSpec

\* No lock outlives its command, and every descriptor that stays open is one of a lock
\* that was refused or failed, however many commands there are.
THEOREM LocksAreReleased == LocksSpec => []LocksReleased
<1>1. LocksInv => LocksReleased
  BY CommandsAssumption DEF LocksInv, LocksReleased, Commands
<1> QED BY <1>1, LocksInvInit, LocksInvNext, PTL DEF LocksSpec

-----------------------------------------------------------------------------
(* The signals of firewalld *)

SignalNames == {"owned", "unowned", "reloaded", "nil"}

\* A signal that makes the handler reload is in the channel.
Reloading == \E i \in DOMAIN signal : signal[i] \in {"owned", "reloaded"}

\* As long as no signal was lost: rules that are missing will be reloaded, and a
\* firewalld that is about to flush the rules has an owner signal that is not yet
\* past getDefaultZone.
FwInv ==
  /\ signal \in Seq(SignalNames)
  /\ fw \in {"down", "starting", "up", "reloading"}
  /\ handler \in {"range", "zone", "reload", "returned"}
  /\ reloadFuncs \in BOOLEAN /\ missing \in BOOLEAN
  /\ flushed \in BOOLEAN /\ discarded \in BOOLEAN
  /\ flushed => handler = "reload"
  /\ handler # "returned" /\ ~discarded =>
       /\ missing => \/ fw = "reloading" \/ Reloading \/ handler = "zone"
                     \/ handler = "reload" /\ ~flushed
       /\ fw = "starting" => handler = "zone" \/ \E i \in DOMAIN signal : signal[i] = "owned"

\* What a channel holds after a send and after a receive.
LEMMA AppendHas ==
  ASSUME NEW S, NEW q \in Seq(S), NEW x \in S
  PROVE  /\ Append(q, x) \in Seq(S)
         /\ \A i \in DOMAIN q : i \in DOMAIN Append(q, x) /\ Append(q, x)[i] = q[i]
         /\ Len(q) + 1 \in DOMAIN Append(q, x) /\ Append(q, x)[Len(q) + 1] = x
OBVIOUS

\* What a queue holds behind its head is in its tail.
LEMMA TailHas ==
  ASSUME NEW S, NEW q \in Seq(S), q # <<>>
  PROVE  /\ Head(q) \in S /\ Tail(q) \in Seq(S)
         /\ \A i \in DOMAIN q :
              q[i] = Head(q) \/ \E j \in DOMAIN Tail(q) : Tail(q)[j] = q[i]
<1>1. Head(q) = q[1] /\ Head(q) \in S /\ Tail(q) \in Seq(S) /\ Len(Tail(q)) = Len(q) - 1
  OBVIOUS
<1>2. ASSUME NEW i \in DOMAIN q, i # 1
      PROVE  i - 1 \in DOMAIN Tail(q) /\ Tail(q)[i - 1] = q[i]
  BY <1>2
<1> QED BY <1>1, <1>2, Zenon

\* Nothing is missing when dbusSignalHandler starts.
LEMMA FwInvInit == FwInit => FwInv
<1> SUFFICES ASSUME FwInit PROVE FwInv OBVIOUS
<1> USE DEF FwInit
<1>1. /\ reloadFuncs \in BOOLEAN /\ missing \in BOOLEAN
      /\ flushed \in BOOLEAN /\ discarded \in BOOLEAN
  BY Zenon
<1>2. signal \in Seq(SignalNames) OBVIOUS
<1>3. ~missing /\ ~flushed BY Zenon
<1> QED BY <1>1, <1>2, <1>3 DEF FwInv

\* A signal that firewalld sends while none is lost is in the channel, with all that
\* were there.
LEMMA EmitHas ==
  ASSUME FwInv, NEW s \in SignalNames, Emit(s)
  PROVE  /\ signal' \in Seq(SignalNames) /\ discarded' \in BOOLEAN
         /\ ~discarded' => /\ ~discarded /\ \E i \in DOMAIN signal' : signal'[i] = s
                           /\ \A i \in DOMAIN signal : i \in DOMAIN signal' /\ signal'[i] = signal[i]
<1>1. CASE Len(signal) < SignalCap
  <2>1. signal' = Append(signal, s) /\ discarded' = discarded BY <1>1 DEF Emit
  <2> QED BY <2>1, AppendHas DEF FwInv
<1>2. CASE ~(Len(signal) < SignalCap)
  <2>1. signal' = signal /\ discarded' = TRUE BY <1>2 DEF Emit
  <2> QED BY <2>1 DEF FwInv
<1> QED BY <1>1, <1>2

\* Every step of firewalld, of the bus, of the caller and of the handler keeps FwInv.
LEMMA FwInvNext == FwInv /\ [FwNext]_fvars => FwInv'
<1> SUFFICES ASSUME FwInv, [FwNext]_fvars PROVE FwInv' OBVIOUS
<1> USE DEF FwInv, Reloading
<1>1. CASE FwStart
  <2>1. Emit("owned") BY <1>1 DEF FwStart
  <2> QED BY <1>1, <2>1, EmitHas DEF FwStart, SignalNames
<1>2. CASE FwStarted BY <1>2 DEF FwStarted, Flush
<1>3. CASE FwStop
  <2>1. Emit("unowned") BY <1>3 DEF FwStop
  <2> QED BY <1>3, <2>1, EmitHas DEF FwStop, SignalNames
<1>4. CASE FwReload BY <1>4 DEF FwReload, Flush
<1>5. CASE FwReloaded
  <2>1. Emit("reloaded") BY <1>5 DEF FwReloaded
  <2> QED BY <1>5, <2>1, EmitHas DEF FwReloaded, SignalNames
<1>6. CASE AddReloadFunc BY <1>6, Zenon DEF AddReloadFunc
<1>7. CASE Destroy
  <2>1. signal' = Append(signal, "nil") BY <1>7 DEF Destroy
  <2>2. /\ signal' \in Seq(SignalNames)
        /\ \A i \in DOMAIN signal : i \in DOMAIN signal' /\ signal'[i] = signal[i]
    BY <2>1, AppendHas DEF SignalNames
  <2> QED BY <1>7, <2>2 DEF Destroy
<1>8. CASE dbusSignalHandler
  <2>1. /\ Head(signal) \in SignalNames /\ signal' \in Seq(SignalNames)
        /\ \A i \in DOMAIN signal :
             signal[i] = Head(signal) \/ \E j \in DOMAIN signal' : signal'[j] = signal[i]
    BY <1>8, TailHas DEF dbusSignalHandler
  <2>2. handler' = Handling(Head(signal)) BY <1>8 DEF dbusSignalHandler
  <2> QED BY <1>8, <2>1, <2>2, Zenon DEF dbusSignalHandler, Handling, SignalNames
<1>9. CASE getDefaultZone BY <1>9 DEF getDefaultZone
<1>10. CASE reload BY <1>10, Zenon DEF reload
<1>11. CASE UNCHANGED fvars BY <1>11 DEF fvars
<1> QED
  BY <1>1, <1>2, <1>3, <1>4, <1>5, <1>6, <1>7, <1>8, <1>9, <1>10, <1>11, Zenon DEF FwNext

\* The rules are back once everything is at rest, for a channel of any capacity.
THEOREM RulesAreRestored == FwSpec => []RulesRestored
<1>1. FwInv => RulesRestored BY DEF FwInv, RulesRestored, Reloading
<1> QED BY <1>1, FwInvInit, FwInvNext, PTL DEF FwSpec

-----------------------------------------------------------------------------
(* The watchers *)

\* The latest event is on its way to the listener.
Coming(l) == l \in notifying \/ <<l, latest>> \in flight

\* Events in flight are no newer than the latest, and the latest is the only one of its
\* number.  A listener that has been given an event, or will be, was given the latest
\* or will be; what it was given last is the latest unless an earlier one overtook it.
WatchInv ==
  /\ latest.n \in Nat /\ newest \in [Listeners -> Nat] /\ DOMAIN view = Listeners
  /\ latest.obj = object \/ tombstone
  /\ listeners \subseteq Listeners
  /\ \A g \in flight :
       /\ g[1] \in Listeners /\ g[2].n \in Nat /\ g[2].n <= latest.n
       /\ g[2].n = latest.n => g[2] = latest
       /\ g = <<g[1], g[2]>>
       /\ Coming(g[1]) \/ newest[g[1]] = latest.n
       /\ g[1] \in listeners
  /\ notifying \subseteq listeners
  /\ \A l \in Listeners :
       /\ newest[l] <= latest.n
       /\ view[l] # Unseen => l \in listeners /\ (Coming(l) \/ newest[l] = latest.n)
       /\ newest[l] = latest.n /\ view[l] # Unseen /\ l \notin overtaken => view[l] = latest.obj

\* No listener has seen an event before the first one.
LEMMA WatchInvInit == WatchInit => WatchInv
BY DEF WatchInit, WatchInv

\* A new event is on its way to all listeners that were given one before.
LEMMA NotifyInv ==
  ASSUME WatchInv, notifying = {}, NEW o, Notify(o) PROVE WatchInv'
<1>1. /\ latest'.n = latest.n + 1 /\ latest'.obj = o /\ object' = o
      /\ notifying' = listeners
      /\ UNCHANGED <<listeners, flight, view, newest, overtaken>>
  BY DEF Notify
<1>2. \A l \in listeners : Coming(l)' BY <1>1 DEF Coming
<1>3. ASSUME NEW g \in flight
      PROVE  g[2].n \in Nat /\ g[2].n < latest'.n /\ g[1] \in listeners /\ g[1] \in Listeners
             /\ g = <<g[1], g[2]>>
  BY <1>1, <1>3 DEF WatchInv
<1>4. ASSUME NEW l \in Listeners
      PROVE  newest[l] < latest'.n /\ (view[l] # Unseen => l \in listeners)
  BY <1>1, <1>4 DEF WatchInv
<1>5. latest'.n \in Nat /\ newest' \in [Listeners -> Nat] /\ DOMAIN view' = Listeners
  BY <1>1 DEF WatchInv
<1> QED BY <1>1, <1>2, <1>3, <1>4, <1>5 DEF WatchInv

\* Every step of the informer, of Notify and of the goroutines keeps it.
LEMMA WatchInvNext == WatchInv /\ [WatchNext]_wvars => WatchInv'
<1> SUFFICES ASSUME WatchInv, [WatchNext]_wvars PROVE WatchInv' OBVIOUS
<1>1. CASE servicesAdd BY <1>1, NotifyInv DEF servicesAdd
<1>2. CASE servicesUpdate BY <1>2, NotifyInv DEF servicesUpdate
<1>3. CASE servicesDelete BY <1>3, NotifyInv DEF servicesDelete
<1>4. CASE servicesDeleteTombstone
  BY <1>4, Zenon DEF servicesDeleteTombstone, WatchInv, Coming
<1>5. ASSUME NEW l \in Listeners, RegisterHandler(l) PROVE WatchInv'
  BY <1>5, Zenon DEF RegisterHandler, WatchInv, Coming
<1>6. ASSUME NEW l \in Listeners, goOnUpdate(l) PROVE WatchInv'
  BY <1>6 DEF goOnUpdate, WatchInv, Coming
<1>7. ASSUME NEW g \in flight, OnUpdate(g) PROVE WatchInv'
  <2> DEFINE m == g[1]  e == g[2]
  <2>1. /\ m \in Listeners /\ m \in listeners /\ e.n \in Nat /\ e.n <= latest.n
        /\ e.n = latest.n => e = latest
        /\ g = <<m, e>> /\ (Coming(m) \/ newest[m] = latest.n)
    BY DEF WatchInv
  <2>2. /\ flight' = flight \ {g} /\ view' = [view EXCEPT ![m] = e.obj]
        /\ overtaken' = IF e.n < newest[m] THEN overtaken \cup {m} ELSE overtaken \ {m}
        /\ newest' = [newest EXCEPT ![m] = IF e.n > @ THEN e.n ELSE @]
        /\ UNCHANGED <<object, listeners, notifying, latest, tombstone>>
    BY <1>7, Zenon DEF OnUpdate
  <2>3. newest' \in [Listeners -> Nat] /\ DOMAIN view' = Listeners
    BY <2>1, <2>2, Zenon DEF WatchInv
  <2>4. newest'[m] <= latest.n /\ newest'[m] >= newest[m] /\ newest'[m] >= e.n
    BY <2>1, <2>2 DEF WatchInv
  <2>5. ASSUME NEW l \in Listeners, l # m
        PROVE  /\ newest'[l] = newest[l] /\ view'[l] = view[l]
               /\ l \in overtaken' <=> l \in overtaken
               /\ Coming(l)' <=> Coming(l)
    BY <2>1, <2>2, <2>5, Zenon DEF WatchInv, Coming
  <2>6. Coming(m)' \/ newest'[m] = latest.n
    <3>1. CASE e.n = latest.n BY <2>1, <2>2, <2>4, <3>1 DEF WatchInv
    <3>2. CASE e.n # latest.n /\ Coming(m)
      BY <2>1, <2>2, <3>2 DEF Coming
    <3>3. CASE newest[m] = latest.n BY <2>1, <2>2, <2>4, <3>3 DEF WatchInv
    <3> QED BY <2>1, <3>1, <3>2, <3>3
  <2>7. newest'[m] = latest.n /\ m \notin overtaken' => view'[m] = latest.obj
    BY <2>1, <2>2 DEF WatchInv
  <2>8. \A h \in flight' : Coming(h[1])' \/ newest'[h[1]] = latest.n
    BY <2>2, <2>5, <2>6, Zenon DEF WatchInv
  <2>9. \A h \in flight' :
          /\ h[1] \in Listeners /\ h[2].n \in Nat /\ h[2].n <= latest.n
          /\ h[2].n = latest.n => h[2] = latest
          /\ h = <<h[1], h[2]>> /\ h[1] \in listeners
    BY <2>2, Zenon DEF WatchInv
  <2>10. \A l \in Listeners :
           /\ newest'[l] <= latest.n
           /\ view'[l] # Unseen => l \in listeners /\ (Coming(l)' \/ newest'[l] = latest.n)
           /\ newest'[l] = latest.n /\ view'[l] # Unseen /\ l \notin overtaken' => view'[l] = latest.obj
    BY <2>1, <2>4, <2>5, <2>6, <2>7, Zenon DEF WatchInv
  <2> QED BY <2>2, <2>3, <2>8, <2>9, <2>10, Zenon DEF WatchInv
<1>8. CASE UNCHANGED wvars BY <1>8, Zenon DEF wvars, WatchInv, Coming
<1> QED BY <1>1, <1>2, <1>3, <1>4, <1>5, <1>6, <1>7, <1>8 DEF WatchNext

\* A listener that was given all it was sent knows the object, unless goroutines
\* overtook one another or a tombstone was dropped: for any number of listeners,
\* contents and events.
THEOREM QuietListenersAreCurrent == WatchSpec => []QuietListenersCurrent
<1>1. WatchInv => QuietListenersCurrent BY Zenon DEF WatchInv, QuietListenersCurrent, Coming
<1> QED BY <1>1, WatchInvInit, WatchInvNext, PTL DEF WatchSpec

-----------------------------------------------------------------------------
(* The health check server *)

HealthInfo == [port: HealthPorts, endpoints: {0, 1}]

HealthTypes ==
  /\ hcs \in [Services -> HealthInfo \cup {NoService}]
  /\ listening \in [HealthPorts -> Services \cup {NoService}]
  /\ conns \subseteq Services /\ fresh \subseteq Services /\ stuck \in Services \cup {NoService}

\* A client that connected since the last SyncServices asks for a service that the map
\* has; the one that blocked the server asked for one that it has not.
BlockedByClosed ==
  /\ \A s \in fresh : hcs[s] # NoService
  /\ stuck # NoService => hcs[stuck] = NoService

\* The entry of a service has the port of its last SyncServices, and the listener on
\* that port, and on no other, is the service's.
HealthInv ==
  /\ HealthTypes /\ BlockedByClosed
  /\ \A s \in Services :
       IF hcs[s] = NoService THEN \A p \in HealthPorts : listening[p] # s
       ELSE /\ hcs[s].port = wanted[s]
            /\ \A p \in HealthPorts : listening[p] = s <=> p = hcs[s].port

\* Two services that SyncServices opens have different ports, which no service that is
\* kept has.
LEMMA OpenedApart ==
  ASSUME HealthInv, NEW new \in [Services -> HealthPorts \cup {NoService}],
         NEW opened \in Opened(new)
  PROVE  /\ opened \subseteq Services /\ opened \cap Kept(new) = {}
         /\ \A s \in opened : new[s] \in HealthPorts
         /\ \A s, u \in opened : new[s] = new[u] => s = u
         /\ \A s \in opened, k \in Kept(new) : hcs[k].port # new[s]
<1> DEFINE unheld == {s \in Services : new[s] # NoService} \ Kept(new)
           free(p) == p \notin busy /\ \A s \in Kept(new) : hcs[s].port # p
<1>1. /\ opened \subseteq {s \in unheld : free(new[s])}
      /\ \A s \in unheld : free(new[s]) =>
           \E t \in opened : new[t] = new[s] /\ \A u \in opened : new[u] = new[t] => u = t
  BY DEF Opened
<1>2. \A s, u \in opened : new[s] = new[u] => s = u
  <2> SUFFICES ASSUME NEW s \in opened, NEW u \in opened, new[s] = new[u] PROVE s = u
    OBVIOUS
  <2>1. s \in unheld /\ free(new[s]) BY <1>1
  <2> HIDE DEF unheld, free
  <2>2. PICK t \in opened : new[t] = new[s] /\ \A x \in opened : new[x] = new[t] => x = t
    BY <1>1, <2>1
  <2> QED BY <2>2
<1>3. /\ opened \subseteq Services /\ opened \cap Kept(new) = {}
      /\ \A s \in opened : new[s] \in HealthPorts
  BY <1>1
<1>4. \A s \in opened, k \in Kept(new) : hcs[k].port # new[s] BY <1>1, Zenon
<1> QED BY <1>2, <1>3, <1>4

\* SyncServices leaves every service that it keeps or opens with its listener, and no
\* listener without its service.
LEMMA SyncServicesInv ==
  ASSUME HealthInv, NEW new \in [Services -> HealthPorts \cup {NoService}], SyncServices(new)
  PROVE  HealthInv'
<1>1. PICK opened \in Opened(new) :
        /\ hcs' = [s \in Services |->
                     IF s \in Kept(new) THEN hcs[s]
                     ELSE IF s \in opened THEN [port |-> new[s], endpoints |-> 0]
                     ELSE NoService]
        /\ listening' = [p \in HealthPorts |->
                           IF \E s \in opened : new[s] = p THEN CHOOSE s \in opened : new[s] = p
                           ELSE IF listening[p] \in Kept(new) THEN listening[p]
                           ELSE NoService]
  BY Zenon DEF SyncServices
<1>2. stuck = NoService /\ wanted' = new /\ fresh' = {} /\ conns' = conns /\ stuck' = stuck
  BY Zenon DEF SyncServices
<1>3. /\ opened \subseteq Services /\ opened \cap Kept(new) = {}
      /\ \A s \in opened : new[s] \in HealthPorts
      /\ \A s, u \in opened : new[s] = new[u] => s = u
      /\ \A s \in opened, k \in Kept(new) : hcs[k].port # new[s]
  BY OpenedApart
<1>4. /\ hcs \in [Services -> HealthInfo \cup {NoService}]
      /\ listening \in [HealthPorts -> Services \cup {NoService}]
  BY DEF HealthInv, HealthTypes
<1>5. ASSUME NEW s \in opened
      PROVE  listening'[new[s]] = s /\ \A p \in HealthPorts : listening'[p] = s => p = new[s]
  <2>1. (CHOOSE u \in opened : new[u] = new[s]) = s BY <1>3
  <2>2. \A p \in HealthPorts : (\E u \in opened : new[u] = p) =>
          new[listening'[p]] = p
    <3> SUFFICES ASSUME NEW p \in HealthPorts, \E u \in opened : new[u] = p
                 PROVE  new[listening'[p]] = p
      OBVIOUS
    <3>1. listening'[p] = CHOOSE u \in opened : new[u] = p BY <1>1, Zenon
    <3>2. new[CHOOSE u \in opened : new[u] = p] = p OBVIOUS
    <3> QED BY <3>1, <3>2
  <2>3. ASSUME NEW p \in HealthPorts, ~\E u \in opened : new[u] = p
        PROVE  listening'[p] # s
    BY <1>1, <1>3, <2>3, NoServiceAssumption, Zenon
  <2>4. listening'[new[s]] = s BY <1>1, <1>3, <2>1, Zenon
  <2> QED BY <2>2, <2>3, <2>4
<1>6. ASSUME NEW p \in HealthPorts PROVE listening'[p] \in Kept(new) \cup opened \cup {NoService}
  <2>1. CASE \E u \in opened : new[u] = p
    <3>1. listening'[p] = CHOOSE u \in opened : new[u] = p BY <1>1, <2>1, Zenon
    <3> QED BY <2>1, <3>1
  <2>2. CASE ~\E u \in opened : new[u] = p BY <1>1, <2>2, Zenon
  <2> QED BY <2>1, <2>2, Zenon
<1>7. Kept(new) \subseteq Services /\ \A s \in Kept(new) : hcs[s] # NoService /\ hcs[s].port = new[s]
  BY DEF Kept
<1>8. ASSUME NEW s \in Kept(new), NEW p \in HealthPorts
      PROVE  listening'[p] = s <=> p = hcs[s].port
  <2>1. listening[p] = s <=> p = hcs[s].port BY <1>7, Zenon DEF HealthInv
  <2>2. CASE \E u \in opened : new[u] = p
    <3>1. listening'[p] = CHOOSE u \in opened : new[u] = p BY <1>1, <2>2, Zenon
    <3>2. listening'[p] \in opened BY <2>2, <3>1
    <3> QED BY <1>3, <2>2, <3>2
  <2>3. CASE ~\E u \in opened : new[u] = p
    BY <1>1, <1>7, <2>1, <2>3, NoServiceAssumption, Zenon
  <2> QED BY <2>2, <2>3
<1>9. HealthTypes'
  <2>1. hcs' \in [Services -> HealthInfo \cup {NoService}]
    BY <1>1, <1>3, <1>4, Zenon DEF HealthInfo
  <2>2. listening' \in [HealthPorts -> Services \cup {NoService}]
    BY <1>1, <1>3, <1>6, <1>7, Zenon
  <2> QED BY <1>2, <2>1, <2>2, Zenon DEF HealthInv, HealthTypes
<1>10. ASSUME NEW s \in Services
       PROVE  IF hcs'[s] = NoService THEN \A p \in HealthPorts : listening'[p] # s
              ELSE /\ hcs'[s].port = wanted'[s]
                   /\ \A p \in HealthPorts : listening'[p] = s <=> p = hcs'[s].port
  <2>1. CASE s \in Kept(new)
    <3>1. hcs'[s] = hcs[s] BY <1>1, <2>1, Zenon
    <3> QED BY <1>2, <1>7, <1>8, <2>1, <3>1, SMTT(30)
  <2>2. CASE s \in opened
    <3>1. hcs'[s] = [port |-> new[s], endpoints |-> 0] /\ hcs'[s].port = new[s]
      BY <1>1, <1>3, <2>2, Zenon
    <3>2. hcs'[s] # NoService BY <1>3, <2>2, <3>1, NoServiceAssumption
    <3> QED BY <1>2, <1>3, <1>5, <2>2, <3>1, <3>2, SMTT(30)
  <2>3. CASE s \notin Kept(new) /\ s \notin opened
    <3>1. hcs'[s] = NoService BY <1>1, <2>3, Zenon
    <3> QED BY <1>6, <2>3, <3>1, NoServiceAssumption
  <2> QED BY <2>1, <2>2, <2>3, Zenon
<1> QED BY <1>2, <1>9, <1>10, Zenon DEF HealthInv, BlockedByClosed

\* Every call of the server, and every client and process of the node, keeps it.
LEMMA HealthInvNext == HealthInv /\ [HealthNext]_hvars => HealthInv'
<1> SUFFICES ASSUME HealthInv, [HealthNext]_hvars PROVE HealthInv' OBVIOUS
<1>1. ASSUME NEW new \in [Services -> {0, 1}], SyncEndpoints(new) PROVE HealthInv'
  <2>1. /\ stuck = NoService /\ UNCHANGED <<listening, conns, stuck, wanted, fresh>>
        /\ hcs' = [s \in Services |-> IF hcs[s] = NoService THEN NoService
                                       ELSE [hcs[s] EXCEPT !.endpoints = new[s]]]
    BY <1>1 DEF SyncEndpoints
  <2>2. ASSUME NEW s \in Services, hcs[s] # NoService
        PROVE  hcs'[s] \in HealthInfo /\ hcs'[s].port = hcs[s].port /\ hcs'[s] # NoService
    <3>1. hcs[s] \in HealthInfo BY <2>2 DEF HealthInv, HealthTypes
    <3>2. hcs'[s] = [hcs[s] EXCEPT !.endpoints = new[s]] BY <2>1, <2>2
    <3>3. hcs'[s] \in HealthInfo /\ hcs'[s].port = hcs[s].port BY <3>1, <3>2 DEF HealthInfo
    <3> QED BY <3>3, NoServiceAssumption, Zenon DEF HealthInfo
  <2>3. \A s \in Services : hcs[s] = NoService => hcs'[s] = NoService BY <2>1
  <2>4. hcs' \in [Services -> HealthInfo \cup {NoService}]
    <3>1. \A s \in Services : hcs'[s] \in HealthInfo \cup {NoService} BY <2>2, <2>3
    <3> QED BY <2>1, <3>1, Zenon
  <2>5. HealthTypes' BY <2>1, <2>4 DEF HealthInv, HealthTypes
  <2>6. BlockedByClosed' BY <2>1, <2>2, Zenon DEF HealthInv, HealthTypes, BlockedByClosed
  <2> QED BY <2>1, <2>2, <2>3, <2>5, <2>6 DEF HealthInv
<1>2. ASSUME UNCHANGED <<hcs, listening, wanted>>, conns' \subseteq Services,
             fresh' \subseteq Services, \A s \in fresh' : hcs[s] # NoService,
             stuck' = stuck \/ (stuck' \in Services /\ hcs[stuck'] = NoService)
      PROVE  HealthInv'
  BY <1>2, Zenon DEF HealthInv, HealthTypes, BlockedByClosed
<1>3. ASSUME NEW p \in HealthPorts, Connect(p) PROVE HealthInv'
  <2>1. /\ listening[p] \in Services /\ UNCHANGED <<hcs, listening, wanted, stuck>>
        /\ conns' = conns \cup {listening[p]} /\ fresh' = fresh \cup {listening[p]}
    BY <1>3 DEF Connect, HealthInv, HealthTypes
  <2>2. hcs[listening[p]] # NoService
    BY <2>1, Zenon DEF HealthInv
  <2> QED BY <1>2, <2>1, <2>2, Zenon DEF HealthInv, HealthTypes, BlockedByClosed
<1>4. ASSUME NEW p \in HealthPorts, OtherListens(p) \/ OtherCloses(p) PROVE HealthInv'
  BY <1>2, <1>4, Zenon DEF OtherListens, OtherCloses, HealthInv, HealthTypes, BlockedByClosed
<1>5. ASSUME NEW s \in Services, Disconnect(s) PROVE HealthInv'
  BY <1>2, <1>5, Zenon DEF Disconnect, HealthInv, HealthTypes, BlockedByClosed
<1>6. ASSUME NEW s \in Services, ServeHTTP(s) PROVE HealthInv'
  BY <1>2, <1>6, SMTT(30) DEF ServeHTTP, HealthInv, HealthTypes, BlockedByClosed
<1>7. CASE UNCHANGED hvars
  BY <1>2, <1>7, Zenon DEF hvars, HealthInv, HealthTypes, BlockedByClosed
<1> QED BY <1>1, <1>3, <1>4, <1>5, <1>6, <1>7, SyncServicesInv DEF HealthNext

\* The server starts without services, listeners and clients.
LEMMA HealthInvInit == HealthInit => HealthInv
BY NoServiceAssumption
   DEF HealthInit, HealthInv, HealthTypes, BlockedByClosed

\* Listeners, map and the last SyncServices agree, for every set of services and of
\* ports and whatever ports other processes take.
THEOREM ListenersAreServices == HealthSpec => []ListenersMatchServices
<1>1. HealthInv => ListenersMatchServices
  <2> SUFFICES ASSUME HealthInv, NEW s \in Services, hcs[s] # NoService
               PROVE  {p \in HealthPorts : listening[p] = s} = {wanted[s]}
    BY Zenon DEF HealthInv, ListenersMatchServices
  <2>1. /\ hcs[s].port = wanted[s] /\ hcs[s].port \in HealthPorts
        /\ \A p \in HealthPorts : listening[p] = s <=> p = hcs[s].port
    BY DEF HealthInv, HealthTypes, HealthInfo
  <2> QED BY <2>1
<1> QED BY <1>1, HealthInvInit, HealthInvNext, PTL DEF HealthSpec

\* For any services and ports, the server is blocked only by a connection that is older
\* than the last SyncServices.
THEOREM OnlyOldConnectionsBlocked == HealthSpec => []OnlyOldConnectionsBlock
<1>1. HealthInv => OnlyOldConnectionsBlock
  <2> SUFFICES ASSUME HealthInv PROVE stuck \notin fresh
    BY Zenon DEF OnlyOldConnectionsBlock
  <2>1. NoService \notin fresh
    BY NoServiceAssumption, Zenon DEF HealthInv, HealthTypes
  <2>2. stuck # NoService => stuck \notin fresh
    BY Zenon DEF HealthInv, BlockedByClosed
  <2> QED BY <2>1, <2>2, Zenon
<1> QED BY <1>1, HealthInvInit, HealthInvNext, PTL DEF HealthSpec

-----------------------------------------------------------------------------
(* The bounded frequency runner *)

\* The types, without the history of the starts.
RunnerTypes ==
  /\ loop \in {"init", "select", "try", "fn", "done"}
  /\ closed \in BOOLEAN /\ runq \in BOOLEAN /\ tickq \in BOOLEAN /\ owed \in BOOLEAN
  /\ timer \in Int /\ timer >= Off /\ since \in 0..Never
  /\ avail \in 0..Burst /\ lag \in 0..Burst
  /\ phase \in Nat /\ (MinInterval # 0 => phase < MinInterval)

\* What holds before the loop, and while the function runs: nobody empties the channel.
LoopFacts ==
  /\ loop = "init" => timer = Off /\ ~tickq /\ since = Never
  /\ loop = "fn" /\ owed => runq

\* The bucket is empty and no token is due only in the MinInterval of the last run.
EmptyBucketIsRecent == avail = 0 /\ lag = 0 /\ loop # "fn" => since <= phase

\* The timer fires when a run is possible again and before the next one is overdue; a
\* tick that is not followed by a timer says that a run is possible.
TimerBounds ==
  /\ timer # Off => timer + since >= MinInterval
  /\ timer # Off => timer = 0 \/ since = Never \/ timer + since <= MaxInterval
  /\ loop # "done" /\ timer = Off /\ tickq => since >= MinInterval

\* Until the loop is done something wakes it.
SomethingWakes ==
  \/ tickq \/ timer # Off
  \/ loop \in {"fn", "init", "done"}
  \/ loop = "try" /\ since >= MinInterval

RunnerInv ==
  /\ RunnerTypes /\ LoopFacts /\ EmptyBucketIsRecent /\ TimerBounds /\ SomethingWakes
  /\ RequestRemembered

\* A refusal comes in the MinInterval of the last run only, with the bucket as it is:
\* tryRun puts the run off by less than minInterval.
LEMMA RefusedIsRecent ==
  ASSUME RunnerInv, loop = "try", Refused
  PROVE  /\ avail = 0 /\ lag = 0 /\ since < MinInterval
         /\ avail' = 0 /\ lag' = 0 /\ phase' = phase
<1>1. MinInterval # 0 /\ Adjusted = 0 /\ avail' = 0 /\ lag' = 0 /\ phase' = phase
  BY DEF Refused
<1>2. avail = 0 /\ lag = 0
  BY <1>1, RunnerAssumption DEF RunnerInv, RunnerTypes, Adjusted, AtMost
<1>3. since <= phase /\ phase < MinInterval
  BY <1>1, <1>2 DEF RunnerInv, EmptyBucketIsRecent, RunnerTypes
<1> QED BY <1>1, <1>2, <1>3, RunnerAssumption DEF RunnerInv, RunnerTypes, Never

\* The invariant holds when the runner is constructed.
LEMMA RunnerInvInit == RunnerInit => RunnerInv
<1> SUFFICES ASSUME RunnerInit PROVE RunnerInv OBVIOUS
<1> USE DEF RunnerInit
<1>1. RunnerTypes
  <2>1. closed \in BOOLEAN /\ runq \in BOOLEAN /\ tickq \in BOOLEAN /\ owed \in BOOLEAN
    BY Zenon
  <2>2. timer \in Int /\ timer >= Off /\ since \in 0..Never
    BY RunnerAssumption DEF Off, Never
  <2>3. /\ avail \in 0..Burst /\ lag \in 0..Burst
        /\ phase \in Nat /\ (MinInterval # 0 => phase < MinInterval)
    BY RunnerAssumption
  <2> QED BY <2>1, <2>2, <2>3 DEF RunnerTypes
<1>2. LoopFacts BY DEF LoopFacts
<1>3. EmptyBucketIsRecent BY RunnerAssumption DEF EmptyBucketIsRecent
<1>4. TimerBounds /\ SomethingWakes BY DEF TimerBounds, SomethingWakes
<1>5. RequestRemembered BY DEF RequestRemembered
<1> QED BY <1>1, <1>2, <1>3, <1>4, <1>5 DEF RunnerInv

\* Every step of the loop, its callers, the timer and the clock keeps it.
LEMMA RunnerInvNext == RunnerInv /\ [RunnerNext]_rvars => RunnerInv'
<1> SUFFICES ASSUME RunnerInv, [RunnerNext]_rvars PROVE RunnerInv' OBVIOUS
<1> USE RunnerAssumption
        DEF RunnerInv, RunnerTypes, LoopFacts, EmptyBucketIsRecent, TimerBounds,
            SomethingWakes, RequestRemembered, Deferred, Off, Never, bucket
<1>1. CASE Run BY <1>1, SMTT(30) DEF Run
<1>2. CASE CloseStop BY <1>2, SMTT(30) DEF CloseStop
<1>3. CASE LoopStart BY <1>3, SMTT(30) DEF LoopStart
<1>4. CASE stop BY <1>4, SMTT(30) DEF stop
<1>5. CASE SelectTimer BY <1>5, Zenon DEF SelectTimer
<1>6. CASE SelectRun BY <1>6, Zenon DEF SelectRun
<1>7. CASE tryRunStart
  <2>1. avail' \in 0..Burst /\ lag' \in 0..Burst /\ phase' = phase
    BY <1>7, SMTT(30) DEF tryRunStart, TryAccept, Adjusted, AtMost
  <2> QED BY <1>7, <2>1, Zenon DEF tryRunStart
<1>8. CASE tryRunThrottled
  <2>1. loop = "try" /\ Refused BY <1>8, Zenon DEF tryRunThrottled
  <2>2. avail = 0 /\ lag = 0 /\ since < MinInterval /\ avail' = 0 /\ lag' = 0 /\ phase' = phase
    BY <2>1, RefusedIsRecent, Zenon
  <2>3. timer' = IF MinInterval < MaxInterval THEN MinInterval - since ELSE timer
    BY <1>8, <2>2, SMTT(30) DEF tryRunThrottled
  <2>4. /\ loop' = "select"
        /\ UNCHANGED <<closed, runq, tickq, since, owed>>
    BY <1>8, Zenon DEF tryRunThrottled
  <2>5. tickq \/ timer # -1 BY <2>1, <2>2
  <2>6. timer' # -1 \/ tickq' BY <2>2, <2>3, <2>4, <2>5
  <2>7. RunnerTypes' BY <2>2, <2>3, <2>4, SMTT(30)
  <2>8. LoopFacts' /\ EmptyBucketIsRecent' BY <2>1, <2>2, <2>4, Zenon
  <2>9. TimerBounds' BY <2>1, <2>2, <2>3, <2>4, SMTT(30)
  <2>10. SomethingWakes' BY <2>6, Zenon
  <2>11. RequestRemembered' BY <2>2, <2>3, <2>4, <2>5, SMTT(30)
  <2> QED BY <2>7, <2>8, <2>9, <2>10, <2>11, Zenon
<1>9. CASE tryRunDone BY <1>9, SMTT(30) DEF tryRunDone
<1>10. CASE Fire BY <1>10, SMTT(30) DEF Fire
<1>11. CASE Pass
  <2>1. lag' \in 0..Burst /\ phase' \in Nat /\ (MinInterval # 0 => phase' < MinInterval)
    BY <1>11, SMTT(30) DEF Pass, AtMost
  <2>2. avail' = 0 /\ lag' = 0 => lag = 0 /\ phase' = phase + 1
    BY <1>11, SMTT(30) DEF Pass, AtMost
  <2>3. /\ timer' = IF timer > 0 THEN timer - 1 ELSE timer
        /\ since' = IF since < MaxInterval THEN since + 1 ELSE since
        /\ UNCHANGED <<loop, closed, runq, tickq, avail, owed>>
    BY <1>11, Zenon DEF Pass
  <2>4. EmptyBucketIsRecent' BY <2>2, <2>3, SMTT(30)
  <2>5. TimerBounds' /\ SomethingWakes' BY <2>3, SMTT(30)
  <2>6. RequestRemembered' BY <2>3, SMTT(30)
  <2>7. RunnerTypes' BY <2>1, <2>3, SMTT(30)
  <2>8. LoopFacts' BY <2>3
  <2> QED BY <2>4, <2>5, <2>6, <2>7, <2>8, Zenon
<1>12. CASE UNCHANGED rvars BY <1>12, SMTT(30) DEF rvars
<1> QED
  BY <1>1, <1>2, <1>3, <1>4, <1>5, <1>6, <1>7, <1>8, <1>9, <1>10, <1>11, <1>12, Zenon
  DEF RunnerNext, LoopStep

\* A request is never forgotten, whatever the intervals and the burst are.
THEOREM RequestsAreRemembered == RunnerSpec => []RequestRemembered
<1>1. RunnerInv => RequestRemembered BY DEF RunnerInv
<1> QED BY <1>1, RunnerInvInit, RunnerInvNext, PTL DEF RunnerSpec

\* While Loop waits, the timer or a tick brings the next periodic run in time.
THEOREM TimerIsArmed == RunnerSpec => []TimerArmed
<1>1. RunnerInv => TimerArmed
  BY DEF RunnerInv, TimerArmed, TimerBounds, SomethingWakes
<1> QED BY <1>1, RunnerInvInit, RunnerInvNext, PTL DEF RunnerSpec

\* The runs that could start at once: a bucket that is full gives one more if a
\* multiple of MinInterval is not yet counted.
Tokens == IF avail >= Burst THEN Burst + AtMost(lag, 1) ELSE AtMost(avail + lag, Burst)

\* The runs since one of the last MinInterval, that one included, and those that could
\* start at once are Burst + 1 at most, and one more once a multiple has come since.
BurstInv ==
  MinInterval # 0 => \A i \in DOMAIN starts :
    /\ i \in Nat \ {0} /\ starts[i] \in Nat /\ starts[i] < MinInterval
    /\ i + Tokens <= Burst + 1 + (IF starts[i] > phase THEN 1 ELSE 0)

\* A run takes one of them.
LEMMA RunTakesToken ==
  ASSUME RunnerTypes, TryAccept, MinInterval # 0
  PROVE  Tokens \in 0..(Burst + 1) /\ Tokens' = Tokens - 1
BY RunnerAssumption, SMTT(30) DEF RunnerTypes, TryAccept, Adjusted, Tokens, AtMost

\* A multiple of MinInterval brings one at most, and all else none.
LEMMA PassAddsToken ==
  ASSUME RunnerTypes, Pass, MinInterval # 0
  PROVE  /\ Tokens \in Nat /\ Tokens' \in Nat
         /\ phase + 1 < MinInterval => Tokens' = Tokens /\ phase' = phase + 1
         /\ ~(phase + 1 < MinInterval) => Tokens' <= Tokens + 1 /\ phase' = 0
BY RunnerAssumption, SMTT(30) DEF RunnerTypes, Pass, Tokens, AtMost

\* The runs of the loop and the passing of time keep the bound.
LEMMA BurstInvNext == RunnerInv /\ BurstInv /\ [RunnerNext]_rvars => BurstInv'
<1> SUFFICES ASSUME RunnerInv, BurstInv, [RunnerNext]_rvars, MinInterval # 0,
                    NEW i \in DOMAIN starts'
             PROVE  /\ i \in Nat \ {0} /\ starts'[i] \in Nat /\ starts'[i] < MinInterval
                    /\ i + Tokens' <= Burst + 1 + (IF starts'[i] > phase' THEN 1 ELSE 0)
  BY Zenon DEF BurstInv
<1>1. RunnerTypes BY DEF RunnerInv
<1>2. phase \in Nat /\ phase < MinInterval BY <1>1 DEF RunnerTypes
<1>3. CASE tryRunStart
  <2>1. /\ TryAccept /\ phase' = phase
        /\ starts' = [j \in {1} \cup {j + 1 : j \in DOMAIN starts} |->
                        IF j = 1 THEN 0 ELSE starts[j - 1]]
    BY <1>3, Zenon DEF tryRunStart, TryAccept
  <2>2. Tokens \in 0..(Burst + 1) /\ Tokens' = Tokens - 1 BY <1>1, <2>1, RunTakesToken, Zenon
  <2>3. CASE i = 1
    <3>1. starts'[i] = 0 BY <2>1, <2>3, Zenon
    <3> QED BY <1>2, <2>1, <2>2, <2>3, <3>1, RunnerAssumption
  <2>4. CASE i # 1
    <3>1. PICK j \in DOMAIN starts : i = j + 1 BY <2>1, <2>4, Zenon
    <3>2. /\ j \in Nat \ {0} /\ starts[j] \in Nat /\ starts[j] < MinInterval
          /\ j + Tokens <= Burst + 1 + (IF starts[j] > phase THEN 1 ELSE 0)
      BY Zenon DEF BurstInv
    <3>3. starts'[i] = starts[j] BY <2>1, <2>4, <3>1, <3>2
    <3> QED BY <2>1, <2>2, <3>1, <3>2, <3>3, RunnerAssumption, SMTT(30)
  <2> QED BY <2>3, <2>4, Zenon
<1>4. CASE Pass
  <2>1. starts' = [j \in {j \in DOMAIN starts : starts[j] + 1 < MinInterval} |-> starts[j] + 1]
    BY <1>4, Zenon DEF Pass
  <2>2. i \in DOMAIN starts /\ starts[i] + 1 < MinInterval /\ starts'[i] = starts[i] + 1
    BY <2>1
  <2>3. /\ i \in Nat \ {0} /\ starts[i] \in Nat
        /\ i + Tokens <= Burst + 1 + (IF starts[i] > phase THEN 1 ELSE 0)
    BY <2>2, Zenon DEF BurstInv
  <2>4. /\ Tokens \in Nat /\ Tokens' \in Nat
        /\ phase + 1 < MinInterval => Tokens' = Tokens /\ phase' = phase + 1
        /\ ~(phase + 1 < MinInterval) => Tokens' <= Tokens + 1 /\ phase' = 0
    BY <1>1, <1>4, PassAddsToken
  <2>5. CASE phase + 1 < MinInterval
    BY <1>2, <2>2, <2>3, <2>4, <2>5, RunnerAssumption
  <2>6. CASE ~(phase + 1 < MinInterval)
    <3>1. ~(starts[i] > phase) BY <1>2, <2>2, <2>3, <2>6, RunnerAssumption
    <3> QED BY <2>2, <2>3, <2>4, <2>6, <3>1, RunnerAssumption
  <2> QED BY <2>5, <2>6, Zenon
<1>5. CASE tryRunThrottled
  <2>1. loop = "try" /\ Refused /\ starts' = starts BY <1>5 DEF tryRunThrottled
  <2>2. avail' = avail /\ lag' = lag /\ phase' = phase BY <2>1, RefusedIsRecent
  <2> QED BY <2>1, <2>2, Zenon DEF BurstInv, Tokens
<1>6. CASE UNCHANGED <<avail, lag, phase, starts>>
  BY <1>6, Zenon DEF BurstInv, Tokens
<1>7. Run \/ CloseStop \/ LoopStart \/ stop \/ SelectTimer \/ SelectRun \/ tryRunDone \/ Fire
        \/ UNCHANGED rvars => UNCHANGED <<avail, lag, phase, starts>>
  BY Zenon DEF Run, CloseStop, LoopStart, stop, SelectTimer, SelectRun, tryRunDone, Fire, rvars, bucket
<1> QED BY <1>3, <1>4, <1>5, <1>6, <1>7, Zenon DEF RunnerNext, LoopStep

\* Less than minInterval sees at most two runs more than burstRuns, for every
\* minInterval, maxInterval and burstRuns that construct accepts.
THEOREM BurstIsBounded == RunnerSpec => []BurstBounded
<1>1. RunnerInit => BurstInv BY DEF RunnerInit, BurstInv
<1>2. RunnerInv /\ BurstInv => BurstBounded
  <2> SUFFICES ASSUME RunnerInv, BurstInv, MinInterval # 0, NEW i \in DOMAIN starts
               PROVE  i \in 1..(Burst + 2)
    BY DEF BurstBounded
  <2>1. Tokens \in Nat
    BY RunnerAssumption DEF RunnerInv, RunnerTypes, Tokens, AtMost
  <2>2. i \in Nat \ {0} /\ i + Tokens <= Burst + 1 + (IF starts[i] > phase THEN 1 ELSE 0)
    BY DEF BurstInv
  <2> QED BY <2>1, <2>2, RunnerAssumption
<1> QED BY <1>1, <1>2, RunnerInvInit, RunnerInvNext, BurstInvNext, PTL DEF RunnerSpec

\* The safety part of RunnerPromise: runs are serialized, and a run starts after the
\* request it answers.  Every step of the runner is one of the promise or a stutter.
THEOREM RunnerRefinesPromise ==
  RunnerSpec => Promise!PInit /\ [][Promise!PNext]_(Promise!promise)
<1>1. RunnerInit => Promise!PInit BY DEF RunnerInit, Promise!PInit
<1>2. [RunnerNext]_rvars => [Promise!PNext]_(Promise!promise)
  <2> SUFFICES ASSUME [RunnerNext]_rvars PROVE [Promise!PNext]_(Promise!promise) OBVIOUS
  <2> USE DEF Promise!PNext, Promise!promise
  <2>1. CASE Run BY <2>1 DEF Run, Promise!Request
  <2>2. CASE CloseStop BY <2>2 DEF CloseStop, Promise!Close
  <2>3. CASE tryRunStart BY <2>3, Zenon DEF tryRunStart, Promise!Begin
  <2>4. CASE tryRunDone BY <2>4 DEF tryRunDone, Promise!End
  <2>5. CASE LoopStart \/ stop \/ SelectTimer \/ SelectRun \/ tryRunThrottled
    BY <2>5, Zenon DEF LoopStart, stop, SelectTimer, SelectRun, tryRunThrottled
  <2>6. CASE Fire \/ Pass BY <2>6, Zenon DEF Fire, Pass
  <2>7. CASE UNCHANGED rvars BY <2>7 DEF rvars
  <2> QED BY <2>1, <2>2, <2>3, <2>4, <2>5, <2>6, <2>7, Zenon DEF RunnerNext, LoopStep
<1> QED BY <1>1, <1>2, PTL DEF RunnerSpec

=============================================================================
