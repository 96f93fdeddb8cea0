-------------------------- MODULE FirewalldSignals --------------------------
(***************************************************************************)
(* The D-Bus part of pkg/util/iptables: firewalld deletes every iptables   *)
(* rule when it starts and when it reloads, and the runner calls its       *)
(* reload functions when the bus signals either.  firewalld and the bus    *)
(* are external: a signal that finds the channel full is discarded.        *)
(***************************************************************************)
EXTENDS Naturals, Sequences

CONSTANT SignalCap      \* the capacity of runner.signal, 10 in the code

VARIABLES
  fw,          \* firewalld: "down", "starting", "up", "reloading"
  signal,      \* runner.signal
  handler,     \* dbusSignalHandler: "range", "zone", "reload", "returned"
  reloadFuncs, \* whether a reload function is registered
  missing,     \* rules of the registered caller are missing
  flushed,     \* rules were flushed while the reload functions ran
  discarded    \* history: the bus discarded a signal

fvars == <<fw, signal, handler, reloadFuncs, missing, flushed, discarded>>

FwInit ==
  /\ fw \in {"down", "up"} /\ signal = <<>> /\ handler = "range"
  /\ reloadFuncs = FALSE /\ missing = FALSE /\ flushed = FALSE /\ discarded = FALSE

Emit(s) ==
  IF Len(signal) < SignalCap
  THEN signal' = Append(signal, s) /\ UNCHANGED discarded
  ELSE discarded' = TRUE /\ UNCHANGED signal

Flush ==
  /\ missing' = reloadFuncs
  /\ flushed' = (reloadFuncs /\ handler = "reload")

\* The bus tells of the new owner of the name before firewalld has deleted the rules.
FwStart ==
  /\ fw = "down" /\ fw' = "starting" /\ Emit("owned")
  /\ UNCHANGED <<handler, reloadFuncs, missing, flushed>>

FwStarted ==
  /\ fw = "starting" /\ fw' = "up" /\ Flush
  /\ UNCHANGED <<signal, handler, reloadFuncs, discarded>>

FwStop ==
  /\ fw = "up" /\ fw' = "down" /\ Emit("unowned")
  /\ UNCHANGED <<handler, reloadFuncs, missing, flushed>>

FwReload ==
  /\ fw = "up" /\ fw' = "reloading" /\ Flush
  /\ UNCHANGED <<signal, handler, reloadFuncs, discarded>>

FwReloaded ==
  /\ fw = "reloading" /\ fw' = "up" /\ Emit("reloaded")
  /\ UNCHANGED <<handler, reloadFuncs, missing, flushed>>

\* The caller writes its rules when it has registered its function.
AddReloadFunc ==
  /\ ~reloadFuncs /\ reloadFuncs' = TRUE /\ missing' = FALSE
  /\ UNCHANGED <<fw, signal, handler, flushed, discarded>>

\* Destroy blocks while the channel is full.
Destroy ==
  /\ Len(signal) < SignalCap /\ handler # "returned" /\ ~\E i \in DOMAIN signal : signal[i] = "nil"
  /\ signal' = Append(signal, "nil")
  /\ UNCHANGED <<fw, handler, reloadFuncs, missing, flushed, discarded>>

\* The rules are reloaded as soon as the name has an owner.
ReloadsWithoutZone(s) ==
  CASE s = "nil"      -> "returned"
    [] s = "owned"    -> "reload"
    [] s = "unowned"  -> "range"
    [] s = "reloaded" -> "reload"

\* The case of the signal.
Handling(s) ==
  CASE s = "nil"      -> "returned"
    [] s = "owned"    -> "zone"
    [] s = "unowned"  -> "range"
    [] s = "reloaded" -> "reload"

dbusSignalHandler ==
  /\ handler = "range" /\ signal # <<>>
  /\ handler' = Handling(Head(signal)) /\ signal' = Tail(signal)
  /\ UNCHANGED <<fw, reloadFuncs, missing, flushed, discarded>>

\* The call returns when firewalld has started, or fails when it is gone; the result
\* is not used.
getDefaultZone ==
  /\ handler = "zone" /\ fw \in {"up", "down"} /\ handler' = "reload"
  /\ UNCHANGED <<fw, signal, reloadFuncs, missing, flushed, discarded>>

\* The reload functions have run: what was flushed meanwhile may be missing again.
reload ==
  /\ handler = "reload" /\ handler' = "range"
  /\ missing' = (missing /\ flushed) /\ flushed' = FALSE
  /\ UNCHANGED <<fw, signal, reloadFuncs, discarded>>

FwNext ==
  \/ FwStart \/ FwStarted \/ FwStop \/ FwReload \/ FwReloaded
  \/ AddReloadFunc \/ Destroy
  \/ dbusSignalHandler \/ getDefaultZone \/ reload

FwSpec == FwInit /\ [][FwNext]_fvars

-----------------------------------------------------------------------------

\* Once firewalld is at rest and the handler has read every signal, the rules are
\* back, whatever was started, reloaded or stopped meanwhile: provided the channel
\* never was full and the runner is not being destroyed.
RulesRestored ==
  fw \in {"up", "down"} /\ signal = <<>> /\ handler = "range" /\ ~discarded => ~missing

=============================================================================
