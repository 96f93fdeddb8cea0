----------------------- MODULE BoundedFrequencyRunner -----------------------
(***************************************************************************)
(* The BoundedFrequencyRunner of pkg/util/async: one goroutine (Loop) that *)
(* runs a function on request and periodically, a rate limiter and a timer *)
(* that is shared by the periodic run and the run that was put off.        *)
(*                                                                         *)
(* Time is relative.  A timer is the time left until it fires; it may fire *)
(* late.  lastRun is known by the time since then, counted up to           *)
(* MaxInterval.  The bucket of the limiter adds a token at every multiple  *)
(* of MinInterval (its rate, a float32, is taken to be exact): phase is    *)
(* the time since the last multiple, lag the number of multiples that are  *)
(* not yet in avail, counted up to Burst.                                  *)
(***************************************************************************)
EXTENDS Integers

CONSTANTS MinInterval, MaxInterval, Burst

\* construct and the bucket panic otherwise.
ASSUME RunnerAssumption ==
  /\ MinInterval \in Nat /\ MaxInterval \in Nat \ {0} /\ Burst \in Nat \ {0}
  /\ MinInterval <= MaxInterval

VARIABLES
  loop,       \* where the Loop goroutine is
  closed,     \* the stop channel is closed
  runq,       \* the channel run, of capacity 1, is full
  timer,      \* the time left, Off when the timer is stopped or has fired
  tickq,      \* a tick is in the channel of the timer
  since,      \* the time since lastRun, Never before the first run
  avail, lag, phase,
  owed,       \* history: a request came after the start of the last run
  starts      \* history: how long ago the runs of the last MinInterval started,
              \* by number: 1 is the latest

bucket == <<avail, lag, phase>>

rvars == <<loop, closed, runq, timer, tickq, since, bucket, owed, starts>>

Off == -1

Never == MaxInterval + 1

AtMost(n, bound) == IF n < bound THEN n ELSE bound

\* The stop channel may be closed before Loop is called with it.
RunnerInit ==
  /\ loop = "init" /\ closed \in BOOLEAN /\ runq = FALSE
  /\ timer = Off /\ tickq = FALSE /\ since = Never
  /\ avail = Burst /\ lag = 0 /\ phase = 0
  /\ owed = FALSE /\ starts = <<>>

\* The request is dropped while the function runs.
DroppedWhileRunning ==
  /\ runq' = (runq \/ loop # "fn") /\ owed' = TRUE
  /\ UNCHANGED <<loop, closed, timer, tickq, since, bucket, starts>>

\* A request is dropped when one is in the channel.
Run ==
  /\ runq' = TRUE /\ owed' = TRUE
  /\ UNCHANGED <<loop, closed, timer, tickq, since, bucket, starts>>

CloseStop ==
  /\ ~closed /\ closed' = TRUE
  /\ UNCHANGED <<loop, runq, timer, tickq, since, bucket, owed, starts>>

\* The loop starts without setting the timer.
StartsWithoutTimer ==
  /\ loop = "init" /\ loop' = "select"
  /\ UNCHANGED <<closed, runq, timer, tickq, since, bucket, owed, starts>>

LoopStart ==
  /\ loop = "init" /\ loop' = "select" /\ timer' = MaxInterval
  /\ UNCHANGED <<closed, runq, tickq, since, bucket, owed, starts>>

stop ==
  /\ loop = "select" /\ closed
  /\ loop' = "done" /\ timer' = Off
  /\ UNCHANGED <<closed, runq, tickq, since, bucket, owed, starts>>

SelectTimer ==
  /\ loop = "select" /\ tickq
  /\ loop' = "try" /\ tickq' = FALSE
  /\ UNCHANGED <<closed, runq, timer, since, bucket, owed, starts>>

SelectRun ==
  /\ loop = "select" /\ runq
  /\ loop' = "try" /\ runq' = FALSE
  /\ UNCHANGED <<closed, timer, tickq, since, bucket, owed, starts>>

\* The bucket overflows.
UncappedTokens == avail + lag

\* A full bucket keeps the tick it was last adjusted at, so that the token it
\* gives can be back at once.
Adjusted == IF avail >= Burst THEN avail ELSE AtMost(avail + lag, Burst)

\* TakeAvailable(1) of the bucket; no limit without a minInterval.
TryAccept ==
  /\ IF MinInterval = 0 THEN UNCHANGED avail ELSE Adjusted > 0 /\ avail' = Adjusted - 1
  /\ lag' = IF MinInterval = 0 \/ avail >= Burst THEN lag ELSE 0
  /\ UNCHANGED phase

Refused ==
  /\ MinInterval # 0 /\ Adjusted = 0 /\ avail' = 0 /\ lag' = 0 /\ UNCHANGED phase

tryRunStart ==
  /\ loop = "try" /\ TryAccept
  /\ loop' = "fn" /\ owed' = FALSE
  /\ starts' = [i \in {1} \cup {i + 1 : i \in DOMAIN starts} |->
                  IF i = 1 THEN 0 ELSE starts[i - 1]]
  /\ UNCHANGED <<closed, runq, timer, tickq, since>>

\* The timer is stopped and not set again.
DoneWithoutReset ==
  /\ loop = "fn"
  /\ loop' = "select" /\ since' = 0 /\ timer' = Off
  /\ UNCHANGED <<closed, runq, tickq, bucket, owed, starts>>

tryRunDone ==
  /\ loop = "fn"
  /\ loop' = "select" /\ since' = 0 /\ timer' = MaxInterval
  /\ UNCHANGED <<closed, runq, tickq, bucket, owed, starts>>

\* The timer is set to the next possible run, unless that is when the periodic
\* run comes.  A tick that is in its channel stays there.
tryRunThrottled ==
  LET nextPossible  == MinInterval - since
      nextScheduled == MaxInterval - since
  IN  /\ loop = "try" /\ Refused
      /\ loop' = "select"
      /\ timer' = IF nextPossible < nextScheduled
                  THEN IF nextPossible > 0 THEN nextPossible ELSE 0
                  ELSE timer
      /\ UNCHANGED <<closed, runq, tickq, since, owed, starts>>

\* The channel has room for one tick, another one is dropped.
Fire ==
  /\ timer = 0 /\ timer' = Off /\ tickq' = TRUE
  /\ UNCHANGED <<loop, closed, runq, since, bucket, owed, starts>>

\* Time passes in every state.
Pass ==
  /\ timer' = IF timer > 0 THEN timer - 1 ELSE timer
  /\ since' = IF since < MaxInterval THEN since + 1 ELSE since
  /\ phase' = IF phase + 1 < MinInterval THEN phase + 1 ELSE 0
  /\ lag' = IF phase + 1 < MinInterval THEN lag ELSE AtMost(lag + 1, Burst)
  /\ starts' = [i \in {i \in DOMAIN starts : starts[i] + 1 < MinInterval} |-> starts[i] + 1]
  /\ UNCHANGED <<loop, closed, runq, tickq, avail, owed>>

LoopStep ==
  \/ LoopStart \/ stop \/ SelectTimer \/ SelectRun
  \/ tryRunStart \/ tryRunThrottled \/ tryRunDone

RunnerNext == Run \/ CloseStop \/ LoopStep \/ Fire \/ Pass

\* Go runs goroutines that are ready, the function returns, timers fire and time
\* passes; nobody has to call Run or to close the stop channel.
RunnerSpec ==
  /\ RunnerInit /\ [][RunnerNext]_rvars
  /\ WF_rvars(LoopStep) /\ WF_rvars(Fire) /\ WF_rvars(Pass)

-----------------------------------------------------------------------------

\* A deferred run: the timer fires no later than minInterval after the last run.
Deferred == timer # Off /\ (timer = 0 \/ timer + since <= MinInterval)

\* A request is never forgotten: until a run starts after it, it is in the
\* channel, about to be tried, or the timer brings it back as soon as a run is
\* possible, although requests are dropped, the timer is stopped and set again by
\* other runs, and ticks of earlier settings arrive late.
RequestRemembered ==
  owed /\ loop # "done" => runq \/ tickq \/ loop = "try" \/ Deferred

\* While Loop waits, the next periodic run is under way: a tick is in the channel
\* or the timer fires no later than maxInterval after the last run.
TimerArmed ==
  loop = "select" =>
    \/ tickq
    \/ timer # Off /\ (timer = 0 \/ since = Never \/ timer + since <= MaxInterval)

\* How far the runs exceed "up to bursts": a bucket that was full gives its first
\* token back at once, and a multiple of minInterval may fall between two runs, so
\* less than minInterval sees at most two runs more than burstRuns.
BurstBounded == MinInterval # 0 => DOMAIN starts \subseteq 1..(Burst + 2)

Promise == INSTANCE RunnerPromise WITH running <- loop = "fn"

\* The runner keeps its promise: runs are serialized, every request is followed by
\* a run that starts after it, and the function runs again and again until the
\* stop channel is closed.
RunnerKeepsPromise == Promise!PSpec

=============================================================================
