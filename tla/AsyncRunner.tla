---------------------------- MODULE AsyncRunner ----------------------------
(***************************************************************************)
(* pkg/util/async/runner.go: loop functions that run until the channel     *)
(* they were started with is closed.                                       *)
(***************************************************************************)
EXTENDS Naturals

CONSTANTS loopFuncs, NilChan, MaxChans

ASSUME NilChanAssumption == NilChan \notin Nat

VARIABLES
  stopChan,    \* Runner.stop: the channel of the last Start, NilChan after Stop
  chans,       \* how many channels were made
  chanClosed,  \* the channels that are closed
  goroutines   \* the loops that have not returned: <<channel, function>>

avars == <<stopChan, chans, chanClosed, goroutines>>

AsyncInit == stopChan = NilChan /\ chans = 0 /\ chanClosed = {} /\ goroutines = {}

\* Every Start starts the loops.
StartsAgain ==
  /\ chans < MaxChans
  /\ chans' = chans + 1 /\ stopChan' = chans + 1
  /\ goroutines' = goroutines \cup {<<chans + 1, f>> : f \in loopFuncs}
  /\ UNCHANGED chanClosed

\* A Start of a runner that is started changes nothing.
Start ==
  /\ chans < MaxChans /\ stopChan = NilChan
  /\ chans' = chans + 1 /\ stopChan' = chans + 1
  /\ goroutines' = goroutines \cup {<<chans + 1, f>> : f \in loopFuncs}
  /\ UNCHANGED chanClosed

Stop ==
  /\ stopChan # NilChan
  /\ chanClosed' = chanClosed \cup {stopChan} /\ stopChan' = NilChan
  /\ UNCHANGED <<chans, goroutines>>

LoopReturns ==
  \E g \in goroutines : g[1] \in chanClosed /\ goroutines' = goroutines \ {g}
                        /\ UNCHANGED <<stopChan, chans, chanClosed>>

AsyncNext == Start \/ Stop \/ LoopReturns

AsyncSpec == AsyncInit /\ [][AsyncNext]_avars

-----------------------------------------------------------------------------

\* However often Start and Stop are called, and however slowly loops return, the next
\* Stop reaches every loop that was not told to return.
LoopsStoppable == \A g \in goroutines : g[1] \in chanClosed \/ g[1] = stopChan

=============================================================================
