----------------------------- MODULE MCLibrary -----------------------------
(***************************************************************************)
(* The packages beside the proxy, one at a time: part says which of them   *)
(* this behaviour is about, the others stay in an initial state.           *)
(***************************************************************************)
EXTENDS BoundedFrequencyRunner, AsyncRunner, HealthCheck, Watchers, IptablesRunner,
        XtablesLocks, FirewalldSignals, Version, SaveFile, TLC

VARIABLE part

lvars == <<part, rvars, avars, hvars, wvars, tvars, xvars, fvars, vvars, svars>>

Word(rank) == [digits |-> FALSE, value |-> 0, text |-> rank, zeroed |-> FALSE]

Number(n, rank) == [digits |-> TRUE, value |-> n, text |-> rank, zeroed |-> FALSE]

\* 2 comes before 10 as a number and after it as a string; 100 is too large; the first word
\* begins with a dash and comes before all digits.
Two == Number(2, 20)

Ten == Number(10, 10)

Hundred == Number(100, 11)

MCIdentifiers ==
  {Two, Ten, Hundred, [Two EXCEPT !.zeroed = TRUE, !.text = 5], Word(0), Word(30), Word(40)}

Plain(numbers) == [numbers |-> numbers, zeroed |-> {}, pre |-> <<>>, malformed |-> FALSE]

PreRelease(ids) == [Plain(<<1, 4, 11>>) EXCEPT !.pre = ids]

MCTexts ==
  {Plain(n) : n \in {<<>>, <<1>>, <<1, 4>>, <<1, 6>>, <<1, 4, 0>>, <<1, 4, 10>>, <<1, 4, 11>>,
                     <<1, 4, 20>>, <<1, 4, 19>>, <<1, 3, 30>>, <<1, 6, 0>>, <<2, 0, 0>>,
                     <<1, 4, 0, 1>>, <<1, 4, 100>>}}
  \cup {PreRelease(<<i>>) : i \in MCIdentifiers}
  \cup {PreRelease(<<Word(40), i>>) : i \in {Two, Ten}}
  \cup {[Plain(<<1, 4, 11>>) EXCEPT !.zeroed = {i}] : i \in {1, 2}}
  \cup {[Plain(<<1, 4, 11>>) EXCEPT !.malformed = TRUE]}

\* r2 is r1 with its arguments reordered; iptables-save prints the address of r3 with a mask.
MCArgs == ("r1" :> <<"-x", "foo", "!", "-y", "bar">>) @@ ("r2" :> <<"!", "-x", "foo", "-y", "bar">>)
          @@ ("r3" :> <<"-s", "10.0.0.1">>)

MCSavedAs == [MCArgs EXCEPT !["r3"] = <<"-s", "10.0.0.1/32">>]

Parts == {"runner", "async", "health", "watchers", "iptables", "locks", "firewalld", "version", "save"}

\* A runner that is not looked at was stopped before it started.
Init ==
  /\ part \in Parts
  /\ part = "runner"    \/ closed = TRUE
  /\ part = "health"    \/ busy = {}
  /\ part = "iptables"  \/ (chain = NoChain /\ hasCheck = TRUE /\ longer = {})
  /\ part = "firewalld" \/ fw = "down"
  /\ part = "version"   \/ (v = parse(Plain(<<1, 4>>), FALSE) /\ other = Plain(<<1, 4>>))
  /\ part = "save"      \/ (bytes = <<>> /\ save = <<>>)
  /\ RunnerInit /\ AsyncInit /\ HealthInit /\ WatchInit /\ IptInit /\ LocksInit /\ FwInit
  /\ VersionInit /\ SaveInit

RunnerPart(A) ==
  part = "runner" /\ A /\ UNCHANGED <<part, avars, hvars, wvars, tvars, xvars, fvars, vvars, svars>>

AsyncPart ==
  part = "async" /\ AsyncNext /\ UNCHANGED <<part, rvars, hvars, wvars, tvars, xvars, fvars, vvars, svars>>

HealthPart ==
  part = "health" /\ HealthNext /\ UNCHANGED <<part, rvars, avars, wvars, tvars, xvars, fvars, vvars, svars>>

WatchPart ==
  part = "watchers" /\ WatchNext /\ UNCHANGED <<part, rvars, avars, hvars, tvars, xvars, fvars, vvars, svars>>

IptPart ==
  part = "iptables" /\ IptNext /\ UNCHANGED <<part, rvars, avars, hvars, wvars, xvars, fvars, vvars, svars>>

LocksPart ==
  part = "locks" /\ LocksNext /\ UNCHANGED <<part, rvars, avars, hvars, wvars, tvars, fvars, vvars, svars>>

FwPart ==
  part = "firewalld" /\ FwNext /\ UNCHANGED <<part, rvars, avars, hvars, wvars, tvars, xvars, vvars, svars>>

VersionPart ==
  part = "version" /\ VersionNext /\ UNCHANGED <<part, rvars, avars, hvars, wvars, tvars, xvars, fvars, svars>>

SavePart ==
  part = "save" /\ SaveNext /\ UNCHANGED <<part, rvars, avars, hvars, wvars, tvars, xvars, fvars, vvars>>

Next ==
  \/ RunnerPart(RunnerNext) \/ AsyncPart \/ HealthPart \/ WatchPart \/ IptPart
  \/ LocksPart \/ FwPart \/ VersionPart \/ SavePart

\* The fairness of RunnerSpec.
FairSpec ==
  /\ Init /\ [][Next]_lvars
  /\ WF_lvars(RunnerPart(LoopStep)) /\ WF_lvars(RunnerPart(Fire)) /\ WF_lvars(RunnerPart(Pass))

=============================================================================
