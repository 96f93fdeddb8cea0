----------------------------- MODULE Masquerade -----------------------------
(***************************************************************************)
(* The masquerade rules in the nat table's POSTROUTING chain, and what     *)
(* --cleanup-config removes: EnsureIPtablesMASQ and CleanupLeftovers of    *)
(* proxier.go over the iptables wrapper of go-iptables.                    *)
(*                                                                         *)
(* One process of the binary runs at a time, as the server or to clean up. *)
(* Other programs edit the chain at any time; their rules do not mention   *)
(* both ipvs and MASQUERADE.  An iptables command is atomic, does not      *)
(* outlive the process, and knows -C and --wait (1.4.20 or later).         *)
(***************************************************************************)
EXTENDS Integers, Sequences

CONSTANTS
  MasqRules,  \* the rules that EnsureIPtablesMASQ may ask for
  Configs,    \* for each setting of the flags, the rules it asks for in order
  OtherRules, \* rules of other programs
  MaxStarts,  \* bound on the processes of a behaviour
  MaxEdits,   \* bound on the edits of other programs
  MaxFaults   \* bound on the failing commands

ASSUME RulesAssumption == MasqRules \cap OtherRules = {}

ASSUME ConfigsAssumption == Configs \subseteq Seq(MasqRules)

ASSUME MasqBoundAssumption == MaxStarts \in Nat /\ MaxEdits \in Nat /\ MaxFaults \in Nat

VARIABLES
  pc,        \* where the process is, or "off"
  config,    \* the rules that the flags of the server ask for
  todo,      \* the rules that EnsureIPtablesMASQ has left
  absent,    \* Exists has answered that the first of them is not there
  chain,     \* the rules of POSTROUTING
  doomed,    \* the positions that cleanUpIptablesMASQ has left to delete
  ipvs,      \* the IPVS table has rules
  dummy,     \* the dummy link is there
  placed,    \* the rules that other programs have put in the chain
  disturbed, \* a cleanup met several masquerade rules, an edit or a fault
  starts, edits, faults

procVars == <<pc, config, todo, absent, doomed>>
vars == <<procVars, chain, ipvs, dummy, placed, disturbed, starts, edits, faults>>

\* The server: in EnsureIPtablesMASQ at the start of the loop, waiting for the
\* ticker, in a tick (first EnsureIPtablesMASQ, then syncProxyRules), or with its
\* loop ended.  Then the steps of a cleanup.
Serving == {"start", "idle", "tick", "sync", "ended"}

Cleaning == {"list", "delete", "flush", "unlink"}

RulesOf(c) == {c[i] : i \in 1..Len(c)}

Init ==
  /\ pc = "off" /\ config = <<>> /\ todo = <<>> /\ absent = FALSE /\ chain = <<>>
  /\ doomed = {} /\ ipvs = FALSE /\ dummy = FALSE
  /\ placed = {} /\ disturbed = FALSE
  /\ starts = 0 /\ edits = 0 /\ faults = 0

Fault == faults < MaxFaults /\ faults' = faults + 1

-----------------------------------------------------------------------------
(* The process *)

Start(c) ==
  /\ pc = "off" /\ starts < MaxStarts
  /\ starts' = starts + 1
  /\ pc' = "start" /\ config' = c /\ todo' = c
  /\ UNCHANGED <<absent, doomed, chain, ipvs, dummy, placed, disturbed, edits, faults>>

\* With --cleanup-config.
CleanUpAndExit ==
  /\ pc = "off" /\ starts < MaxStarts
  /\ starts' = starts + 1
  /\ pc' = "list"
  /\ UNCHANGED <<config, todo, absent, doomed, chain, ipvs, dummy, placed,
                 disturbed, edits, faults>>

\* The process is killed.
Kill ==
  /\ pc # "off"
  /\ pc' = "off" /\ config' = <<>> /\ todo' = <<>> /\ absent' = FALSE
  /\ doomed' = {}
  /\ UNCHANGED <<chain, ipvs, dummy, placed, disturbed, starts, edits, faults>>

-----------------------------------------------------------------------------
(* The server *)

\* A tick syncs and leaves the chain alone.
TickWithoutEnsure ==
  /\ pc = "idle"
  /\ pc' = "tick" /\ todo' = <<>>
  /\ UNCHANGED <<config, absent, doomed, chain, ipvs, dummy, placed, disturbed,
                 starts, edits, faults>>

Tick ==
  /\ pc = "idle"
  /\ pc' = "tick" /\ todo' = config
  /\ UNCHANGED <<config, absent, doomed, chain, ipvs, dummy, placed, disturbed,
                 starts, edits, faults>>

Ensuring == pc \in {"start", "tick"} /\ todo # <<>>

NeverExists(r) == FALSE

Exists(r) == r \in RulesOf(chain)

\* PrependUnique: first the check.
EnsureCheck ==
  /\ Ensuring /\ ~absent
  /\ IF Exists(Head(todo))
     THEN todo' = Tail(todo) /\ UNCHANGED absent
     ELSE absent' = TRUE /\ UNCHANGED todo
  /\ UNCHANGED <<pc, config, doomed, chain, ipvs, dummy, placed, disturbed,
                 starts, edits, faults>>

\* Then the insertion.
EnsurePrepend ==
  /\ Ensuring /\ absent
  /\ chain' = <<Head(todo)>> \o chain
  /\ todo' = Tail(todo) /\ absent' = FALSE
  /\ UNCHANGED <<pc, config, doomed, ipvs, dummy, placed, disturbed, starts,
                 edits, faults>>

\* A command fails, or there is no iptables: the loop ends if it is at its start; a
\* tick goes on to syncProxyRules.
EnsureFail ==
  /\ pc \in {"start", "tick"} /\ (todo # <<>> \/ config = <<>>)
  /\ Fault
  /\ pc' = IF pc = "start" THEN "ended" ELSE "sync"
  /\ todo' = <<>> /\ absent' = FALSE
  /\ UNCHANGED <<config, doomed, chain, ipvs, dummy, placed, disturbed, starts, edits>>

EnsureDone ==
  /\ pc \in {"start", "tick"} /\ todo = <<>>
  /\ pc' = IF pc = "start" THEN "idle" ELSE "sync"
  /\ UNCHANGED <<config, todo, absent, doomed, chain, ipvs, dummy, placed,
                 disturbed, starts, edits, faults>>

\* What syncProxyRules leaves depends on the services and on how far it gets; it
\* never deletes the link.
syncProxyRules ==
  /\ ipvs' \in BOOLEAN /\ dummy' \in {dummy, TRUE}
  /\ UNCHANGED <<config, todo, absent, doomed, chain, placed, disturbed, starts,
                 edits, faults>>

\* The end of a tick.
Sync == pc = "sync" /\ pc' = "idle" /\ syncProxyRules

\* A callback syncs, whatever the loop does.
Callback == pc \in Serving /\ UNCHANGED pc /\ syncProxyRules

-----------------------------------------------------------------------------
(* CleanupLeftovers *)

\* The policy is counted too.
MatchingAndPolicy == {i \in 2..(Len(chain) + 1) : chain[i - 1] \in MasqRules}

\* The chain is listed with its policy as line 0, so that a line's index is the
\* number of its rule.  The rules to delete are those that mention ipvs and
\* MASQUERADE.
Matching == {i \in 1..Len(chain) : chain[i] \in MasqRules}

cleanUpList ==
  /\ pc = "list"
  /\ pc' = "delete" /\ doomed' = Matching
  /\ disturbed' = (disturbed \/ \E i, j \in Matching : i # j)
  /\ UNCHANGED <<config, todo, absent, chain, ipvs, dummy, placed, starts, edits, faults>>

\* The list is gone through in order.
IsNext(i) == i \in doomed /\ \A j \in doomed : i <= j

DeleteNumber(c, i) == [k \in 1..(Len(c) - 1) |-> IF k < i THEN c[k] ELSE c[k + 1]]

\* Rules are deleted by the number they had in the list.
cleanUpDelete(i) ==
  /\ pc = "delete" /\ IsNext(i) /\ i <= Len(chain)
  /\ chain' = DeleteNumber(chain, i)
  /\ doomed' = doomed \ {i}
  /\ UNCHANGED <<pc, config, todo, absent, ipvs, dummy, placed, disturbed, starts,
                 edits, faults>>

\* There is no such number: the rest of the rules stays.
cleanUpNoSuchRule(i) ==
  /\ pc = "delete" /\ IsNext(i) /\ i > Len(chain)
  /\ pc' = "flush" /\ doomed' = {}
  /\ UNCHANGED <<config, todo, absent, chain, ipvs, dummy, placed, disturbed,
                 starts, edits, faults>>

cleanUpFail ==
  /\ pc = "list" \/ (pc = "delete" /\ doomed # {})
  /\ Fault
  /\ pc' = "flush" /\ doomed' = {} /\ disturbed' = TRUE
  /\ UNCHANGED <<config, todo, absent, chain, ipvs, dummy, placed, starts, edits>>

cleanUpMasqDone ==
  /\ pc = "delete" /\ doomed = {}
  /\ pc' = "flush"
  /\ UNCHANGED <<config, todo, absent, doomed, chain, ipvs, dummy, placed,
                 disturbed, starts, edits, faults>>

\* What went wrong with the chain is ignored.
cleanUpIpvs ==
  /\ pc = "flush"
  /\ \/ ipvs' = FALSE /\ UNCHANGED <<faults, disturbed>>
     \/ Fault /\ UNCHANGED ipvs /\ disturbed' = TRUE
  /\ pc' = "unlink"
  /\ UNCHANGED <<config, todo, absent, doomed, chain, dummy, placed, starts, edits>>

cleanUpDummyLink ==
  /\ pc = "unlink"
  /\ \/ dummy' = FALSE /\ UNCHANGED <<faults, disturbed>>
     \/ Fault /\ UNCHANGED dummy /\ disturbed' = TRUE
  /\ pc' = "off"
  /\ UNCHANGED <<config, todo, absent, doomed, chain, ipvs, placed, starts, edits>>

-----------------------------------------------------------------------------
(* Other programs *)

OtherEdit ==
  /\ edits < MaxEdits /\ edits' = edits + 1
  /\ disturbed' = (disturbed \/ pc = "delete")
  /\ UNCHANGED <<procVars, ipvs, dummy, starts, faults>>

OtherInsert(r) ==
  /\ OtherEdit
  /\ r \notin placed /\ placed' = placed \cup {r}
  /\ chain' \in {<<r>> \o chain, Append(chain, r)}

\* A firewall that is restarted empties the chain.
OtherFlush == OtherEdit /\ placed' = {} /\ chain' = <<>>

-----------------------------------------------------------------------------

Ensure == EnsureCheck \/ EnsurePrepend \/ EnsureFail \/ EnsureDone

CleanupLeftovers ==
  \/ cleanUpList \/ (\E i \in doomed : cleanUpDelete(i) \/ cleanUpNoSuchRule(i))
  \/ cleanUpFail \/ cleanUpMasqDone \/ cleanUpIpvs \/ cleanUpDummyLink

Next ==
  \/ (\E c \in Configs : Start(c)) \/ CleanUpAndExit \/ Kill
  \/ Tick \/ Ensure \/ Sync \/ Callback \/ CleanupLeftovers
  \/ (\E r \in OtherRules : OtherInsert(r)) \/ OtherFlush

Spec == Init /\ [][Next]_vars

\* The process runs and the ticker ticks.
FairSpec ==
  /\ Spec
  /\ WF_vars(Tick) /\ WF_vars(Ensure) /\ WF_vars(Sync) /\ WF_vars(CleanupLeftovers)

-----------------------------------------------------------------------------
(* Properties *)

\* No masquerade rule is in the chain twice, however often the server is started
\* and killed between the check and the insertion of PrependUnique, and whenever
\* other programs flush the chain or insert rules of their own.
NoDuplicateMasq ==
  \A i, j \in 1..Len(chain) : chain[i] = chain[j] /\ chain[i] \in MasqRules => i = j

\* A cleanup that meets one masquerade rule at most, is not disturbed and does not
\* fail leaves none and no IPVS rule, and as long as all cleanups were so the rules
\* of other programs are those they have placed: none was deleted by a stale number.
CleanupExact ==
  ~disturbed =>
    /\ RulesOf(chain) \cap OtherRules = placed
    /\ pc \in {"flush", "unlink"} => RulesOf(chain) \cap MasqRules = {}
    /\ pc = "unlink" => ~ipvs

\* Once the edits, faults and starts stop, a server whose loop runs has its
\* masquerade rules in the chain: a tick puts back what another program flushed.
MasqConverges ==
  <>[](pc \in {"idle", "tick", "sync"} => RulesOf(config) \subseteq RulesOf(chain))

\* "If true cleanup all ipvs/iptables/ipaddress rules and exit." (options.go:51):
\* a cleanup in which no command failed has left no masquerade rule behind.
CleanupComplete ==
  pc = "unlink" /\ faults = 0 => RulesOf(chain) \cap MasqRules = {}

=============================================================================
