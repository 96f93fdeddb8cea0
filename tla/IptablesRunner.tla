--------------------------- MODULE IptablesRunner ---------------------------
(***************************************************************************)
(* The rule operations of pkg/util/iptables on one chain.  Callers of one  *)
(* process share a runner and its mutex; every iptables command is a step  *)
(* of its own, and other programs edit the chain between any two of them.  *)
(* The order of the rules in the chain is left out.                        *)
(***************************************************************************)
EXTENDS Naturals, Sequences, Functions

CONSTANTS
  Callers, IptRules, NoRule, NoChain, Nobody,
  Args,      \* the fields of a rule's arguments, without quotes and zeros after 0x
  SavedAs,   \* the fields of the line that iptables-save prints of it, after the chain
  MaxCopies, MaxForeign

ASSUME IptAssumption ==
  /\ Nobody \notin Callers /\ NoRule \notin IptRules
  /\ NoChain \notin [IptRules -> Nat] /\ MaxCopies \in Nat /\ MaxForeign \in Nat

VARIABLES
  chain,     \* how often each rule is in the chain, NoChain when it does not exist
  foreign,   \* history: how many of these copies other programs may have put there
  hasCheck,  \* iptables knows -C (1.4.11)
  longer,    \* the rules of a chain whose name begins with the name of this one
  mu,        \* the caller that holds runner.mu
  op         \* what each caller does: the operation, its rule and its next command

tvars == <<chain, foreign, hasCheck, longer, mu, op>>

Idle == [name |-> "none", rule |-> NoRule, step |-> "none"]

Empty == [r \in IptRules |-> 0]

Copies(ch, r) == IF ch = NoChain THEN 0 ELSE ch[r]

\* The chain is as earlier processes left it.
IptInit ==
  /\ chain \in {NoChain} \cup [IptRules -> {0, 1}]
  /\ foreign = [r \in IptRules |-> Copies(chain, r)]
  /\ hasCheck \in BOOLEAN /\ longer \in SUBSET IptRules
  /\ mu = Nobody /\ op = [c \in Callers |-> Idle]

RuleOps == {"EnsureRule", "DeleteRule"}

ChainOps == {"EnsureChain", "FlushChain", "DeleteChain"}

\* The mutex is left to the single commands.
CallWithoutMutex(c, name, r) ==
  /\ op[c] = Idle /\ UNCHANGED mu
  /\ op' = [op EXCEPT ![c] = [name |-> name, rule |-> r,
                              step |-> IF name \in RuleOps THEN "check" ELSE "run"]]
  /\ UNCHANGED <<chain, foreign, hasCheck, longer>>

Call(c, name, r) ==
  /\ op[c] = Idle /\ mu = Nobody /\ mu' = c
  /\ op' = [op EXCEPT ![c] = [name |-> name, rule |-> r,
                              step |-> IF name \in RuleOps THEN "check" ELSE "run"]]
  /\ UNCHANGED <<chain, foreign, hasCheck, longer>>

Return(c) == op' = [op EXCEPT ![c] = Idle] /\ mu' = Nobody

\* The line of rule l in the named chain passes for rule r: as many fields, and among
\* them, in whatever order, the arguments of r.
Passes(name, l, r) ==
  /\ Len(SavedAs[l]) = Len(Args[r])
  /\ Range(Args[r]) \subseteq Range(SavedAs[l]) \cup {"-A", name}

\* checkRuleWithoutCheck: a line of iptables-save that begins with "-A" and the name of
\* the chain, whatever follows the name.
FoundInSave(r) ==
  \/ \E l \in IptRules : Copies(chain, l) > 0 /\ Passes("chain", l, r)
  \/ \E l \in longer : Passes("longer", l, r)

RuleFound(r) == IF hasCheck THEN Copies(chain, r) > 0 ELSE FoundInSave(r)

\* The rule need not be deleted when it exists.
DoneIfExists(o) == RuleFound(o.rule)

\* EnsureRule has nothing to do when the rule exists, DeleteRule when it does not.
NothingToDo(o) == IF o.name = "EnsureRule" THEN RuleFound(o.rule) ELSE ~RuleFound(o.rule)

checkRule(c) ==
  /\ op[c].step = "check"
  /\ IF NothingToDo(op[c]) THEN Return(c)
     ELSE op' = [op EXCEPT ![c].step = "run"] /\ UNCHANGED mu
  /\ UNCHANGED <<chain, foreign, hasCheck, longer>>

\* What the command makes of the chain; exit status 1 leaves it as it is.
Edited(o) ==
  CASE o.name = "EnsureChain" -> IF chain = NoChain THEN Empty ELSE chain
    [] o.name = "FlushChain"  -> IF chain = NoChain THEN NoChain ELSE Empty
    [] o.name = "DeleteChain" -> IF chain = Empty THEN NoChain ELSE chain
    [] o.name = "EnsureRule"  -> IF chain = NoChain THEN NoChain
                                 ELSE [chain EXCEPT ![o.rule] = @ + 1]
    [] o.name = "DeleteRule"  -> IF Copies(chain, o.rule) = 0 THEN chain
                                 ELSE [chain EXCEPT ![o.rule] = @ - 1]

\* No more copies than there are can be foreign.
ForeignAmong(ch) ==
  [r \in IptRules |-> IF foreign[r] <= Copies(ch, r) THEN foreign[r] ELSE Copies(ch, r)]

runCommand(c) ==
  /\ op[c].step = "run" /\ Return(c)
  /\ \A r \in IptRules : Copies(Edited(op[c]), r) <= MaxCopies
  /\ chain' = Edited(op[c]) /\ foreign' = ForeignAmong(chain')
  /\ UNCHANGED <<hasCheck, longer>>

\* A command fails for another reason: the error is returned.
commandFails(c) ==
  /\ op[c].step \in {"check", "run"} /\ Return(c)
  /\ UNCHANGED <<chain, foreign, hasCheck, longer>>

\* Another program, which may be another process with a runner, adds or deletes a rule,
\* flushes the chain, deletes it or creates it.
OtherAdds(r) ==
  /\ chain # NoChain /\ chain[r] < MaxCopies /\ foreign[r] < MaxForeign
  /\ chain' = [chain EXCEPT ![r] = @ + 1] /\ foreign' = [foreign EXCEPT ![r] = @ + 1]
  /\ UNCHANGED <<hasCheck, longer, mu, op>>

OtherDeletes(r) ==
  /\ Copies(chain, r) > 0 /\ chain' = [chain EXCEPT ![r] = @ - 1]
  /\ foreign' = ForeignAmong(chain') /\ UNCHANGED <<hasCheck, longer, mu, op>>

OtherClears ==
  /\ chain' \in {NoChain, Empty} /\ foreign' = Empty /\ UNCHANGED <<hasCheck, longer, mu, op>>

IptNext ==
  \/ \E c \in Callers :
       \/ \E name \in RuleOps, r \in IptRules : Call(c, name, r)
       \/ \E name \in ChainOps : Call(c, name, NoRule)
       \/ checkRule(c) \/ runCommand(c) \/ commandFails(c)
  \/ \E r \in IptRules : OtherAdds(r) \/ OtherDeletes(r)
  \/ OtherClears

IptSpec == IptInit /\ [][IptNext]_tvars

-----------------------------------------------------------------------------

\* iptables-save prints the rule with the fields it was given: its own line passes.
Recognised(r) == hasCheck \/ Passes("chain", r, r)

\* Without -C, the line of another rule or of the longer-named chain can pass for it.
Mistakable(r) ==
  /\ ~hasCheck
  /\ \/ \E l \in IptRules \ {r} : Passes("chain", l, r)
     \/ \E l \in longer : Passes("longer", l, r)

\* Callers that ensure the same rule at once do not add it twice, since the check and the
\* command that follows it are one under the mutex of the runner: of all copies in the
\* chain one at most is theirs, whatever other programs add between the two.  A rule that
\* is not recognised in the output of iptables-save is added again and again.
RuleAtMostOnce ==
  \A r \in IptRules : Recognised(r) => Copies(chain, r) <= foreign[r] + 1

\* EnsureRule returns without an error only with the rule in the chain, except that
\* without -C a line that passes for the rule is enough: the TODO of
\* checkRuleWithoutCheck names reordered arguments, and the chain may be a longer-named one.
EnsuredRuleIsThere ==
  [][\A c \in Callers :
       /\ op[c].name = "EnsureRule" /\ op'[c] = Idle
       /\ checkRule(c) \/ (runCommand(c) /\ chain # NoChain)
       /\ ~Mistakable(op[c].rule)
       => Copies(chain', op[c].rule) > 0]_tvars

\* DeleteRule that returns without an error leaves no copy of a rule that is recognised,
\* although -D deletes one copy only, unless other programs added copies of their own.
DeletedRuleIsGone ==
  [][\A c \in Callers :
       /\ op[c].name = "DeleteRule" /\ op'[c] = Idle /\ (checkRule(c) \/ runCommand(c))
       /\ Recognised(op[c].rule)
       => Copies(chain', op[c].rule) <= foreign'[op[c].rule]]_tvars

=============================================================================
