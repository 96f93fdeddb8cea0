-------------------------- MODULE IptablesProofs --------------------------
(***************************************************************************)
(* Proofs about the rules of one chain, for any number of callers that     *)
(* share a runner, for any rules of theirs and whatever iptables-save      *)
(* prints of them, with and without -C.                                    *)
(***************************************************************************)
EXTENDS IptablesRunner, TLAPS

Chains == {NoChain} \cup [IptRules -> Nat]

Ops ==
  {Idle} \cup [name: RuleOps, rule: IptRules, step: {"check", "run"}]
         \cup [name: ChainOps, rule: {NoRule}, step: {"run"}]

IptTypes ==
  /\ chain \in Chains /\ foreign \in [IptRules -> Nat]
  /\ hasCheck \in BOOLEAN /\ longer \subseteq IptRules
  /\ mu \in Callers \cup {Nobody} /\ op \in [Callers -> Ops]

\* The caller that is about to add a rule looked for it under the mutex: all copies that
\* are there were added since, by other programs.
CheckedIsAbsent ==
  \A c \in Callers :
    op[c].name = "EnsureRule" /\ op[c].step = "run" /\ Recognised(op[c].rule)
      => Copies(chain, op[c].rule) <= foreign[op[c].rule]

IptInv ==
  /\ IptTypes /\ RuleAtMostOnce /\ CheckedIsAbsent
  /\ \A c \in Callers : op[c] # Idle => mu = c

\* The copies of a rule are a number.
LEMMA CopiesType ==
  ASSUME NEW ch \in Chains, NEW r \in IptRules
  PROVE  Copies(ch, r) \in Nat
BY DEF Chains, Copies

\* A rule that is recognised and was not found is not in the chain.
LEMMA NotFoundIsAbsent ==
  ASSUME IptTypes, NEW r \in IptRules, Recognised(r), ~RuleFound(r)
  PROVE  Copies(chain, r) = 0
<1>1. Copies(chain, r) \in Nat
  BY CopiesType DEF IptTypes
<1>2. ~(Copies(chain, r) > 0)
  BY Zenon DEF Recognised, RuleFound, FoundInSave
<1> QED BY <1>1, <1>2

\* Foreign copies are no more than before and no more than there are.
LEMMA ForeignAmongIs ==
  ASSUME IptTypes, NEW ch \in Chains
  PROVE  /\ ForeignAmong(ch) \in [IptRules -> Nat]
         /\ \A r \in IptRules :
              ForeignAmong(ch)[r] = IF foreign[r] <= Copies(ch, r) THEN foreign[r]
                                    ELSE Copies(ch, r)
BY CopiesType DEF ForeignAmong, IptTypes

\* A command adds a copy of its own rule at most.
LEMMA EditedIs ==
  ASSUME IptTypes, NEW o \in Ops, o.step = "run"
  PROVE  /\ Edited(o) \in Chains
         /\ \A r \in IptRules :
              \/ Copies(Edited(o), r) <= Copies(chain, r)
              \/ /\ o.name = "EnsureRule" /\ o.rule = r
                 /\ Copies(Edited(o), r) = Copies(chain, r) + 1
         /\ o.name = "EnsureRule" /\ chain # NoChain => Copies(Edited(o), o.rule) > 0
         /\ o.name = "DeleteRule" =>
              \/ Copies(Edited(o), o.rule) = 0
              \/ Copies(Edited(o), o.rule) = Copies(chain, o.rule) - 1
<1> USE IptAssumption DEF IptTypes, Chains, Copies
<1>1. Empty \in Chains /\ \A r \in IptRules : Copies(Empty, r) = 0
  BY DEF Empty
<1>2. CASE o.name \in ChainOps
  <2>1. Edited(o) \in {NoChain, Empty, chain}
    BY <1>2 DEF ChainOps, Edited
  <2>2. \A r \in IptRules : Copies(chain, r) \in Nat /\ Copies(NoChain, r) = 0
    OBVIOUS
  <2>3. o.name \notin {"EnsureRule", "DeleteRule"}
    BY <1>2 DEF ChainOps
  <2> HIDE DEF Copies
  <2> QED BY <1>1, <2>1, <2>2, <2>3
<1>3. CASE o.name = "EnsureRule"
  <2>1. o.rule \in IptRules
    BY <1>3 DEF Ops, Idle, ChainOps
  <2>2. Edited(o) = IF chain = NoChain THEN NoChain ELSE [chain EXCEPT ![o.rule] = @ + 1]
    BY <1>3 DEF Edited
  <2> QED BY <1>3, <2>1, <2>2
<1>4. CASE o.name = "DeleteRule"
  <2>1. o.rule \in IptRules
    BY <1>4 DEF Ops, Idle, ChainOps
  <2>2. Edited(o) = IF Copies(chain, o.rule) = 0 THEN chain
                    ELSE [chain EXCEPT ![o.rule] = @ - 1]
    BY <1>4 DEF Edited
  <2> QED BY <1>4, <2>1, <2>2
<1> QED BY <1>2, <1>3, <1>4 DEF Ops, Idle, RuleOps

-----------------------------------------------------------------------------

\* The chain an earlier process left holds foreign rules only.
LEMMA IptInvInit == IptInit => IptInv
<1> SUFFICES ASSUME IptInit PROVE IptInv OBVIOUS
<1>1. chain \in Chains
  BY DEF IptInit, Chains
<1>2. \A r \in IptRules : foreign[r] = Copies(chain, r) /\ Copies(chain, r) \in Nat
  BY <1>1, CopiesType DEF IptInit
<1>3. IptTypes
  BY <1>1, <1>2 DEF IptInit, IptTypes, Ops
<1>4. RuleAtMostOnce
  BY <1>2 DEF RuleAtMostOnce
<1>5. \A c \in Callers : op[c] = Idle
  BY DEF IptInit
<1>6. CheckedIsAbsent
  BY <1>5 DEF CheckedIsAbsent, Idle
<1> QED BY <1>3, <1>4, <1>5, <1>6 DEF IptInv

\* The operations of the callers are of their types.
LEMMA OpFacts ==
  ASSUME IptTypes, NEW c \in Callers, op[c].step \in {"check", "run"}
  PROVE  /\ op[c] \in Ops /\ op[c] # Idle
         /\ op[c].step = "check" => op[c].name \in RuleOps
         /\ op[c].name \in RuleOps => op[c].rule \in IptRules
BY DEF IptTypes, Ops, Idle, RuleOps, ChainOps

\* Nobody but the holder of the mutex has an operation, so nobody has one afterwards.
LEMMA ReturnedIdle ==
  ASSUME IptInv, NEW c \in Callers, op[c].step \in {"check", "run"}, Return(c)
  PROVE  /\ mu' = Nobody /\ \A d \in Callers : op'[d] = Idle
         /\ op' \in [Callers -> Ops]
<1>1. op[c] # Idle
  BY OpFacts DEF IptInv
<1>2. \A d \in Callers \ {c} : op[d] = Idle
  BY <1>1, Zenon DEF IptInv
<1> QED BY <1>2 DEF Return, IptInv, IptTypes, Ops

\* A call takes the mutex and looks at nothing.
LEMMA CallInv ==
  ASSUME IptInv, NEW c \in Callers,
         NEW name \in RuleOps \cup ChainOps, NEW r \in IptRules \cup {NoRule},
         name \in RuleOps <=> r \in IptRules, Call(c, name, r)
  PROVE  IptInv'
<1> DEFINE o == [name |-> name, rule |-> r, step |-> IF name \in RuleOps THEN "check" ELSE "run"]
<1>1. /\ mu = Nobody /\ mu' = c /\ op' = [op EXCEPT ![c] = o]
      /\ UNCHANGED <<chain, foreign, hasCheck, longer>>
  BY Zenon DEF Call
<1>2. o \in Ops
  BY DEF Ops
<1>3. \A d \in Callers : op[d] = Idle
  BY <1>1, IptAssumption DEF IptInv
<1>4. ~(o.name = "EnsureRule" /\ o.step = "run")
  BY DEF RuleOps
<1> HIDE DEF o
<1>5. op' \in [Callers -> Ops] /\ op'[c] = o /\ \A d \in Callers \ {c} : op'[d] = Idle
  BY <1>1, <1>2, <1>3 DEF IptInv, IptTypes
<1>6. IptTypes'
  BY <1>1, <1>5 DEF IptInv, IptTypes
<1>7. RuleAtMostOnce'
  BY <1>1 DEF IptInv, RuleAtMostOnce, Recognised
<1>8. CheckedIsAbsent'
  BY <1>4, <1>5 DEF CheckedIsAbsent, Idle
<1> QED BY <1>1, <1>5, <1>6, <1>7, <1>8 DEF IptInv

\* After the check, the caller has returned or its rule is not there.
LEMMA CheckInv ==
  ASSUME IptInv, NEW c \in Callers, checkRule(c)
  PROVE  IptInv'
<1>1. op[c].step = "check" /\ UNCHANGED <<chain, foreign, hasCheck, longer>>
  BY DEF checkRule
<1>2. /\ op[c] \in Ops /\ op[c] # Idle /\ op[c].rule \in IptRules /\ op[c].name \in RuleOps
  BY <1>1, OpFacts DEF IptInv
<1>3. RuleAtMostOnce' /\ \A r : Recognised(r)' <=> Recognised(r)
  BY <1>1 DEF IptInv, RuleAtMostOnce, Recognised
<1>4. CASE NothingToDo(op[c])
  <2>1. Return(c)
    BY <1>4 DEF checkRule
  <2>2. mu' = Nobody /\ (\A d \in Callers : op'[d] = Idle) /\ op' \in [Callers -> Ops]
    BY <1>1, <2>1, ReturnedIdle
  <2>3. IptTypes'
    BY <1>1, <2>2 DEF IptInv, IptTypes
  <2>4. CheckedIsAbsent'
    BY <2>2 DEF CheckedIsAbsent, Idle
  <2> QED BY <1>3, <2>2, <2>3, <2>4 DEF IptInv
<1>5. CASE ~NothingToDo(op[c])
  <2>1. op' = [op EXCEPT ![c].step = "run"] /\ mu' = mu
    BY <1>5 DEF checkRule
  <2>2. /\ op'[c] \in Ops /\ op'[c].name = op[c].name /\ op'[c].rule = op[c].rule
        /\ op'[c] # Idle
    BY <1>2, <2>1 DEF IptInv, IptTypes, Ops, Idle, RuleOps, ChainOps
  <2>3. op' \in [Callers -> Ops] /\ \A d \in Callers \ {c} : op'[d] = op[d]
    BY <2>1, <2>2 DEF IptInv, IptTypes
  <2>4. IptTypes'
    BY <1>1, <2>1, <2>3 DEF IptInv, IptTypes
  <2>5. ASSUME op[c].name = "EnsureRule", Recognised(op[c].rule)
        PROVE  Copies(chain, op[c].rule) <= foreign[op[c].rule]
    <3>1. ~RuleFound(op[c].rule)
      BY <1>5, <2>5 DEF NothingToDo
    <3>2. Copies(chain, op[c].rule) = 0
      BY <1>2, <2>5, <3>1, NotFoundIsAbsent DEF IptInv
    <3>3. foreign[op[c].rule] \in Nat
      BY <1>2 DEF IptInv, IptTypes
    <3> QED BY <3>2, <3>3
  <2>6. CheckedIsAbsent'
    BY <1>1, <1>3, <2>2, <2>3, <2>5, Zenon DEF IptInv, CheckedIsAbsent
  <2>7. \A d \in Callers : op'[d] # Idle => mu' = d
    BY <1>2, <2>1, <2>2, <2>3, Zenon DEF IptInv
  <2> QED BY <1>3, <2>4, <2>6, <2>7 DEF IptInv
<1> QED BY <1>4, <1>5

\* A chain with no more copies of any rule than before keeps the bound.
LEMMA FewerCopies ==
  ASSUME IptInv, NEW ch \in Chains, NEW r \in IptRules, Recognised(r),
         Copies(ch, r) <= Copies(chain, r)
  PROVE  /\ Copies(ch, r) <= ForeignAmong(ch)[r] + 1
         /\ Copies(chain, r) <= foreign[r] => Copies(ch, r) <= ForeignAmong(ch)[r]
<1>1. Copies(ch, r) \in Nat /\ Copies(chain, r) \in Nat /\ foreign[r] \in Nat
  BY CopiesType DEF IptInv, IptTypes
<1>2. ForeignAmong(ch)[r] = IF foreign[r] <= Copies(ch, r) THEN foreign[r] ELSE Copies(ch, r)
  BY ForeignAmongIs DEF IptInv
<1>3. Copies(chain, r) <= foreign[r] + 1
  BY DEF IptInv, RuleAtMostOnce
<1> QED BY <1>1, <1>2, <1>3

\* The command of the holder of the mutex: EnsureRule adds to foreign copies only.
LEMMA CommandInv ==
  ASSUME IptInv, NEW c \in Callers, runCommand(c)
  PROVE  IptInv'
<1> DEFINE ch == Edited(op[c])
<1>1. /\ op[c].step = "run" /\ Return(c) /\ chain' = ch /\ foreign' = ForeignAmong(ch)
      /\ UNCHANGED <<hasCheck, longer>>
  BY DEF runCommand
<1>2. op[c] \in Ops
  BY <1>1, OpFacts DEF IptInv
<1>3. /\ ch \in Chains
      /\ \A r \in IptRules :
           \/ Copies(ch, r) <= Copies(chain, r)
           \/ /\ op[c].name = "EnsureRule" /\ op[c].rule = r
              /\ Copies(ch, r) = Copies(chain, r) + 1
  BY <1>1, <1>2, EditedIs DEF IptInv
<1> HIDE DEF ch
<1>4. mu' = Nobody /\ (\A d \in Callers : op'[d] = Idle) /\ op' \in [Callers -> Ops]
  BY <1>1, ReturnedIdle
<1>5. ForeignAmong(ch) \in [IptRules -> Nat]
  BY <1>3, ForeignAmongIs DEF IptInv
<1>6. IptTypes'
  BY <1>1, <1>3, <1>4, <1>5 DEF IptInv, IptTypes
<1>7. ASSUME NEW r \in IptRules, Recognised(r)
      PROVE  Copies(ch, r) <= ForeignAmong(ch)[r] + 1
  <2>1. CASE Copies(ch, r) <= Copies(chain, r)
    BY <1>3, <1>7, <2>1, FewerCopies
  <2>2. CASE op[c].name = "EnsureRule" /\ op[c].rule = r /\ Copies(ch, r) = Copies(chain, r) + 1
    <3>1. Copies(chain, r) <= foreign[r]
      BY <1>1, <1>7, <2>2 DEF IptInv, CheckedIsAbsent
    <3>2. Copies(ch, r) \in Nat /\ Copies(chain, r) \in Nat /\ foreign[r] \in Nat
      BY <1>3, CopiesType DEF IptInv, IptTypes
    <3>3. ForeignAmong(ch)[r] = IF foreign[r] <= Copies(ch, r) THEN foreign[r] ELSE Copies(ch, r)
      BY <1>3, ForeignAmongIs DEF IptInv
    <3> QED BY <2>2, <3>1, <3>2, <3>3
  <2> QED BY <1>3, <2>1, <2>2
<1>8. RuleAtMostOnce'
  BY <1>1, <1>7 DEF RuleAtMostOnce, Recognised
<1>9. CheckedIsAbsent'
  BY <1>4 DEF CheckedIsAbsent, Idle
<1> QED BY <1>4, <1>6, <1>8, <1>9 DEF IptInv

\* A failed command changes nothing.
LEMMA FailureInv ==
  ASSUME IptInv, NEW c \in Callers, commandFails(c)
  PROVE  IptInv'
<1>1. /\ op[c].step \in {"check", "run"} /\ Return(c)
      /\ UNCHANGED <<chain, foreign, hasCheck, longer>>
  BY DEF commandFails
<1>2. mu' = Nobody /\ (\A d \in Callers : op'[d] = Idle) /\ op' \in [Callers -> Ops]
  BY <1>1, ReturnedIdle
<1>3. IptTypes'
  BY <1>1, <1>2 DEF IptInv, IptTypes
<1>4. RuleAtMostOnce'
  BY <1>1 DEF IptInv, RuleAtMostOnce, Recognised
<1>5. CheckedIsAbsent'
  BY <1>2 DEF CheckedIsAbsent, Idle
<1> QED BY <1>2, <1>3, <1>4, <1>5 DEF IptInv

\* A step of another program that keeps what the callers may rely on.
LEMMA OtherInv ==
  ASSUME IptInv, UNCHANGED <<hasCheck, longer, mu, op>>,
         chain' \in Chains, foreign' \in [IptRules -> Nat],
         \A r \in IptRules : Recognised(r) =>
           /\ Copies(chain', r) <= foreign'[r] + 1
           /\ Copies(chain, r) <= foreign[r] => Copies(chain', r) <= foreign'[r]
  PROVE  IptInv'
<1>1. IptTypes'
  BY DEF IptInv, IptTypes
<1>2. \A r : Recognised(r)' <=> Recognised(r)
  BY DEF Recognised
<1>3. RuleAtMostOnce'
  BY <1>2 DEF RuleAtMostOnce
<1>4. \A c \in Callers : op[c].name = "EnsureRule" /\ op[c].step = "run" => op[c].rule \in IptRules
  BY DEF IptInv, IptTypes, Ops, Idle, RuleOps, ChainOps
<1>5. CheckedIsAbsent'
  BY <1>2, <1>4, Zenon DEF IptInv, CheckedIsAbsent
<1> QED BY <1>1, <1>3, <1>5 DEF IptInv

\* What another program adds is foreign.
LEMMA OtherAddsInv ==
  ASSUME IptInv, NEW r \in IptRules, OtherAdds(r)
  PROVE  IptInv'
<1>1. /\ chain \in [IptRules -> Nat] /\ foreign \in [IptRules -> Nat] /\ NoChain \notin [IptRules -> Nat]
      /\ chain' = [chain EXCEPT ![r] = @ + 1] /\ foreign' = [foreign EXCEPT ![r] = @ + 1]
      /\ UNCHANGED <<hasCheck, longer, mu, op>>
  BY IptAssumption DEF OtherAdds, IptInv, IptTypes, Chains
<1>2. chain' \in [IptRules -> Nat] /\ foreign' \in [IptRules -> Nat]
  BY <1>1
<1>3. ASSUME NEW s \in IptRules, Recognised(s)
      PROVE  /\ Copies(chain', s) <= foreign'[s] + 1
             /\ Copies(chain, s) <= foreign[s] => Copies(chain', s) <= foreign'[s]
  <2>1. Copies(chain, s) = chain[s] /\ Copies(chain', s) = chain'[s]
    BY <1>1, <1>2 DEF Copies
  <2>2. chain[s] <= foreign[s] + 1
    BY <1>3, <2>1 DEF IptInv, RuleAtMostOnce
  <2>3. chain[s] \in Nat /\ foreign[s] \in Nat
    BY <1>1
  <2>4. \/ chain'[s] = chain[s] /\ foreign'[s] = foreign[s]
        \/ chain'[s] = chain[s] + 1 /\ foreign'[s] = foreign[s] + 1
    BY <1>1
  <2> QED BY <2>1, <2>2, <2>3, <2>4
<1> QED BY <1>1, <1>2, <1>3, OtherInv, Zenon DEF Chains

\* A program that takes rules away takes foreign copies, or those of the callers.
LEMMA OtherDeletesInv ==
  ASSUME IptInv, NEW r \in IptRules, OtherDeletes(r)
  PROVE  IptInv'
<1>1. /\ Copies(chain, r) > 0 /\ chain' = [chain EXCEPT ![r] = @ - 1]
      /\ foreign' = ForeignAmong(chain') /\ UNCHANGED <<hasCheck, longer, mu, op>>
  BY DEF OtherDeletes
<1>2. chain \in [IptRules -> Nat] /\ NoChain \notin [IptRules -> Nat] /\ chain[r] > 0
  BY <1>1, IptAssumption DEF Copies, IptInv, IptTypes, Chains
<1>3. chain' \in [IptRules -> Nat] /\ \A s \in IptRules : chain'[s] <= chain[s]
  BY <1>1, <1>2
<1>4. chain' \in Chains /\ \A s \in IptRules : Copies(chain', s) <= Copies(chain, s)
  BY <1>2, <1>3 DEF Copies, Chains
<1>5. foreign' \in [IptRules -> Nat]
  BY <1>1, <1>4, ForeignAmongIs, Zenon DEF IptInv
<1>6. \A s \in IptRules : Recognised(s) =>
        /\ Copies(chain', s) <= foreign'[s] + 1
        /\ Copies(chain, s) <= foreign[s] => Copies(chain', s) <= foreign'[s]
  BY <1>1, <1>4, FewerCopies, Zenon
<1> QED BY <1>1, <1>4, <1>5, <1>6, OtherInv, Zenon

\* In an empty chain and in no chain there is nothing.
LEMMA OtherClearsInv ==
  ASSUME IptInv, OtherClears
  PROVE  IptInv'
<1>1. /\ chain' \in Chains /\ foreign' = Empty
      /\ UNCHANGED <<hasCheck, longer, mu, op>>
  BY DEF OtherClears, Empty, Chains
<1>2. foreign' \in [IptRules -> Nat] /\ \A r \in IptRules : foreign'[r] = 0
  BY <1>1 DEF Empty
<1>3. \A r \in IptRules : Copies(chain', r) = 0
  BY DEF OtherClears, Empty, Copies
<1> QED BY <1>1, <1>2, <1>3, OtherInv

\* Every step keeps the invariant.
LEMMA IptInvNext == IptInv /\ [IptNext]_tvars => IptInv'
<1> SUFFICES ASSUME IptInv, [IptNext]_tvars PROVE IptInv' OBVIOUS
<1>1. ASSUME NEW c \in Callers, NEW name \in RuleOps, NEW r \in IptRules, Call(c, name, r)
      PROVE  IptInv'
  BY <1>1, CallInv
<1>2. ASSUME NEW c \in Callers, NEW name \in ChainOps, Call(c, name, NoRule)
      PROVE  IptInv'
  <2>1. name \notin RuleOps /\ NoRule \notin IptRules
    BY IptAssumption DEF RuleOps, ChainOps
  <2> QED BY <1>2, <2>1, CallInv
<1>3. CASE UNCHANGED tvars
  BY <1>3 DEF tvars, IptInv, IptTypes, RuleAtMostOnce, CheckedIsAbsent, Recognised
<1> QED
  BY <1>1, <1>2, <1>3, CheckInv, CommandInv, FailureInv, OtherAddsInv, OtherDeletesInv,
     OtherClearsInv, Zenon DEF IptNext

\* The invariant holds in every state.
LEMMA IptAlways == IptSpec => []IptInv
BY IptInvInit, IptInvNext, PTL DEF IptSpec

\* The callers of one runner (runner.mu, EnsureRule) add a rule that its check recognises
\* at most once: all further copies in the chain are of other programs, which may add
\* theirs between the check and the command.
THEOREM RulesAtMostOnce == IptSpec => []RuleAtMostOnce
BY IptAlways, PTL DEF IptInv

\* What EnsureRule leaves when it returns without an error.
LEMMA EnsuredStep ==
  ASSUME IptInv, NEW c \in Callers, op[c].name = "EnsureRule", op'[c] = Idle,
         checkRule(c) \/ (runCommand(c) /\ chain # NoChain), ~Mistakable(op[c].rule)
  PROVE  Copies(chain', op[c].rule) > 0
<1>1. CASE checkRule(c)
  <2>1. op[c].step = "check" /\ chain' = chain
    BY <1>1 DEF checkRule
  <2>2. NothingToDo(op[c])
    <3>1. SUFFICES ASSUME op' = [op EXCEPT ![c].step = "run"] PROVE FALSE
      BY <1>1 DEF checkRule
    <3> QED BY <3>1 DEF IptInv, IptTypes, Ops, Idle
  <2>3. RuleFound(op[c].rule)
    BY <2>2 DEF NothingToDo
  <2> QED BY <2>1, <2>3, Zenon DEF RuleFound, FoundInSave, Mistakable
<1>2. CASE runCommand(c) /\ chain # NoChain
  <2>1. op[c].step = "run" /\ chain' = Edited(op[c])
    BY <1>2 DEF runCommand
  <2>2. op[c] \in Ops
    BY <2>1, OpFacts DEF IptInv
  <2> QED BY <1>2, <2>1, <2>2, EditedIs DEF IptInv
<1> QED BY <1>1, <1>2

\* EnsureRule that returned without an error leaves its rule in the chain, in whatever
\* order callers and other programs take their steps, unless the check was made without -C
\* and the line of another rule can pass for it (checkRuleWithoutCheck).
THEOREM EnsuredRulesAreThere == IptSpec => EnsuredRuleIsThere
<1>1. IptInv /\ [IptNext]_tvars =>
        [\A c \in Callers :
           /\ op[c].name = "EnsureRule" /\ op'[c] = Idle
           /\ checkRule(c) \/ (runCommand(c) /\ chain # NoChain)
           /\ ~Mistakable(op[c].rule)
           => Copies(chain', op[c].rule) > 0]_tvars
  BY EnsuredStep, Zenon
<1> QED BY <1>1, IptAlways, PTL DEF IptSpec, EnsuredRuleIsThere

\* What DeleteRule leaves when it returns without an error.
LEMMA DeletedStep ==
  ASSUME IptInv, NEW c \in Callers, op[c].name = "DeleteRule", op'[c] = Idle,
         checkRule(c) \/ runCommand(c), Recognised(op[c].rule)
  PROVE  Copies(chain', op[c].rule) <= foreign'[op[c].rule]
<1>1. CASE checkRule(c)
  <2>1. op[c].step = "check" /\ chain' = chain /\ foreign' = foreign
    BY <1>1 DEF checkRule
  <2>2. NothingToDo(op[c])
    <3>1. SUFFICES ASSUME op' = [op EXCEPT ![c].step = "run"] PROVE FALSE
      BY <1>1 DEF checkRule
    <3> QED BY <3>1 DEF IptInv, IptTypes, Ops, Idle
  <2>3. ~RuleFound(op[c].rule)
    BY <2>2 DEF NothingToDo
  <2>4. op[c].rule \in IptRules
    BY <2>1, OpFacts DEF IptInv
  <2>5. Copies(chain, op[c].rule) = 0 /\ foreign[op[c].rule] \in Nat
    BY <2>3, <2>4, NotFoundIsAbsent DEF IptInv, IptTypes
  <2> QED BY <2>1, <2>5
<1>2. CASE runCommand(c)
  <2> DEFINE r  == op[c].rule
             ch == Edited(op[c])
  <2>1. op[c].step = "run" /\ chain' = ch /\ foreign' = ForeignAmong(ch)
    BY <1>2 DEF runCommand
  <2>2. op[c] \in Ops /\ r \in IptRules
    BY <2>1, OpFacts DEF IptInv, RuleOps
  <2>3. ch \in Chains /\ (Copies(ch, r) = 0 \/ Copies(ch, r) = Copies(chain, r) - 1)
    BY <2>1, <2>2, EditedIs DEF IptInv
  <2> HIDE DEF ch
  <2>4. Copies(ch, r) \in Nat /\ Copies(chain, r) \in Nat /\ foreign[r] \in Nat
    BY <2>2, <2>3, CopiesType DEF IptInv, IptTypes
  <2>5. ForeignAmong(ch)[r] = IF foreign[r] <= Copies(ch, r) THEN foreign[r] ELSE Copies(ch, r)
    BY <2>2, <2>3, ForeignAmongIs DEF IptInv
  <2>6. Copies(chain, r) <= foreign[r] + 1
    BY <2>2 DEF IptInv, RuleAtMostOnce
  <2> HIDE DEF r
  <2>7. Copies(ch, r) <= ForeignAmong(ch)[r]
    BY <2>3, <2>4, <2>5, <2>6
  <2> QED BY <2>1, <2>7 DEF r
<1> QED BY <1>1, <1>2

\* DeleteRule that returned without an error leaves none of the callers' copies of a rule
\* its check recognises: -D deletes one, and RulesAtMostOnce says that there is no second.
THEOREM DeletedRulesAreGone == IptSpec => DeletedRuleIsGone
<1>1. IptInv /\ [IptNext]_tvars =>
        [\A c \in Callers :
           /\ op[c].name = "DeleteRule" /\ op'[c] = Idle /\ (checkRule(c) \/ runCommand(c))
           /\ Recognised(op[c].rule)
           => Copies(chain', op[c].rule) <= foreign'[op[c].rule]]_tvars
  BY DeletedStep, Zenon
<1> QED BY <1>1, IptAlways, PTL DEF IptSpec, DeletedRuleIsGone

=============================================================================
