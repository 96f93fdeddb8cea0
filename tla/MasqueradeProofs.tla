-------------------------- MODULE MasqueradeProofs --------------------------
(***************************************************************************)
(* The masquerade rules are never duplicated, and a cleanup that meets one *)
(* of them at most removes it and nothing else, for every set of rules and *)
(* any number of processes, edits and faults.                              *)
(***************************************************************************)
EXTENDS Masquerade, TLAPS

Rules == MasqRules \cup OtherRules

\* The types that the other invariants rest on; in particular the numbers that
\* cleanUpIptablesMASQ passes to iptables -D are rule numbers, which start at 1.
Types ==
  /\ config \in Seq(MasqRules) /\ todo \in Seq(MasqRules)
  /\ chain \in Seq(Rules) /\ doomed \in SUBSET (Nat \ {0})

\* What PrependUnique found absent is still absent when it is inserted: no other
\* program inserts a masquerade rule, and a killed process forgets the answer.
AbsentFresh == absent => Ensuring /\ Head(todo) \notin RulesOf(chain)

\* During an undisturbed cleanup the positions that are left are those of the
\* masquerade rules in the chain, and there is one at most.
NumbersFresh ==
  ~disturbed /\ pc = "delete" => doomed = Matching /\ \A i, j \in Matching : i = j

MInv == Types /\ NoDuplicateMasq /\ AbsentFresh /\ NumbersFresh /\ CleanupExact

-----------------------------------------------------------------------------
(* Chains *)

\* Prepend puts a rule in front and moves the others by one.
LEMMA PrependChain ==
  ASSUME NEW c \in Seq(Rules), NEW r \in Rules
  PROVE  LET d == <<r>> \o c IN
         /\ d \in Seq(Rules) /\ Len(d) = Len(c) + 1
         /\ d[1] = r /\ \A i \in 1..Len(c) : d[i + 1] = c[i]
         /\ \A i \in 2..Len(d) : d[i] = c[i - 1]
         /\ RulesOf(d) = RulesOf(c) \cup {r}
<1> DEFINE d == <<r>> \o c
<1>1. d \in Seq(Rules) /\ Len(d) = Len(c) + 1 /\ d[1] = r
  OBVIOUS
<1>2. \A i \in 1..Len(c) : d[i + 1] = c[i]
  OBVIOUS
<1>3. \A i \in 2..Len(d) : d[i] = c[i - 1]
  OBVIOUS
<1> HIDE DEF d
<1>4. RulesOf(d) \subseteq RulesOf(c) \cup {r}
  BY <1>1, <1>3 DEF RulesOf
<1>5. RulesOf(c) \cup {r} \subseteq RulesOf(d)
  <2>1. r \in RulesOf(d)
    BY <1>1 DEF RulesOf
  <2>2. ASSUME NEW i \in 1..Len(c) PROVE c[i] \in RulesOf(d)
    <3>1. i + 1 \in 1..Len(d) /\ d[i + 1] = c[i]
      BY <1>1, <1>2
    <3> QED BY <3>1 DEF RulesOf
  <2> QED BY <2>1, <2>2 DEF RulesOf
<1>6. RulesOf(d) = RulesOf(c) \cup {r}
  BY <1>4, <1>5
<1> QED BY <1>1, <1>2, <1>3, <1>6 DEF d

\* Append puts a rule at the end.
LEMMA AppendChain ==
  ASSUME NEW c \in Seq(Rules), NEW r \in Rules
  PROVE  LET d == Append(c, r) IN
         /\ d \in Seq(Rules) /\ Len(d) = Len(c) + 1
         /\ d[Len(c) + 1] = r /\ \A i \in 1..Len(c) : d[i] = c[i]
         /\ RulesOf(d) = RulesOf(c) \cup {r}
<1> DEFINE d == Append(c, r)
<1>1. d \in Seq(Rules) /\ Len(d) = Len(c) + 1 /\ d[Len(c) + 1] = r
  OBVIOUS
<1>2. \A i \in 1..Len(c) : d[i] = c[i]
  OBVIOUS
<1> HIDE DEF d
<1>3. RulesOf(d) = RulesOf(c) \cup {r}
  BY <1>1, <1>2 DEF RulesOf
<1> QED BY <1>1, <1>2, <1>3 DEF d

\* Deleting by number keeps every rule but that one, in order.
LEMMA DeleteChain ==
  ASSUME NEW c \in Seq(Rules), NEW i \in 1..Len(c)
  PROVE  LET d == DeleteNumber(c, i) IN
         /\ d \in Seq(Rules) /\ Len(d) = Len(c) - 1
         /\ \A k \in 1..Len(d) : d[k] = IF k < i THEN c[k] ELSE c[k + 1]
         /\ \A k \in 1..Len(c) : k # i => c[k] \in RulesOf(d)
<1> DEFINE d == DeleteNumber(c, i)
<1>1. \A k \in 1..(Len(c) - 1) : d[k] = IF k < i THEN c[k] ELSE c[k + 1]
  BY DEF DeleteNumber
<1>2. d \in [1..(Len(c) - 1) -> Rules]
  BY DEF DeleteNumber
<1>3. d \in Seq(Rules) /\ Len(d) = Len(c) - 1
  <2>1. Len(c) - 1 \in Nat
    OBVIOUS
  <2> QED BY <1>2, <2>1 DEF DeleteNumber
<1> HIDE DEF d
<1>4. ASSUME NEW k \in 1..Len(c), k # i PROVE c[k] \in RulesOf(d)
  <2>1. CASE k < i
    <3>1. k \in 1..Len(d) /\ d[k] = c[k]
      BY <1>1, <1>3, <2>1
    <3> QED BY <3>1 DEF RulesOf
  <2>2. CASE k > i
    <3>1. k - 1 \in 1..Len(d) /\ d[k - 1] = c[k]
      BY <1>1, <1>3, <2>2
    <3> QED BY <3>1 DEF RulesOf
  <2> QED BY <1>4, <2>1, <2>2
<1> QED BY <1>1, <1>3, <1>4 DEF d

-----------------------------------------------------------------------------
(* Steps *)

\* Types are preserved by every step.
LEMMA TypesStep == Types /\ [Next]_vars => Types'
<1> SUFFICES ASSUME Types, [Next]_vars PROVE Types'
  OBVIOUS
<1> USE DEF Types
<1>0. <<>> \in Seq(MasqRules)
  OBVIOUS
<1>1. ASSUME NEW c \in Configs, Start(c) PROVE Types'
  BY <1>1, ConfigsAssumption DEF Start
<1>2. CASE CleanUpAndExit \/ Kill \/ Tick
  <2>1. /\ config' \in {config, <<>>} /\ todo' \in {todo, config, <<>>}
        /\ doomed' \in {doomed, {}} /\ chain' = chain
    BY <1>2, Zenon DEF CleanUpAndExit, Kill, Tick
  <2> QED BY <1>0, <2>1, Zenon
<1>3. CASE EnsureCheck
  <2>1. todo' \in {todo, Tail(todo)} /\ UNCHANGED <<config, chain, doomed>>
    BY <1>3, Zenon DEF EnsureCheck
  <2>2. todo # <<>>
    BY <1>3, Zenon DEF EnsureCheck, Ensuring
  <2>3. Tail(todo) \in Seq(MasqRules)
    BY <2>2
  <2> QED BY <2>1, <2>3, Zenon
<1>4. CASE EnsurePrepend
  <2>1. Head(todo) \in Rules /\ Tail(todo) \in Seq(MasqRules)
    BY <1>4 DEF EnsurePrepend, Ensuring, Rules
  <2>2. chain' \in Seq(Rules)
    BY <1>4, <2>1, PrependChain DEF EnsurePrepend
  <2> QED BY <1>4, <2>1, <2>2 DEF EnsurePrepend
<1>5. CASE EnsureFail \/ EnsureDone \/ Sync \/ Callback
  <2>1. todo' \in {todo, <<>>} /\ UNCHANGED <<config, chain, doomed>>
    BY <1>5, Zenon DEF EnsureFail, EnsureDone, Sync, Callback, syncProxyRules
  <2> QED BY <1>0, <2>1, Zenon
<1>6. CASE cleanUpList
  BY <1>6 DEF cleanUpList, Matching
<1>7. ASSUME NEW i \in doomed, cleanUpDelete(i) PROVE Types'
  <2>1. i \in 1..Len(chain)
    BY <1>7 DEF cleanUpDelete
  <2>2. chain' \in Seq(Rules)
    BY <1>7, <2>1, DeleteChain DEF cleanUpDelete
  <2> QED BY <1>7, <2>2 DEF cleanUpDelete
<1>8. ASSUME NEW i \in doomed, cleanUpNoSuchRule(i) PROVE Types'
  BY <1>8 DEF cleanUpNoSuchRule
<1>9. CASE cleanUpFail \/ cleanUpMasqDone \/ cleanUpIpvs \/ cleanUpDummyLink
  BY <1>9 DEF cleanUpFail, cleanUpMasqDone, cleanUpIpvs, cleanUpDummyLink
<1>10. ASSUME NEW r \in OtherRules, OtherInsert(r) PROVE Types'
  <2>1. r \in Rules
    BY DEF Rules
  <2>2. CASE chain' = <<r>> \o chain
    BY <1>10, <2>1, <2>2, PrependChain DEF OtherInsert, OtherEdit, procVars
  <2>3. CASE chain' = Append(chain, r)
    BY <1>10, <2>1, <2>3, AppendChain DEF OtherInsert, OtherEdit, procVars
  <2> QED BY <1>10, <2>2, <2>3 DEF OtherInsert
<1>11. CASE OtherFlush
  BY <1>11 DEF OtherFlush, OtherEdit, procVars
<1>12. CASE UNCHANGED vars
  BY <1>12 DEF vars, procVars
<1> HIDE DEF Types
<1> QED
  BY <1>1, <1>2, <1>3, <1>4, <1>5, <1>6, <1>7, <1>8, <1>9, <1>10, <1>11, <1>12,
     Zenon DEF Next, Ensure, CleanupLeftovers

\* No step inserts a masquerade rule that is in the chain.
LEMMA NoDuplicateStep ==
  Types /\ NoDuplicateMasq /\ AbsentFresh /\ [Next]_vars => NoDuplicateMasq'
<1> SUFFICES ASSUME Types, NoDuplicateMasq, AbsentFresh, [Next]_vars
             PROVE  NoDuplicateMasq'
  OBVIOUS
<1>1. ASSUME UNCHANGED chain PROVE NoDuplicateMasq'
  BY <1>1 DEF NoDuplicateMasq
<1>2. CASE EnsurePrepend
  <2> DEFINE r == Head(todo)
  <2>1. r \in Rules /\ chain \in Seq(Rules) /\ r \notin RulesOf(chain)
    BY <1>2 DEF EnsurePrepend, Ensuring, Types, AbsentFresh, Rules
  <2>2. chain' = <<r>> \o chain
    BY <1>2 DEF EnsurePrepend
  <2> HIDE DEF r
  <2>3. /\ Len(chain') = Len(chain) + 1 /\ chain'[1] = r
        /\ \A i \in 2..Len(chain') : chain'[i] = chain[i - 1]
    BY <2>1, <2>2, PrependChain
  <2>4. \A i \in 1..Len(chain) : chain[i] # r
    BY <2>1 DEF RulesOf
  <2> QED BY <2>1, <2>3, <2>4 DEF NoDuplicateMasq
<1>3. ASSUME NEW i \in doomed, cleanUpDelete(i) PROVE NoDuplicateMasq'
  <2>1. chain \in Seq(Rules) /\ i \in 1..Len(chain) /\ chain' = DeleteNumber(chain, i)
    BY <1>3 DEF cleanUpDelete, Types
  <2>2. /\ Len(chain') = Len(chain) - 1
        /\ \A k \in 1..Len(chain') : chain'[k] = IF k < i THEN chain[k] ELSE chain[k + 1]
    BY <2>1, DeleteChain
  <2> QED BY <2>1, <2>2 DEF NoDuplicateMasq
<1>4. ASSUME NEW r \in OtherRules, OtherInsert(r) PROVE NoDuplicateMasq'
  <2>1. r \in Rules /\ r \notin MasqRules /\ chain \in Seq(Rules)
    BY RulesAssumption DEF Rules, Types
  <2>2. CASE chain' = <<r>> \o chain
    <3>1. /\ Len(chain') = Len(chain) + 1 /\ chain'[1] = r
          /\ \A i \in 2..Len(chain') : chain'[i] = chain[i - 1]
      BY <2>1, <2>2, PrependChain
    <3> QED BY <2>1, <3>1 DEF NoDuplicateMasq
  <2>3. CASE chain' = Append(chain, r)
    <3>1. /\ Len(chain') = Len(chain) + 1 /\ chain'[Len(chain) + 1] = r
          /\ \A i \in 1..Len(chain) : chain'[i] = chain[i]
      BY <2>1, <2>3, AppendChain
    <3> QED BY <2>1, <3>1 DEF NoDuplicateMasq
  <2> QED BY <1>4, <2>2, <2>3 DEF OtherInsert
<1>5. CASE OtherFlush
  BY <1>5 DEF OtherFlush, NoDuplicateMasq
<1>6. ASSUME \/ \E c \in Configs : Start(c)
             \/ CleanUpAndExit \/ Kill \/ Tick \/ EnsureCheck \/ EnsureFail
             \/ EnsureDone \/ Sync \/ Callback \/ UNCHANGED vars
      PROVE  UNCHANGED chain
  BY <1>6 DEF Start, CleanUpAndExit, Kill, Tick, EnsureCheck, EnsureFail, EnsureDone,
              Sync, Callback, syncProxyRules, vars
<1>7. ASSUME \/ cleanUpList \/ (\E i \in doomed : cleanUpNoSuchRule(i)) \/ cleanUpFail
             \/ cleanUpMasqDone \/ cleanUpIpvs \/ cleanUpDummyLink
      PROVE  UNCHANGED chain
  BY <1>7 DEF cleanUpList, cleanUpNoSuchRule, cleanUpFail, cleanUpMasqDone,
              cleanUpIpvs, cleanUpDummyLink
<1> QED
  BY <1>1, <1>2, <1>3, <1>4, <1>5, <1>6, <1>7, Zenon DEF Next, Ensure, CleanupLeftovers

\* What OtherInsert leaves in the chain.
LEMMA OtherInsertRules ==
  ASSUME Types, NEW r \in OtherRules, OtherInsert(r)
  PROVE  RulesOf(chain') = RulesOf(chain) \cup {r} /\ r \notin MasqRules
<1>1. r \in Rules /\ r \notin MasqRules /\ chain \in Seq(Rules)
  BY RulesAssumption DEF Rules, Types
<1>2. CASE chain' = <<r>> \o chain
  BY <1>1, <1>2, PrependChain
<1>3. CASE chain' = Append(chain, r)
  BY <1>1, <1>3, AppendChain
<1> QED BY <1>1, <1>2, <1>3 DEF OtherInsert

\* An empty chain has no rules.
LEMMA NoRules == RulesOf(<<>>) = {}
BY DEF RulesOf

\* The answer of Exists stays right until the rule is inserted.
LEMMA AbsentStep == Types /\ AbsentFresh /\ [Next]_vars => AbsentFresh'
<1> SUFFICES ASSUME Types, AbsentFresh, [Next]_vars PROVE AbsentFresh'
  OBVIOUS
<1>1. ASSUME ~absent' PROVE AbsentFresh'
  BY <1>1, Zenon DEF AbsentFresh
<1>2. ASSUME UNCHANGED <<pc, todo, absent, chain>> PROVE AbsentFresh'
  BY <1>2, Zenon DEF AbsentFresh, Ensuring
<1>3. pc \notin {"start", "tick"} \/ todo = <<>> => ~absent
  BY Zenon DEF AbsentFresh, Ensuring
<1>4. ASSUME \/ \E c \in Configs : Start(c)
             \/ CleanUpAndExit \/ Tick \/ EnsureDone \/ Sync
      PROVE  ~absent'
  <2>1. UNCHANGED absent
    BY <1>4, Zenon DEF Start, CleanUpAndExit, Tick, EnsureDone, Sync, syncProxyRules
  <2>2. pc \notin {"start", "tick"} \/ todo = <<>>
    BY <1>4 DEF Start, CleanUpAndExit, Tick, EnsureDone, Sync
  <2> QED BY <1>3, <2>1, <2>2, Zenon
<1>5. ASSUME Kill \/ EnsurePrepend \/ EnsureFail PROVE ~absent'
  BY <1>5, Zenon DEF Kill, EnsurePrepend, EnsureFail
<1>6. CASE EnsureCheck
  <2>1. CASE Exists(Head(todo))
    <3>1. ~absent'
      BY <1>6, <2>1, Zenon DEF EnsureCheck
    <3> QED BY <1>1, <3>1
  <2>2. CASE ~Exists(Head(todo))
    <3>1. Ensuring /\ UNCHANGED <<pc, todo, chain>> /\ Head(todo) \notin RulesOf(chain)
      BY <1>6, <2>2, Zenon DEF EnsureCheck, Exists
    <3> QED BY <3>1, Zenon DEF AbsentFresh, Ensuring
  <2> QED BY <2>1, <2>2
<1>7. CASE Callback \/ UNCHANGED vars
  BY <1>2, <1>7, Zenon DEF Callback, syncProxyRules, vars, procVars
<1>8. ASSUME CleanupLeftovers PROVE ~absent'
  <2>1. UNCHANGED absent
    BY <1>8, Zenon DEF CleanupLeftovers, cleanUpList, cleanUpDelete, cleanUpNoSuchRule,
       cleanUpFail, cleanUpMasqDone, cleanUpIpvs, cleanUpDummyLink
  <2>2. pc \in Cleaning
    BY <1>8 DEF Cleaning, CleanupLeftovers, cleanUpList, cleanUpDelete,
       cleanUpNoSuchRule, cleanUpFail, cleanUpMasqDone, cleanUpIpvs, cleanUpDummyLink
  <2>3. pc \notin {"start", "tick"}
    BY <2>2 DEF Cleaning
  <2> QED BY <1>3, <2>1, <2>3, Zenon
<1>9. ASSUME OtherFlush \/ \E r \in OtherRules : OtherInsert(r) PROVE AbsentFresh'
  <2>1. UNCHANGED <<pc, todo, absent>>
    BY <1>9, Zenon DEF OtherFlush, OtherInsert, OtherEdit, procVars
  <2>2. \A q \in MasqRules : q \in RulesOf(chain') => q \in RulesOf(chain)
    BY <1>9, OtherInsertRules, NoRules DEF OtherFlush
  <2>3. Ensuring => Head(todo) \in MasqRules
    BY DEF Ensuring, Types
  <2> QED BY <2>1, <2>2, <2>3, Zenon DEF AbsentFresh, Ensuring
<1> QED
  BY <1>1, <1>4, <1>5, <1>6, <1>7, <1>8, <1>9, Zenon DEF Next, Ensure

\* Deleting the only masquerade rule leaves exactly the rules of other programs.
LEMMA DeleteOnly ==
  ASSUME Types, NEW i \in Matching, \A j \in Matching : j = i,
         chain' = DeleteNumber(chain, i)
  PROVE  Matching' = {} /\ RulesOf(chain') \cap OtherRules = RulesOf(chain) \cap OtherRules
<1>1. chain \in Seq(Rules) /\ i \in 1..Len(chain) /\ chain[i] \in MasqRules
  BY DEF Types, Matching
<1>2. /\ Len(chain') = Len(chain) - 1
      /\ \A k \in 1..Len(chain') : chain'[k] = IF k < i THEN chain[k] ELSE chain[k + 1]
      /\ \A k \in 1..Len(chain) : k # i => chain[k] \in RulesOf(chain')
  BY <1>1, DeleteChain
<1>3. \A k \in 1..Len(chain) : k # i => chain[k] \notin MasqRules
  BY DEF Matching
<1>4. ASSUME NEW k \in 1..Len(chain')
      PROVE  chain'[k] \notin MasqRules /\ chain'[k] \in RulesOf(chain)
  <2>1. CASE k < i
    <3>1. k \in 1..Len(chain) /\ k # i /\ chain'[k] = chain[k]
      BY <1>1, <1>2, <2>1
    <3> QED BY <1>3, <3>1 DEF RulesOf
  <2>2. CASE ~(k < i)
    <3>1. k + 1 \in 1..Len(chain) /\ k + 1 # i /\ chain'[k] = chain[k + 1]
      BY <1>1, <1>2, <2>2
    <3> QED BY <1>3, <3>1 DEF RulesOf
  <2> QED BY <2>1, <2>2
<1>5. Matching' = {}
  BY <1>4 DEF Matching
<1>6. RulesOf(chain') \subseteq RulesOf(chain)
  BY <1>4 DEF RulesOf
<1>7. ASSUME NEW r \in RulesOf(chain), r \in OtherRules PROVE r \in RulesOf(chain')
  <2>1. PICK k \in 1..Len(chain) : chain[k] = r
    BY DEF RulesOf
  <2>2. k # i
    BY <1>1, <1>7, <2>1, RulesAssumption
  <2> QED BY <1>2, <2>1, <2>2
<1> QED BY <1>5, <1>6, <1>7

\* A cleanup that is not disturbed uses numbers that are right, and leaves what it
\* should.
LEMMA CleanupStep ==
  Types /\ NumbersFresh /\ CleanupExact /\ [Next]_vars => NumbersFresh' /\ CleanupExact'
<1> SUFFICES ASSUME Types, NumbersFresh, CleanupExact, [Next]_vars
             PROVE  NumbersFresh' /\ CleanupExact'
  OBVIOUS
<1> DEFINE Goal == NumbersFresh' /\ CleanupExact'
<1>1. ASSUME disturbed' PROVE Goal
  BY <1>1, Zenon DEF NumbersFresh, CleanupExact
<1>2. ASSUME UNCHANGED <<chain, placed, disturbed>>, pc' \notin {"delete", "flush", "unlink"}
      PROVE  Goal
  BY <1>2, Zenon DEF NumbersFresh, CleanupExact
<1>3. CASE UNCHANGED vars
  BY <1>3, Zenon DEF vars, procVars, NumbersFresh, CleanupExact, Matching
<1>4. CASE (\E c \in Configs : Start(c)) \/ CleanUpAndExit \/ Kill \/ Tick
  <2>1. UNCHANGED <<chain, placed, disturbed>>
    BY <1>4, Zenon DEF Start, CleanUpAndExit, Kill, Tick
  <2>2. pc' \in {"start", "list", "off", "tick"}
    BY <1>4, Zenon DEF Start, CleanUpAndExit, Kill, Tick
  <2> QED BY <1>2, <2>1, <2>2
<1>5. CASE EnsureCheck \/ EnsureFail \/ EnsureDone \/ Sync \/ Callback
  <2>1. UNCHANGED <<chain, placed, disturbed>>
    BY <1>5, Zenon DEF EnsureCheck, EnsureFail, EnsureDone, Sync, Callback, syncProxyRules
  <2>2. pc' \in Serving
    BY <1>5, Zenon DEF EnsureCheck, Ensuring, EnsureFail, EnsureDone, Sync, Callback, Serving
  <2>3. pc' \notin {"delete", "flush", "unlink"}
    BY <2>2 DEF Serving
  <2> QED BY <1>2, <2>1, <2>3
<1>6. CASE EnsurePrepend
  <2>1. Ensuring /\ chain' = <<Head(todo)>> \o chain /\ UNCHANGED <<pc, placed, disturbed>>
    BY <1>6, Zenon DEF EnsurePrepend
  <2>2. Head(todo) \in MasqRules /\ Head(todo) \in Rules /\ chain \in Seq(Rules)
    BY <2>1 DEF Ensuring, Types, Rules
  <2>3. RulesOf(chain') = RulesOf(chain) \cup {Head(todo)}
    BY <2>1, <2>2, PrependChain
  <2>4. RulesOf(chain') \cap OtherRules = RulesOf(chain) \cap OtherRules
    BY <2>2, <2>3, RulesAssumption
  <2>5. pc' \notin {"delete", "flush", "unlink"}
    BY <2>1 DEF Ensuring
  <2> QED BY <2>1, <2>4, <2>5, Zenon DEF NumbersFresh, CleanupExact
<1>7. CASE cleanUpList
  <2>1. pc' = "delete" /\ doomed' = Matching /\ UNCHANGED <<chain, placed>>
    BY <1>7, Zenon DEF cleanUpList
  <2>2. ~disturbed' => ~disturbed /\ \A i, j \in Matching : i = j
    BY <1>7, Zenon DEF cleanUpList
  <2>3. Matching' = Matching
    BY <2>1 DEF Matching
  <2>4. NumbersFresh'
    BY <2>1, <2>2, <2>3, Zenon DEF NumbersFresh
  <2>5. pc' \notin {"flush", "unlink"}
    BY <2>1
  <2>6. CleanupExact'
    BY <2>1, <2>2, <2>5, Zenon DEF CleanupExact
  <2> QED BY <2>4, <2>6
<1>8. ASSUME NEW i \in doomed, cleanUpDelete(i) PROVE Goal
  <2>1. pc = "delete" /\ chain' = DeleteNumber(chain, i) /\ doomed' = doomed \ {i}
        /\ UNCHANGED <<pc, placed, disturbed>>
    BY <1>8, Zenon DEF cleanUpDelete
  <2>2. CASE disturbed
    BY <1>1, <2>1, <2>2, Zenon
  <2>3. CASE ~disturbed
    <3>1. doomed = Matching /\ i \in Matching /\ \A j \in Matching : j = i
      BY <2>1, <2>3, Zenon DEF NumbersFresh
    <3>2. Matching' = {} /\ RulesOf(chain') \cap OtherRules = RulesOf(chain) \cap OtherRules
      BY <2>1, <3>1, DeleteOnly
    <3>3. doomed' = {}
      BY <2>1, <3>1
    <3>4. NumbersFresh'
      BY <3>2, <3>3, Zenon DEF NumbersFresh
    <3>5. pc' \notin {"flush", "unlink"}
      BY <2>1
    <3>6. CleanupExact'
      BY <2>1, <2>3, <3>2, <3>5, Zenon DEF CleanupExact
    <3> QED BY <3>4, <3>6
  <2> QED BY <2>2, <2>3
<1>9. ASSUME NEW i \in doomed, cleanUpNoSuchRule(i) PROVE Goal
  <2>1. disturbed
    <3> SUFFICES ASSUME ~disturbed PROVE FALSE
      OBVIOUS
    <3>1. i \in Matching
      BY <1>9, Zenon DEF cleanUpNoSuchRule, NumbersFresh
    <3>2. i > Len(chain)
      BY <1>9, Zenon DEF cleanUpNoSuchRule
    <3> QED BY <3>1, <3>2 DEF Matching, Types
  <2>2. UNCHANGED disturbed
    BY <1>9, Zenon DEF cleanUpNoSuchRule
  <2> QED BY <1>1, <2>1, <2>2, Zenon
<1>10. CASE cleanUpFail
  BY <1>1, <1>10, Zenon DEF cleanUpFail
<1>11. CASE cleanUpMasqDone
  <2>1. pc = "delete" /\ doomed = {} /\ pc' = "flush" /\ UNCHANGED <<chain, placed, disturbed>>
    BY <1>11, Zenon DEF cleanUpMasqDone
  <2>2. ~disturbed => RulesOf(chain) \cap MasqRules = {}
    <3> SUFFICES ASSUME ~disturbed PROVE RulesOf(chain) \cap MasqRules = {}
      OBVIOUS
    <3>1. Matching = {}
      BY <2>1, Zenon DEF NumbersFresh
    <3> QED BY <3>1 DEF Matching, RulesOf
  <2>3. pc' # "delete" /\ pc' # "unlink"
    BY <2>1
  <2> QED BY <2>1, <2>2, <2>3, Zenon DEF NumbersFresh, CleanupExact
<1>12. CASE cleanUpIpvs
  <2>1. pc = "flush" /\ pc' = "unlink" /\ UNCHANGED <<chain, placed>>
    BY <1>12, Zenon DEF cleanUpIpvs
  <2>2. disturbed' \/ (~ipvs' /\ UNCHANGED disturbed)
    BY <1>12, Zenon DEF cleanUpIpvs
  <2>3. pc' # "delete"
    BY <2>1
  <2> QED BY <1>1, <2>1, <2>2, <2>3, Zenon DEF NumbersFresh, CleanupExact
<1>13. CASE cleanUpDummyLink
  <2>1. pc' = "off" /\ UNCHANGED <<chain, placed>>
    BY <1>13, Zenon DEF cleanUpDummyLink
  <2>2. disturbed' \/ UNCHANGED disturbed
    BY <1>13, Zenon DEF cleanUpDummyLink
  <2>3. pc' \notin {"delete", "flush", "unlink"}
    BY <2>1
  <2> QED BY <1>1, <1>2, <2>1, <2>2, <2>3, Zenon
<1>14. ASSUME NEW r \in OtherRules, OtherInsert(r) PROVE Goal
  <2>1. placed' = placed \cup {r} /\ UNCHANGED <<pc, ipvs>>
    BY <1>14, Zenon DEF OtherInsert, OtherEdit, procVars
  <2>2. ~disturbed' => ~disturbed /\ pc # "delete"
    BY <1>14, Zenon DEF OtherInsert, OtherEdit
  <2>3. RulesOf(chain') = RulesOf(chain) \cup {r} /\ r \notin MasqRules
    BY <1>14, OtherInsertRules
  <2>4. /\ RulesOf(chain') \cap MasqRules = RulesOf(chain) \cap MasqRules
        /\ RulesOf(chain') \cap OtherRules = (RulesOf(chain) \cap OtherRules) \cup {r}
    BY <2>3
  <2> QED BY <2>1, <2>2, <2>4, Zenon DEF NumbersFresh, CleanupExact
<1>15. CASE OtherFlush
  <2>1. placed' = {} /\ UNCHANGED <<pc, ipvs>> /\ chain' = <<>>
    BY <1>15, Zenon DEF OtherFlush, OtherEdit, procVars
  <2>2. ~disturbed' => ~disturbed /\ pc # "delete"
    BY <1>15, Zenon DEF OtherFlush, OtherEdit
  <2>3. RulesOf(chain') = {}
    BY <2>1, NoRules
  <2>4. RulesOf(chain') \cap MasqRules = {} /\ RulesOf(chain') \cap OtherRules = {}
    BY <2>3
  <2> QED BY <2>1, <2>2, <2>4, Zenon DEF NumbersFresh, CleanupExact
<1> QED
  BY <1>3, <1>4, <1>5, <1>6, <1>7, <1>8, <1>9, <1>10, <1>11, <1>12, <1>13, <1>14, <1>15,
     Zenon DEF Next, Ensure, CleanupLeftovers

-----------------------------------------------------------------------------
(* Theorems *)

\* The inductive invariant holds in every reachable state.
THEOREM MInvAlways == Spec => []MInv
<1>1. Init => MInv
  <2> SUFFICES ASSUME Init PROVE MInv
    OBVIOUS
  <2>1. Types
    BY DEF Init, Types
  <2>2. NoDuplicateMasq
    BY DEF Init, NoDuplicateMasq
  <2>3. AbsentFresh
    BY Zenon DEF Init, AbsentFresh
  <2>4. pc \notin {"delete", "flush", "unlink"}
    BY DEF Init
  <2>5. NumbersFresh
    BY <2>4, Zenon DEF NumbersFresh
  <2>6. RulesOf(chain) \cap OtherRules = placed
    BY NoRules DEF Init
  <2>7. CleanupExact
    BY <2>4, <2>6, Zenon DEF CleanupExact
  <2> QED BY <2>1, <2>2, <2>3, <2>5, <2>7 DEF MInv
<1>2. MInv /\ [Next]_vars => MInv'
  BY TypesStep, NoDuplicateStep, AbsentStep, CleanupStep, Zenon DEF MInv
<1> QED BY <1>1, <1>2, PTL DEF Spec

\* No masquerade rule is ever in the chain twice: PrependUnique checks and inserts in
\* two commands, and no kill, restart, fault, flush or foreign rule in between makes
\* it insert a rule that is there.
THEOREM NoDuplicateMasqCorrect == Spec => []NoDuplicateMasq
<1>1. MInv => NoDuplicateMasq
  BY DEF MInv
<1> QED BY <1>1, MInvAlways, PTL

\* A cleanup that met one masquerade rule at most, and that nothing disturbed, has
\* deleted that rule and no other.
THEOREM CleanupExactCorrect == Spec => []CleanupExact
<1>1. MInv => CleanupExact
  BY DEF MInv
<1> QED BY <1>1, MInvAlways, PTL

=============================================================================
