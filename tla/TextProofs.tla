----------------------------- MODULE TextProofs -----------------------------
(***************************************************************************)
(* Proofs about what is read in the output of iptables: versions of any    *)
(* length and their order, and save files of any length.                   *)
(***************************************************************************)
EXTENDS Version, SaveFile, FiniteSetTheorems, WellFoundedInduction, TLAPS

\* A set of naturals that is not empty has a least member.
LEMMA MinOf ==
  ASSUME NEW S \in SUBSET Nat, S # {}
  PROVE  Min(S) \in S /\ \A y \in S : Min(S) <= y
<1> DEFINE R == OpToRel(<, Nat)
<1>1. \E x \in S : \A y \in S : ~(<<y, x>> \in R)
  <2>1. IsWellFoundedOn(R, Nat)
    BY NatLessThanWellFounded
  <2> HIDE DEF R
  <2> QED BY <2>1, WFMin, Zenon
<1>2. PICK x \in S : \A y \in S : ~(<<y, x>> \in R)
  BY <1>1
<1>0. R = {ss \in Nat \X Nat : ss[1] < ss[2]}
  BY Zenon DEF OpToRel
<1> HIDE DEF R
<1>3. \A y \in S : x <= y
  <2> SUFFICES ASSUME NEW y \in S, y < x PROVE FALSE
    OBVIOUS
  <2>1. <<y, x>> \in Nat \X Nat /\ <<y, x>>[1] < <<y, x>>[2]
    OBVIOUS
  <2> QED BY <1>0, <1>2, <2>1
<1> QED BY <1>3, Zenon DEF Min

\* It is that of a part below the rest.
LEMMA MinOfPart ==
  ASSUME NEW S \in SUBSET Nat, NEW T \in SUBSET S, T # {}, \A x \in T, y \in S \ T : x < y
  PROVE  Min(T) = Min(S)
<1>1. Min(T) \in T /\ \A y \in T : Min(T) <= y
  BY MinOf
<1>2. Min(S) \in S /\ \A y \in S : Min(S) <= y
  BY MinOf, Zenon
<1>3. Min(S) \in Nat /\ Min(T) \in Nat
  BY <1>1, <1>2, Zenon
<1>4. CASE Min(S) \in T
  BY <1>1, <1>2, <1>3, <1>4
<1>5. CASE Min(S) \notin T
  BY <1>1, <1>2, <1>3, <1>5
<1> QED BY <1>4, <1>5

\* The versions that parse returns.
Versions ==
  {w \in [components: Seq(Nat), semver: BOOLEAN, preRelease: Seq(Identifiers)] :
     IF w.semver THEN Len(w.components) = 3 ELSE w.preRelease = <<>>}

\* parse returns a version, of the kind that was asked for, unless it refuses the text.
LEMMA ParsedIsVersion ==
  ASSUME NEW t \in Texts, NEW s \in BOOLEAN, parse(t, s) # Illegal
  PROVE  parse(t, s) \in Versions /\ parse(t, s).semver = s
<1>1. t.numbers \in Seq(Nat) /\ t.pre \in Seq(Identifiers)
  BY TextsAssumption
<1>2. /\ parse(t, s) = [components |-> t.numbers, semver |-> s,
                       preRelease |-> IF s THEN t.pre ELSE <<>>]
      /\ s => Len(t.numbers) = 3
  BY DEF parse
<1>3. <<>> \in Seq(Identifiers)
  OBVIOUS
<1> QED BY <1>1, <1>2, <1>3 DEF Versions

\* Where two versions differ, and where a loop over the first one sees it.
Differ(a, b) ==
  {i \in DOMAIN a.components \cup DOMAIN b.components : Component(a, i) # Component(b, i)}

SeenDiffer(a, b) == {i \in DOMAIN a.components : a.components[i] # Component(b, i)}

\* If the loop sees a difference, it decides at the first one there is.  If it sees none,
\* the difference is beyond the end of the first version, which is the older one.
LEMMA ComponentsFacts ==
  ASSUME NEW a \in Versions, NEW b \in Versions
  PROVE  /\ SeenDiffer(a, b) # {} =>
              /\ Differ(a, b) # {} /\ Min(SeenDiffer(a, b)) = Min(Differ(a, b))
              /\ a.components[Min(Differ(a, b))] = Component(a, Min(Differ(a, b)))
         /\ SeenDiffer(a, b) = {} /\ Differ(a, b) # {} =>
              /\ Len(a.components) < Len(b.components)
              /\ Sign(Component(a, Min(Differ(a, b))) - Component(b, Min(Differ(a, b)))) = -1
<1> DEFINE x == a.components
           y == b.components
           S == Differ(a, b)
           T == SeenDiffer(a, b)
<1>1. /\ x \in Seq(Nat) /\ DOMAIN x = 1..Len(x) /\ Len(x) \in Nat
      /\ y \in Seq(Nat) /\ DOMAIN y = 1..Len(y) /\ Len(y) \in Nat
  BY DEF Versions
<1>2. S \in SUBSET Nat
  BY <1>1 DEF Differ
<1>3. T = S \cap DOMAIN x
  BY <1>1 DEF Differ, SeenDiffer, Component
<1>4. ASSUME NEW i \in S, i \notin DOMAIN x
      PROVE  /\ i > Len(x) /\ i <= Len(y) /\ Component(a, i) = 0 /\ Component(b, i) \in Nat \ {0}
  <2>1. i \in DOMAIN y /\ Component(a, i) = 0 /\ Component(b, i) = y[i]
    BY <1>4 DEF Differ, Component
  <2>2. Component(b, i) # 0
    BY <2>1 DEF Differ
  <2>3. y[i] \in Nat
    BY <1>1, <2>1
  <2>4. i \in 1..Len(y) /\ i \notin 1..Len(x)
    BY <1>1, <1>4, <2>1
  <2>5. i > Len(x) /\ i <= Len(y)
    BY <1>1, <2>4
  <2> QED BY <2>1, <2>2, <2>3, <2>5
<1> HIDE DEF S, T
<1>5. CASE T # {}
  <2>1. T \in SUBSET S /\ S # {}
    BY <1>3, <1>5
  <2>2. ASSUME NEW i \in T, NEW j \in S \ T PROVE i < j
    <3>1. i \in 1..Len(x) /\ j \notin DOMAIN x
      BY <1>1, <1>3
    <3>2. j > Len(x) /\ j \in Nat
      BY <1>2, <1>4, <3>1
    <3> QED BY <1>1, <3>1, <3>2
  <2>3. Min(T) = Min(S)
    BY <1>2, <1>5, <2>1, <2>2, MinOfPart
  <2>4. Min(T) \in T
    BY <1>2, <1>5, <2>1, MinOf
  <2>5. a.components[Min(S)] = Component(a, Min(S))
    BY <1>3, <2>3, <2>4 DEF Component
  <2> QED BY <1>5, <2>1, <2>3, <2>5 DEF S, T
<1>6. CASE T = {} /\ S # {}
  <2>1. Min(S) \in S
    BY <1>2, <1>6, MinOf
  <2> DEFINE m == Min(S)
  <2> HIDE DEF m
  <2>2. /\ m > Len(x) /\ m <= Len(y) /\ Component(a, m) = 0 /\ Component(b, m) \in Nat \ {0}
        /\ m \in Nat
    BY <1>2, <1>3, <1>4, <1>6, <2>1, Zenon DEF m
  <2>3. Len(x) < Len(y)
    BY <1>1, <2>2
  <2>4. Sign(Component(a, m) - Component(b, m)) = -1
    BY <2>2 DEF Sign
  <2> QED BY <1>6, <2>3, <2>4 DEF S, T, m
<1>7. CASE T = {} /\ S = {}
  BY <1>7 DEF S, T
<1> QED BY <1>5, <1>6, <1>7, Zenon

\* The same for two pre-releases: where the loop over the first sees no difference, it is
\* no longer than the second.
LEMMA PreReleaseFacts ==
  ASSUME NEW p \in Seq(Identifiers), NEW q \in Seq(Identifiers),
         NEW D, D = {i \in DOMAIN p \cap DOMAIN q : Identifier(p[i], q[i]) # 0}
  PROVE  /\ D # {} => comparePreRelease(p, q) = Identifier(p[Min(D)], q[Min(D)])
         /\ D = {} => \/ comparePreRelease(p, q) = Sign(Len(p) - Len(q))
                      \/ /\ comparePreRelease(p, q) = 0 /\ Sign(Len(p) - Len(q)) = -1
                         /\ Len(p) < Len(q) /\ \A i \in DOMAIN p : Identifier(p[i], q[i]) = 0
<1> DEFINE T == {i \in DOMAIN p : i > Len(q) \/ Identifier(p[i], q[i]) # 0}
<1>1. /\ DOMAIN p = 1..Len(p) /\ DOMAIN q = 1..Len(q) /\ Len(p) \in Nat /\ Len(q) \in Nat
  OBVIOUS
<1>2. T \in SUBSET Nat
  BY <1>1
<1>3. D = T \cap 1..Len(q)
  <2>1. ASSUME NEW i \in D PROVE i \in T \cap 1..Len(q)
    BY <1>1
  <2>2. ASSUME NEW i \in T, i \in 1..Len(q) PROVE i \in D
    <3>1. ~(i > Len(q))
      BY <1>1, <2>2
    <3> QED BY <1>1, <2>2, <3>1
  <2> QED BY <2>1, <2>2
<1>4. comparePreRelease(p, q) =
        IF T = {} THEN 0
        ELSE IF Min(T) > Len(q) THEN 1 ELSE Identifier(p[Min(T)], q[Min(T)])
  BY DEF comparePreRelease
<1>5. ASSUME NEW i \in T, i \notin 1..Len(q) PROVE i > Len(q) /\ i <= Len(p) /\ i \in Nat
  <2>1. i \in 1..Len(p)
    BY <1>1
  <2> QED BY <1>1, <1>5, <2>1
<1>6. T = {} => Len(p) <= Len(q)
  <2> SUFFICES ASSUME Len(p) > Len(q) PROVE Len(p) \in T
    BY <1>1
  <2> QED BY <1>1
<1> HIDE DEF T
<1>7. CASE D # {}
  <2>1. D \in SUBSET T
    BY <1>3
  <2>2. ASSUME NEW i \in D, NEW j \in T \ D PROVE i < j
    <3>1. i \in 1..Len(q) /\ j \notin 1..Len(q)
      BY <1>3
    <3>2. j > Len(q) /\ j \in Nat
      BY <1>5, <3>1
    <3> QED BY <1>1, <3>1, <3>2
  <2>3. Min(D) = Min(T)
    BY <1>2, <1>7, <2>1, <2>2, MinOfPart, Zenon
  <2>4. Min(D) \in D
    BY <1>2, <1>7, <2>1, MinOf, Zenon
  <2>5. Min(T) \in 1..Len(q) /\ T # {}
    BY <1>3, <1>7, <2>3, <2>4
  <2>6. ~(Min(T) > Len(q))
    BY <1>1, <2>5
  <2>7. comparePreRelease(p, q) = Identifier(p[Min(D)], q[Min(D)])
    BY <1>4, <2>3, <2>5, <2>6
  <2> QED BY <1>7, <2>7, Zenon
<1>8. CASE D = {} /\ T # {}
  <2>1. Min(T) \in T
    BY <1>2, <1>8, MinOf
  <2>2. Min(T) > Len(q) /\ Min(T) <= Len(p) /\ Min(T) \in Nat
    BY <1>3, <1>5, <1>8, <2>1
  <2>3. Len(p) > Len(q)
    BY <1>1, <2>2
  <2>4. Sign(Len(p) - Len(q)) = 1
    BY <1>1, <2>3 DEF Sign
  <2> QED BY <1>4, <1>8, <2>2, <2>4
<1>9. CASE T = {}
  <2>1. comparePreRelease(p, q) = 0 /\ D = {}
    BY <1>3, <1>4, <1>9
  <2>6. \A i \in DOMAIN p : Identifier(p[i], q[i]) = 0
    BY <1>9, Zenon DEF T
  <2>5. Len(p) <= Len(q)
    BY <1>6, <1>9, Zenon
  <2>2. CASE Len(p) = Len(q)
    BY <1>1, <2>1, <2>2 DEF Sign
  <2>3. CASE Len(p) < Len(q)
    BY <1>1, <2>1, <2>3, <2>6 DEF Sign
  <2>4. Len(p) = Len(q) \/ Len(p) < Len(q)
    <3>1. \A a, b \in Nat : a <= b => a = b \/ a < b
      OBVIOUS
    <3> QED BY <1>1, <2>5, <3>1, Zenon
  <2> QED BY <2>2, <2>3, <2>4, Zenon
<1> QED BY <1>7, <1>8, <1>9

\* Where the code finds two identifiers equal Semantic Versioning does, and where both
\* are numbers or both are words it orders them the same way.
LEMMA IdentifierFacts ==
  ASSUME NEW a \in Identifiers, NEW b \in Identifiers
  PROVE  /\ Identifier(a, b) = 0 => SemverIdentifier(a, b) = 0
         /\ (IsUint(a) /\ IsUint(b)) \/ (~a.digits /\ ~b.digits)
              => SemverIdentifier(a, b) = Identifier(a, b)
<1>1. /\ a.digits \in BOOLEAN /\ b.digits \in BOOLEAN /\ a.value \in Nat /\ b.value \in Nat
      /\ a.text \in Int /\ b.text \in Int /\ (a.text = b.text => a = b)
  BY IdentifiersAssumption
<1>2. CASE IsUint(a) /\ IsUint(b)
  BY <1>2 DEF IsUint, Identifier, SemverIdentifier
<1>3. CASE ~a.digits /\ ~b.digits
  <2>1. Identifier(a, b) = Sign(a.text - b.text)
    BY <1>3, Zenon DEF IsUint, Identifier
  <2>2. SemverIdentifier(a, b) = Sign(a.text - b.text)
    BY <1>3, Zenon DEF SemverIdentifier
  <2> QED BY <2>1, <2>2, Zenon
<1>4. CASE ~(IsUint(a) /\ IsUint(b)) /\ (a.digits \/ b.digits)
  <2>1. Identifier(a, b) = Sign(a.text - b.text)
    BY <1>4 DEF Identifier
  <2>2. Identifier(a, b) = 0 => a = b
    BY <1>1, <2>1 DEF Sign
  <2>3. SemverIdentifier(a, a) = 0
    BY <1>1 DEF SemverIdentifier, Sign
  <2> QED BY <1>4, <2>2, <2>3
<1> QED BY <1>1, <1>2, <1>3, <1>4

\* Where two pre-releases part, for the code and for Semantic Versioning.
Parting(p, q) == {i \in DOMAIN p \cap DOMAIN q : Identifier(p[i], q[i]) # 0}

SemverParting(p, q) == {i \in DOMAIN p \cap DOMAIN q : SemverIdentifier(p[i], q[i]) # 0}

\* If no number is compared as a string, the pre-releases part at the same identifiers in
\* both orders, and are ordered by them in the same way.
LEMMA SameParting ==
  ASSUME NEW a \in Versions, NEW b \in Versions, SeenDiffer(a, b) = {}, ~NumberAsText(a, b)
  PROVE  LET p == a.preRelease
             q == b.preRelease
             D == Parting(p, q)
             E == SemverParting(p, q)
         IN /\ D = {} <=> E = {}
            /\ D # {} =>
                 /\ Min(D) = Min(E)
                 /\ SemverIdentifier(p[Min(D)], q[Min(D)]) = Identifier(p[Min(D)], q[Min(D)])
<1> DEFINE p == a.preRelease
           q == b.preRelease
           D == Parting(p, q)
           E == SemverParting(p, q)
<1>1. p \in Seq(Identifiers) /\ q \in Seq(Identifiers)
  BY DEF Versions
<1>2. /\ DOMAIN p = 1..Len(p) /\ DOMAIN q = 1..Len(q) /\ Len(p) \in Nat /\ Len(q) \in Nat
  BY <1>1
<1>3. \A i \in DOMAIN p \cap DOMAIN q : p[i] \in Identifiers /\ q[i] \in Identifiers
  BY <1>1
<1>4. D \in SUBSET Nat /\ E \in SUBSET D
  <2>1. \A i \in DOMAIN p \cap DOMAIN q :
          Identifier(p[i], q[i]) = 0 => SemverIdentifier(p[i], q[i]) = 0
    BY <1>3, IdentifierFacts, Zenon
  <2>2. DOMAIN p \cap DOMAIN q \in SUBSET Nat
    BY <1>2
  <2> QED BY <2>1, <2>2, Zenon DEF Parting, SemverParting
<1> SUFFICES /\ D = {} <=> E = {}
             /\ D # {} =>
                  /\ Min(D) = Min(E)
                  /\ SemverIdentifier(p[Min(D)], q[Min(D)]) = Identifier(p[Min(D)], q[Min(D)])
  OBVIOUS
<1> HIDE DEF p, q, D, E
<1>5. CASE D # {}
  <2> DEFINE m == Min(D)
  <2>1. m \in D /\ \A y \in D : m <= y
    BY <1>4, <1>5, MinOf
  <2>2. m \in DOMAIN p \cap DOMAIN q /\ Identifier(p[m], q[m]) # 0 /\ m \in Nat
    BY <1>4, <2>1, Zenon DEF Parting, D
  <2> HIDE DEF m
  <2>3. ASSUME NEW j \in 1..(m - 1) PROVE Identifier(p[j], q[j]) = 0
    <3>1. j \in DOMAIN p \cap DOMAIN q /\ ~(m <= j)
      BY <1>2, <2>2
    <3> QED BY <2>1, <3>1, Zenon DEF Parting, D
  <2>4. (IsUint(p[m]) /\ IsUint(q[m])) \/ (~p[m].digits /\ ~q[m].digits)
    <3>1. \A i \in DOMAIN a.components : a.components[i] = Component(b, i)
      BY Zenon DEF SeenDiffer
    <3> QED BY <2>2, <2>3, <3>1, Zenon DEF NumberAsText, p, q
  <2>5. SemverIdentifier(p[m], q[m]) = Identifier(p[m], q[m])
    BY <1>3, <2>2, <2>4, IdentifierFacts, Zenon
  <2>6. m \in E
    BY <2>2, <2>5, Zenon DEF SemverParting, E
  <2>7. Min(E) \in E /\ \A y \in E : Min(E) <= y
    BY <1>4, <2>6, MinOf
  <2>8. Min(E) \in Nat /\ m <= Min(E) /\ Min(E) <= m
    BY <1>4, <2>1, <2>6, <2>7, Zenon
  <2>9. m = Min(E)
    BY <2>2, <2>8
  <2> QED BY <1>5, <2>5, <2>6, <2>9, Zenon DEF m
<1>6. CASE D = {}
  BY <1>4, <1>6, Zenon
<1> QED BY <1>5, <1>6, Zenon

\* compareInternal for any two versions of the same kind.
LEMMA CompareErrs ==
  ASSUME NEW a \in Versions, NEW b \in Versions, a.semver = b.semver, ~NumberAsText(a, b)
  PROVE  \/ compareInternal(a, b) = SemverOrder(a, b)
         \/ compareInternal(a, b) = 0 /\ SemverOrder(a, b) = -1 /\ BeyondEnd(a, b)
<1> DEFINE S == Differ(a, b)
           T == SeenDiffer(a, b)
           p == a.preRelease
           q == b.preRelease
           D == Parting(p, q)
           E == SemverParting(p, q)
<1>1. compareInternal(a, b) =
        CASE T # {} -> Sign(a.components[Min(T)] - Component(b, Min(T)))
          [] T = {} /\ (~a.semver \/ ~b.semver) -> 0
          [] OTHER -> IF p = <<>> \/ q = <<>> THEN Sign(Len(q) - Len(p))
                      ELSE comparePreRelease(p, q)
  BY DEF compareInternal, SeenDiffer
<1>2. SemverOrder(a, b) =
        CASE S # {} -> Sign(Component(a, Min(S)) - Component(b, Min(S)))
          [] S = {} /\ (p = <<>> \/ q = <<>>) -> Sign(Len(q) - Len(p))
          [] OTHER -> IF E = {} THEN Sign(Len(p) - Len(q))
                      ELSE SemverIdentifier(p[Min(E)], q[Min(E)])
  BY DEF SemverOrder, Differ, SemverParting
<1>3. /\ p \in Seq(Identifiers) /\ q \in Seq(Identifiers) /\ a.semver \in BOOLEAN
      /\ a.semver => Len(a.components) = 3 /\ Len(b.components) = 3
      /\ ~a.semver => p = <<>> /\ q = <<>>
  BY DEF Versions
<1>4. /\ D # {} => comparePreRelease(p, q) = Identifier(p[Min(D)], q[Min(D)])
      /\ D = {} => \/ comparePreRelease(p, q) = Sign(Len(p) - Len(q))
                   \/ /\ comparePreRelease(p, q) = 0 /\ Sign(Len(p) - Len(q)) = -1
                      /\ Len(p) < Len(q) /\ \A i \in DOMAIN p : Identifier(p[i], q[i]) = 0
  BY <1>3, PreReleaseFacts, Zenon DEF Parting
<1>5. /\ T # {} => /\ S # {} /\ Min(T) = Min(S)
                   /\ a.components[Min(S)] = Component(a, Min(S))
      /\ T = {} /\ S # {} => /\ Len(a.components) < Len(b.components)
                             /\ Sign(Component(a, Min(S)) - Component(b, Min(S))) = -1
  BY ComponentsFacts
<1>10. T = {} => \A i \in DOMAIN a.components : a.components[i] = Component(b, i)
  BY Zenon DEF SeenDiffer
<1>11. ASSUME T = {}
       PROVE  /\ D = {} <=> E = {}
              /\ D # {} => /\ Min(D) = Min(E)
                           /\ SemverIdentifier(p[Min(D)], q[Min(D)])
                                = Identifier(p[Min(D)], q[Min(D)])
  BY <1>11, SameParting, Zenon
<1> HIDE DEF S, T, p, q, D, E
<1>6. CASE T # {}
  BY <1>1, <1>2, <1>5, <1>6
<1>7. CASE T = {} /\ S # {}
  <2>1. SemverOrder(a, b) = -1 /\ Len(a.components) < Len(b.components)
    BY <1>2, <1>5, <1>7
  <2>2. ~a.semver
    BY <1>3, <2>1
  <2>3. compareInternal(a, b) = 0
    BY <1>1, <1>7, <2>2
  <2>4. BeyondEnd(a, b)
    BY <1>7, <1>10, <2>1, Zenon DEF BeyondEnd
  <2> QED BY <2>1, <2>3, <2>4
<1>8. CASE T = {} /\ S = {} /\ ~a.semver
  <2>1. compareInternal(a, b) = 0
    BY <1>1, <1>8
  <2>2. SemverOrder(a, b) = Sign(0)
    BY <1>2, <1>3, <1>8
  <2> QED BY <2>1, <2>2 DEF Sign
<1>9. CASE T = {} /\ S = {} /\ a.semver
  <2>1. compareInternal(a, b) = IF p = <<>> \/ q = <<>> THEN Sign(Len(q) - Len(p))
                                ELSE comparePreRelease(p, q)
    BY <1>1, <1>9
  <2>2. CASE p = <<>> \/ q = <<>>
    BY <1>2, <1>9, <2>1, <2>2
  <2>3. CASE ~(p = <<>> \/ q = <<>>)
    <3>1. SemverOrder(a, b) = IF E = {} THEN Sign(Len(p) - Len(q))
                              ELSE SemverIdentifier(p[Min(E)], q[Min(E)])
      BY <1>2, <1>9, <2>3
    <3>2. compareInternal(a, b) = comparePreRelease(p, q)
      BY <2>1, <2>3
    <3>3. CASE D # {}
      BY <1>4, <1>9, <1>11, <3>1, <3>2, <3>3, Zenon
    <3>4. CASE D = {}
      <4>1. SemverOrder(a, b) = Sign(Len(p) - Len(q))
        BY <1>9, <1>11, <3>1, <3>4, Zenon
      <4>2. CASE Len(p) < Len(q) /\ \A i \in DOMAIN p : Identifier(p[i], q[i]) = 0
        <5>1. BeyondEnd(a, b)
          BY <1>9, <1>10, <4>2, Zenon DEF BeyondEnd, p, q
        <5> QED BY <1>4, <3>2, <3>4, <4>1, <5>1, Zenon
      <4> QED BY <1>4, <3>2, <3>4, <4>1, <4>2, Zenon
    <3> QED BY <3>3, <3>4
  <2> QED BY <2>2, <2>3
<1> QED BY <1>6, <1>7, <1>8, <1>9

\* The least of three.
LEMMA FirstOfThree ==
  ASSUME NEW T \in SUBSET {1, 2, 3}
  PROVE  /\ 1 \in T => T # {} /\ Min(T) = 1
         /\ 2 \in T /\ 1 \notin T => T # {} /\ Min(T) = 2
         /\ 3 \in T /\ 1 \notin T /\ 2 \notin T => T # {} /\ Min(T) = 3
<1>1. T \in SUBSET Nat
  OBVIOUS
<1>2. T # {} => Min(T) \in T /\ \A y \in T : Min(T) <= y
  BY <1>1, MinOf, Zenon
<1> SUFFICES ASSUME NEW k \in T, \A j \in {1, 2, 3} : j < k => j \notin T
             PROVE  Min(T) = k
  <2>1. \A j \in {1, 2, 3} : (j < 1 => FALSE) /\ (j < 2 => j = 1) /\ (j < 3 => j = 1 \/ j = 2)
    OBVIOUS
  <2> QED BY <2>1, Zenon
<1>3. Min(T) \in {1, 2, 3} /\ Min(T) \in T /\ Min(T) <= k /\ k \in {1, 2, 3}
  BY <1>2, Zenon
<1>4. ~(Min(T) < k)
  BY <1>3, Zenon
<1>5. \A a, b \in {1, 2, 3} : a <= b /\ ~(a < b) => a = b
  OBVIOUS
<1> QED BY <1>3, <1>4, <1>5, Zenon

\* A version of three numbers is older than 1.4.c when the numbers are, in their order.
LEMMA OlderThan ==
  ASSUME NEW w \in Versions, Len(w.components) = 3, NEW c \in Nat, NEW m,
         m = [components |-> <<1, 4, c>>, semver |-> FALSE, preRelease |-> <<>>]
  PROVE  compareInternal(w, m) = -1 <=>
           LET n == w.components
           IN  n[1] < 1 \/ (n[1] = 1 /\ n[2] < 4) \/ (n[1] = 1 /\ n[2] = 4 /\ n[3] < c)
<1> DEFINE n == w.components
           T == SeenDiffer(w, m)
<1>1. DOMAIN n = 1..3 /\ n[1] \in Nat /\ n[2] \in Nat /\ n[3] \in Nat
  BY DEF Versions
<1>2. Component(m, 1) = 1 /\ Component(m, 2) = 4 /\ Component(m, 3) = c /\ ~m.semver
  BY DEF Component
<1>3. compareInternal(w, m) = IF T # {} THEN Sign(n[Min(T)] - Component(m, Min(T))) ELSE 0
  BY <1>2, Zenon DEF compareInternal, SeenDiffer
<1>4. /\ T \in SUBSET {1, 2, 3}
      /\ 1 \in T <=> n[1] # 1
      /\ 2 \in T <=> n[2] # 4
      /\ 3 \in T <=> n[3] # c
  BY <1>1, <1>2 DEF SeenDiffer
<1>5. /\ 1 \in T => T # {} /\ Min(T) = 1
      /\ 2 \in T /\ 1 \notin T => T # {} /\ Min(T) = 2
      /\ 3 \in T /\ 1 \notin T /\ 2 \notin T => T # {} /\ Min(T) = 3
  BY <1>4, FirstOfThree, Zenon
<1> HIDE DEF T, n
<1>6. CASE n[1] # 1
  <2>1. T # {} /\ Min(T) = 1
    BY <1>4, <1>5, <1>6, Zenon
  <2>2. compareInternal(w, m) = Sign(n[1] - 1)
    BY <1>2, <1>3, <2>1
  <2> QED BY <1>1, <1>6, <2>2 DEF Sign, n
<1>7. CASE n[1] = 1 /\ n[2] # 4
  <2>1. T # {} /\ Min(T) = 2
    BY <1>4, <1>5, <1>7, Zenon
  <2>2. compareInternal(w, m) = Sign(n[2] - 4)
    BY <1>2, <1>3, <2>1
  <2> QED BY <1>1, <1>7, <2>2 DEF Sign, n
<1>8. CASE n[1] = 1 /\ n[2] = 4 /\ n[3] # c
  <2>1. T # {} /\ Min(T) = 3
    BY <1>4, <1>5, <1>8, Zenon
  <2>2. compareInternal(w, m) = Sign(n[3] - c)
    BY <1>2, <1>3, <2>1
  <2> QED BY <1>1, <1>8, <2>2 DEF Sign, n
<1>9. CASE n[1] = 1 /\ n[2] = 4 /\ n[3] = c
  <2>1. T = {}
    BY <1>4, <1>9
  <2> QED BY <1>1, <1>3, <1>9, <2>1 DEF n
<1> QED BY <1>6, <1>7, <1>8, <1>9

\* The version is parsed, and the result is that of the last comparison.
VersionInv ==
  v \in Versions /\ other \in Texts /\ result = Compare(v, other)

\* Parsing and comparing keep the invariant of Version.
LEMMA VersionAlways == VersionSpec => []VersionInv
<1>1. VersionInit => VersionInv
  BY ParsedIsVersion DEF VersionInit, VersionInv
<1>2. VersionInv /\ [VersionNext]_vvars => VersionInv'
  BY DEF VersionInv, VersionNext, vvars
<1> QED BY <1>1, <1>2, PTL DEF VersionSpec

\* For all versions, Compare is the order of Semantic Versioning that AtLeast's comment
\* promises, except that it calls equal what is older when all that tells the versions
\* apart is beyond the end of the left one, and that it orders a number and a word, and
\* numbers too large for ParseUint, as strings.
THEOREM ComparesLikeSemver == VersionSpec => []CompareFollowsSemver
<1>1. VersionInv => CompareFollowsSemver
  <2> SUFFICES ASSUME VersionInv, result # Illegal PROVE CompareFollowsSemver
    BY DEF CompareFollowsSemver
  <2> DEFINE b == parse(other, v.semver)
  <2>1. v \in Versions /\ other \in Texts /\ v.semver \in BOOLEAN
    BY DEF VersionInv, Versions
  <2>2. b # Illegal /\ result = compareInternal(v, b)
    BY DEF VersionInv, Compare
  <2>3. b \in Versions /\ b.semver = v.semver
    BY <2>1, <2>2, ParsedIsVersion
  <2> HIDE DEF b
  <2> QED BY <2>1, <2>2, <2>3, CompareErrs, Zenon DEF CompareFollowsSemver, b
<1> QED BY <1>1, VersionAlways, PTL

\* For every version of three numbers that ParseGeneric accepts, go-iptables and
\* pkg/util/iptables agree on what it can do.
THEOREM DecisionsAgree == VersionSpec => []CapabilitiesAgree
<1>1. VersionInv => CapabilitiesAgree
  <2> DEFINE w == parse(other, FALSE)
             n == other.numbers
             Older(c) == n[1] < 1 \/ (n[1] = 1 /\ n[2] < 4) \/ (n[1] = 1 /\ n[2] = 4 /\ n[3] < c)
  <2> SUFFICES ASSUME VersionInv, Len(n) = 3, w # Illegal PROVE CapabilitiesAgree
    BY DEF CapabilitiesAgree
  <2>1. w \in Versions
    BY ParsedIsVersion, Zenon DEF VersionInv
  <2>2. w.components = n
    BY DEF parse
  <2> HIDE DEF w
  <2>3. Len(w.components) = 3 /\ n[1] \in Nat /\ n[2] \in Nat /\ n[3] \in Nat
    BY <2>1, <2>2 DEF Versions
  <2>4. compareInternal(w, MinCheckVersion) = -1 <=> Older(11)
    BY <2>1, <2>2, <2>3, OlderThan DEF MinCheckVersion
  <2>5. compareInternal(w, MinWaitVersion) = -1 <=> Older(20)
    BY <2>1, <2>2, <2>3, OlderThan DEF MinWaitVersion
  <2>6. getIPTablesHasCheckCommand(other) <=> ~Older(11)
    BY <2>4, Zenon DEF getIPTablesHasCheckCommand, AtLeast, w
  <2>7. getIPTablesWaitFlag(other) = "none" <=> Older(20)
    BY <2>5, Zenon DEF getIPTablesWaitFlag, LessThan, w
  <2>8. iptablesHasCheckCommand(n[1], n[2], n[3]) <=> ~Older(11)
    BY <2>3 DEF iptablesHasCheckCommand
  <2>9. iptablesHasWaitCommand(n[1], n[2], n[3]) <=> ~Older(20)
    BY <2>3 DEF iptablesHasWaitCommand
  <2> QED BY <2>6, <2>7, <2>8, <2>9, Zenon DEF CapabilitiesAgree
<1> QED BY <1>1, VersionAlways, PTL

-----------------------------------------------------------------------------

Bytes == {"sp", "nl", "x"}

Before(k) == {q \in Newlines : q < k}

\* The line from i ends at e.
EndsAt(i, e) == e \in i..Len(bytes) /\ bytes[e] = "nl" /\ \A p \in i..(e - 1) : bytes[p] # "nl"

WordsOf(i, e) == {p \in i..(e - 1) : bytes[p] = "x"}

\* Counting newlines: those before an index, and before the one after it.
LEMMA NewlinesBefore ==
  ASSUME bytes \in Seq(Bytes)
  PROVE  /\ DOMAIN bytes = 1..Len(bytes) /\ Len(bytes) \in Nat
         /\ IsFiniteSet(Newlines) /\ Newlines \in SUBSET (1..Len(bytes))
         /\ \A k : /\ IsFiniteSet(Before(k)) /\ Cardinality(Before(k)) \in Nat
                   /\ Cardinality(Before(k)) <= Cardinality(Newlines)
<1>1. DOMAIN bytes = 1..Len(bytes) /\ Len(bytes) \in Nat
  OBVIOUS
<1>2. Newlines \in SUBSET (1..Len(bytes))
  BY <1>1 DEF Newlines
<1>3. IsFiniteSet(1..Len(bytes))
  BY <1>1, FS_Interval
<1>4. IsFiniteSet(Newlines)
  BY <1>2, <1>3, FS_Subset, Zenon
<1>5. ASSUME NEW k
      PROVE  /\ IsFiniteSet(Before(k)) /\ Cardinality(Before(k)) \in Nat
             /\ Cardinality(Before(k)) <= Cardinality(Newlines)
  <2>1. Before(k) \in SUBSET Newlines
    BY DEF Before
  <2> QED BY <1>4, <2>1, FS_Subset, FS_CardinalityType
<1> QED BY <1>1, <1>2, <1>4, <1>5

\* The n-th line is the one after n - 1 newlines, up to the next one.
LEMMA LinePositions ==
  ASSUME bytes \in Seq(Bytes), NEW i \in 1..Len(bytes), NEW n \in Nat \ {0}, NEW e, EndsAt(i, e),
         Cardinality(Before(i)) = n - 1, i = 1 \/ bytes[i - 1] = "nl"
  PROVE  Cardinality(Before(e + 1)) = n /\ Within(n) = i..(e - 1)
<1>1. /\ DOMAIN bytes = 1..Len(bytes) /\ Len(bytes) \in Nat
      /\ IsFiniteSet(Newlines) /\ Newlines \in SUBSET (1..Len(bytes))
  BY NewlinesBefore
<1>2. \A k : /\ IsFiniteSet(Before(k)) /\ Cardinality(Before(k)) \in Nat
  BY NewlinesBefore
<1>3. e \in i..Len(bytes) /\ e \in Newlines /\ \A p \in i..(e - 1) : p \notin Newlines
  BY <1>1 DEF EndsAt, Newlines
<1>4. Before(e + 1) = Before(i) \cup {e} /\ e \notin Before(i)
  <2>1. \A q \in Newlines : q < e + 1 <=> q < i \/ q = e
    BY <1>1, <1>3
  <2>2. ~(e < i)
    BY <1>1, <1>3
  <2> QED BY <1>3, <2>1, <2>2, Zenon DEF Before
<1>5. Cardinality(Before(e + 1)) = n
  <2>1. Cardinality(Before(i) \cup {e}) = Cardinality(Before(i)) + 1
    BY <1>2, <1>4, FS_AddElement, Zenon
  <2>2. (n - 1) + 1 = n
    OBVIOUS
  <2> QED BY <1>4, <2>1, <2>2, Zenon
<1>6. ASSUME NEW p \in i..(e - 1) PROVE p \in Within(n)
  <2>1. p \in DOMAIN bytes /\ bytes[p] # "nl"
    BY <1>1, <1>3, <1>6 DEF EndsAt
  <2>2. Before(p) = Before(i)
    <3>1. \A q \in Newlines : q < p <=> q < i
      BY <1>1, <1>3, <1>6
    <3> QED BY <3>1, Zenon DEF Before
  <2> QED BY <2>1, <2>2, Zenon DEF Within, Before
<1>7. ASSUME NEW p \in Within(n) PROVE p \in i..(e - 1)
  <2>1. p \in 1..Len(bytes) /\ p \notin Newlines /\ Cardinality(Before(p)) = n - 1
    BY <1>1, <1>7 DEF Within, Newlines, Before
  <2>2. p # e
    BY <1>3, <2>1
  <2>3. ~(p > e)
    <3> SUFFICES ASSUME p > e PROVE FALSE
      OBVIOUS
    <3>1. Before(e + 1) \in SUBSET Before(p)
      <4>1. \A q \in Newlines : q < e + 1 => q < p
        BY <1>1, <1>3, <2>1
      <4> QED BY <4>1, Zenon DEF Before
    <3>2. Cardinality(Before(e + 1)) <= Cardinality(Before(p))
      BY <1>2, <3>1, FS_Subset
    <3> QED BY <1>5, <2>1, <3>2
  <2>4. ~(p < i)
    <3> SUFFICES ASSUME p < i PROVE FALSE
      OBVIOUS
    <3>1. i - 1 \in Newlines /\ p < i - 1
      <4>1. i # 1
        BY <2>1
      <4>2. i - 1 \in Newlines
        BY <1>1, <4>1 DEF Newlines
      <4>3. p # i - 1
        BY <2>1, <4>2
      <4> QED BY <2>1, <4>2, <4>3
    <3>2. Before(p) \in SUBSET Before(i) /\ i - 1 \in Before(i) /\ i - 1 \notin Before(p)
      <4>1. \A q \in Newlines : q < p => q < i
        BY <1>1, <2>1
      <4>2. i - 1 < i /\ ~(i - 1 < p)
        BY <2>1, <3>1
      <4> QED BY <3>1, <4>1, <4>2, Zenon DEF Before
    <3>3. Cardinality(Before(i)) = Cardinality(Before(p))
      BY <2>1
    <3>4. Before(i) = Before(p)
      BY <1>2, <3>2, <3>3, FS_Subset
    <3> QED BY <3>2, <3>4
  <2> QED BY <1>1, <1>3, <2>1, <2>2, <2>3, <2>4
<1> QED BY <1>5, <1>6, <1>7, Zenon

\* There is one when there are n newlines.
LEMMA NextNewline ==
  ASSUME bytes \in Seq(Bytes), NEW i \in 1..Len(bytes),
         \E q \in Newlines : q >= i
  PROVE  \E e : EndsAt(i, e)
<1> DEFINE S == {q \in Newlines : q >= i}
<1>1. Newlines \in SUBSET (1..Len(bytes)) /\ Len(bytes) \in Nat /\ DOMAIN bytes = 1..Len(bytes)
  BY NewlinesBefore
<1>2. S \in SUBSET Nat /\ S # {}
  <2>1. Newlines \in SUBSET Nat
    BY <1>1
  <2> QED BY <2>1, Zenon
<1>3. Min(S) \in S /\ \A y \in S : Min(S) <= y
  BY <1>2, MinOf, Zenon
<1>4. EndsAt(i, Min(S))
  <2>1. Min(S) \in i..Len(bytes) /\ bytes[Min(S)] = "nl"
    BY <1>1, <1>3 DEF Newlines
  <2>2. ASSUME NEW p \in i..(Min(S) - 1), bytes[p] = "nl" PROVE FALSE
    <3>1. p \in S
      BY <1>1, <2>1, <2>2 DEF Newlines
    <3> QED BY <1>3, <2>1, <2>2, <3>1
  <2> QED BY <2>1, <2>2 DEF EndsAt
<1> QED BY <1>4

\* ReadLine from i: where a newline follows, the line up to it, trimmed.
LEMMA ReadLineAt ==
  ASSUME bytes \in Seq(Bytes), NEW i \in 1..Len(bytes)
  PROVE  /\ ReadLine(i).line \in Seq(Bytes) /\ ReadLine(i).next \in 1..(Len(bytes) + 1)
         /\ ReadLine(i).next <= Len(bytes) => EndsAt(i, ReadLine(i).next - 1)
         /\ \A e : EndsAt(i, e) =>
              /\ ReadLine(i).next = e + 1
              /\ ReadLine(i).line = IF WordsOf(i, e) = {} THEN <<>>
                                    ELSE SubSeq(bytes, Min(WordsOf(i, e)), Max(WordsOf(i, e)))
<1> DEFINE last == Len(bytes)
<1>20. PICK L : L = {p \in i..last : bytes[p] # "sp"}
  BY Zenon
<1>21. PICK left : left = First(L, last + 1)
  BY Zenon
<1>22. PICK E : E = {p \in left..last : bytes[p] = "nl" \/ (p = last /\ bytes[p] # "sp")}
  BY Zenon
<1>23. PICK end : end = First(E, last + 1)
  BY Zenon
<1>24. PICK T : T = {p \in left..(end - 1) : \A q \in p..(end - 1) : bytes[q] = "sp"}
  BY Zenon
<1>25. PICK trim : trim = First(T, end)
  BY Zenon
<1>26. PICK right : right = IF trim = end /\ bytes[end] # "nl" THEN end + 1 ELSE trim
  BY Zenon
<1>1. last \in Nat /\ i \in 1..last /\ \A p \in 1..last : bytes[p] \in Bytes
  OBVIOUS
<1>2. ReadLine(i) = IF end > last THEN [line |-> <<>>, next |-> last + 1]
                    ELSE [line |-> IF end <= left THEN <<>> ELSE SubSeq(bytes, left, right - 1),
                          next |-> end + 1]
  BY <1>20, <1>21, <1>22, <1>23, <1>24, <1>25, <1>26, Zenon DEF ReadLine
<1>3. \/ L = {} /\ left = last + 1
      \/ left \in L /\ \A p \in L : left <= p
  <2>1. L \in SUBSET Nat
    BY <1>1, <1>20
  <2> QED BY <1>21, <2>1, MinOf, Zenon DEF First
<1>4. left \in i..(last + 1) /\ \A p \in i..(left - 1) : bytes[p] = "sp"
  <2>1. CASE L = {} /\ left = last + 1
    <3>1. \A p \in i..last : bytes[p] = "sp"
      BY <1>20, <2>1, Zenon
    <3>2. (last + 1) - 1 = last /\ last + 1 \in i..(last + 1)
      BY <1>1
    <3> QED BY <2>1, <3>1, <3>2, Zenon
  <2>2. CASE left \in L /\ \A p \in L : left <= p
    <3>1. left \in i..last
      BY <1>20, <2>2, Zenon
    <3>2. \A p \in i..last : p \in L <=> bytes[p] # "sp"
      BY <1>20, Zenon
    <3> QED BY <1>1, <2>2, <3>1, <3>2
  <2> QED BY <1>3, <2>1, <2>2, Zenon
<1>5. left <= last => bytes[left] # "sp"
  <2>1. CASE L = {} /\ left = last + 1
    <3>1. ~(last + 1 <= last)
      BY <1>1
    <3> QED BY <2>1, <3>1, Zenon
  <2>2. CASE left \in L
    BY <1>20, <2>2, Zenon
  <2> QED BY <1>3, <2>1, <2>2, Zenon
<1>6. \/ E = {} /\ end = last + 1
      \/ end \in E /\ \A p \in E : end <= p
  <2>1. E \in SUBSET Nat
    BY <1>1, <1>4, <1>22
  <2> QED BY <1>23, <2>1, MinOf, Zenon DEF First
<1>7. end <= last => /\ end \in left..last /\ (bytes[end] = "nl" \/ (end = last /\ bytes[end] # "sp"))
                     /\ \A p \in left..(end - 1) : bytes[p] # "nl"
  <2> SUFFICES ASSUME end <= last
               PROVE  /\ end \in left..last /\ (bytes[end] = "nl" \/ (end = last /\ bytes[end] # "sp"))
                      /\ \A p \in left..(end - 1) : bytes[p] # "nl"
    BY Zenon
  <2>1. ~(last + 1 <= last)
    BY <1>1
  <2>2. end \in E /\ \A p \in E : end <= p
    BY <1>6, <2>1, Zenon
  <2>3. end \in left..last /\ (bytes[end] = "nl" \/ (end = last /\ bytes[end] # "sp"))
    BY <1>22, <2>2, Zenon
  <2>4. \A p \in left..last : bytes[p] = "nl" => p \in E
    BY <1>22, Zenon
  <2>5. \A p \in left..(end - 1) : bytes[p] # "nl"
    BY <1>1, <1>4, <2>2, <2>3, <2>4
  <2> QED BY <2>3, <2>5, Zenon
<1>8. end > last <=> ~(end <= last)
  <2>1. end \in Nat
    <3>1. \A p \in E : p \in Nat
      BY <1>1, <1>4, <1>22
    <3>2. last + 1 \in Nat
      BY <1>1
    <3> QED BY <1>6, <3>1, <3>2, Zenon
  <2> QED BY <1>1, <2>1
<1>9. ASSUME NEW e, EndsAt(i, e) PROVE end = e /\ end <= last /\ bytes[end] = "nl" /\ left <= e
  <2>1. e \in i..last /\ bytes[e] = "nl"
    BY <1>9, Zenon DEF EndsAt
  <2>2. left <= e
    <3> SUFFICES ASSUME ~(left <= e) PROVE FALSE
      BY Zenon
    <3>1. e \in i..(left - 1)
      BY <1>1, <1>4, <2>1
    <3> QED BY <1>4, <2>1, <3>1
  <2>3. e \in E
    <3>1. e \in left..last
      BY <1>1, <1>4, <2>1, <2>2
    <3> QED BY <1>22, <2>1, <3>1, Zenon
  <2>4. end \in E /\ end <= e
    BY <1>6, <2>3, Zenon
  <2>5. end \in left..last /\ (bytes[end] = "nl" \/ end = last)
    BY <1>22, <2>4, Zenon
  <2>6. end = e
    <3> SUFFICES ASSUME end # e PROVE FALSE
      BY Zenon
    <3>1. end \in i..(e - 1) /\ end # last
      BY <1>1, <1>4, <2>1, <2>4, <2>5
    <3> QED BY <1>9, <2>5, <3>1, Zenon DEF EndsAt
  <2>7. end <= last
    BY <1>1, <2>5, <1>4
  <2> QED BY <2>1, <2>2, <2>6, <2>7, Zenon
<1>10. /\ ReadLine(i).next \in 1..(last + 1)
       /\ ReadLine(i).next <= last => EndsAt(i, ReadLine(i).next - 1)
  <2>1. CASE end > last
    <3>1. ReadLine(i).next = last + 1 /\ last + 1 \in 1..(last + 1) /\ ~(last + 1 <= last)
      BY <1>1, <1>2, <2>1
    <3> QED BY <3>1, Zenon
  <2>2. CASE end <= last
    <3>1. ReadLine(i).next = end + 1 /\ end \in left..last /\ (end + 1) - 1 = end
      BY <1>1, <1>2, <1>4, <1>7, <1>8, <2>2
    <3>2. end + 1 \in 1..(last + 1)
      BY <1>1, <1>4, <3>1
    <3>3. end + 1 <= last => EndsAt(i, end)
      <4> SUFFICES ASSUME end + 1 <= last PROVE EndsAt(i, end)
        BY Zenon
      <4>1. bytes[end] = "nl" /\ end \in i..last
        BY <1>1, <1>4, <1>7, <2>2, <3>1
      <4>2. ASSUME NEW p \in i..(end - 1) PROVE bytes[p] # "nl"
        <5>1. p \in i..(left - 1) \/ p \in left..(end - 1)
          BY <1>1, <1>4, <3>1
        <5> QED BY <1>4, <1>7, <2>2, <5>1
      <4> QED BY <4>1, <4>2 DEF EndsAt
    <3> QED BY <3>1, <3>2, <3>3, Zenon
  <2> QED BY <1>8, <2>1, <2>2, Zenon
<1>11. ASSUME NEW e, EndsAt(i, e)
       PROVE  /\ ReadLine(i).next = e + 1
              /\ ReadLine(i).line = IF WordsOf(i, e) = {} THEN <<>>
                                    ELSE SubSeq(bytes, Min(WordsOf(i, e)), Max(WordsOf(i, e)))
  <2> DEFINE W == WordsOf(i, e)
  <2>1. /\ end = e /\ e \in i..last /\ e <= last /\ bytes[e] = "nl" /\ left \in i..e
        /\ \A p \in left..(e - 1) : bytes[p] \in {"sp", "x"}
    <3>1. end = e /\ e <= last /\ bytes[e] = "nl" /\ left <= e /\ e \in i..last
      BY <1>9, <1>11, Zenon DEF EndsAt
    <3>2. left \in i..e
      BY <1>1, <1>4, <3>1
    <3>3. ASSUME NEW p \in left..(e - 1) PROVE bytes[p] \in {"sp", "x"}
      <4>1. p \in 1..last /\ p \in i..(e - 1)
        BY <1>1, <3>1, <3>2
      <4> QED BY <1>1, <1>11, <4>1, Zenon DEF EndsAt, Bytes
    <3> QED BY <3>1, <3>2, <3>3, Zenon
  <2>2. /\ ReadLine(i).next = e + 1
        /\ ReadLine(i).line = IF e <= left THEN <<>> ELSE SubSeq(bytes, left, right - 1)
    BY <1>2, <1>8, <2>1
  <2>3. \A p \in W : p \in left..(e - 1) /\ bytes[p] = "x"
    <3> SUFFICES ASSUME NEW p \in W PROVE p \in left..(e - 1) /\ bytes[p] = "x"
      OBVIOUS
    <3>1. p \in i..(e - 1) /\ bytes[p] = "x"
      BY Zenon DEF WordsOf
    <3>2. p \notin i..(left - 1)
      BY <1>4, <3>1
    <3> QED BY <1>1, <2>1, <3>1, <3>2
  <2>4. CASE e <= left
    <3>1. W = {}
      <4>1. left..(e - 1) = {}
        BY <1>1, <2>1, <2>4
      <4> QED BY <2>3, <4>1, Zenon
    <3> QED BY <2>2, <2>4, <3>1, Zenon
  <2>5. CASE ~(e <= left)
    <3>1. left \in i..(e - 1) /\ left \in left..(e - 1) /\ left <= last
      BY <1>1, <2>1, <2>5
    <3>2. left \in W
      BY <1>5, <2>1, <3>1, Zenon DEF WordsOf
    <3>3. W \in SUBSET Nat
      BY <1>1 DEF WordsOf
    <3>4. Min(W) = left
      <4>1. Min(W) \in W /\ \A y \in W : Min(W) <= y
        BY <3>2, <3>3, MinOf, Zenon
      <4>2. Min(W) <= left /\ Min(W) \in left..(e - 1)
        BY <2>3, <3>2, <4>1, Zenon
      <4> QED BY <1>1, <3>1, <4>2
    <3>5. /\ trim \in left..e /\ \A q \in trim..(e - 1) : bytes[q] = "sp"
          /\ \A p \in T : trim <= p
      <4>1. T \in SUBSET Nat
        BY <1>1, <1>24, <2>1
      <4>2. T \in SUBSET (left..(e - 1)) /\ \A p \in T : \A q \in p..(e - 1) : bytes[q] = "sp"
        BY <1>24, <2>1, Zenon
      <4>3. (T = {} /\ trim = e) \/ (trim \in T /\ \A p \in T : trim <= p)
        BY <1>25, <2>1, <4>1, MinOf, Zenon DEF First
      <4>4. CASE T = {} /\ trim = e
        <5>1. e..(e - 1) = {} /\ e \in left..e
          BY <1>1, <2>1
        <5> QED BY <4>4, <5>1, Zenon
      <4>5. CASE trim \in T /\ \A p \in T : trim <= p
        <5>1. \A p \in left..(e - 1) : p \in left..e
          BY <1>1, <2>1
        <5> QED BY <4>2, <4>5, <5>1, Zenon
      <4> QED BY <4>3, <4>4, <4>5, Zenon
    <3>6. \A p \in left..(e - 1) : (\A q \in p..(e - 1) : bytes[q] = "sp") => p \in T
      BY <1>24, <2>1, Zenon
    <3>7. right = trim
      BY <1>26, <2>1, Zenon
    <3>8. trim # left
      <4> SUFFICES ASSUME trim = left PROVE FALSE
        BY Zenon
      <4>1. bytes[left] = "sp"
        BY <3>1, <3>5, Zenon
      <4> QED BY <1>5, <3>1, <4>1, Zenon
    <3>9. trim - 1 \in left..(e - 1)
      BY <1>1, <2>1, <3>5, <3>8
    <3>10. trim - 1 \in W
      <4> SUFFICES ASSUME bytes[trim - 1] # "x" PROVE FALSE
        <5>1. trim - 1 \in i..(e - 1)
          BY <1>1, <2>1, <3>9
        <5> QED BY <5>1, Zenon DEF WordsOf
      <4>1. bytes[trim - 1] = "sp"
        BY <2>1, <3>9
      <4>2. \A q \in (trim - 1)..(e - 1) : q = trim - 1 \/ q \in trim..(e - 1)
        BY <1>1, <2>1, <3>5
      <4>3. trim - 1 \in T
        BY <3>5, <3>6, <3>9, <4>1, <4>2, Zenon
      <4>4. trim <= trim - 1
        BY <3>5, <4>3, Zenon
      <4> QED BY <1>1, <2>1, <3>5, <4>4
    <3>11. ASSUME NEW y \in W PROVE trim - 1 >= y
      <4>1. y \in left..(e - 1) /\ y \notin trim..(e - 1)
        BY <2>3, <3>5
      <4> QED BY <1>1, <2>1, <3>5, <4>1
    <3>12. Max(W) = trim - 1
      <4>1. Max(W) \in W /\ \A y \in W : Max(W) >= y
        BY <3>10, <3>11, Zenon DEF Max
      <4>2. Max(W) \in Nat /\ trim - 1 \in Nat /\ Max(W) >= trim - 1 /\ trim - 1 >= Max(W)
        BY <3>3, <3>10, <3>11, <4>1
      <4> QED BY <4>2
    <3> QED BY <2>2, <2>5, <3>2, <3>4, <3>7, <3>12, Zenon
  <2> QED BY <2>4, <2>5, Zenon
<1>12. ReadLine(i).line \in Seq(Bytes)
  <2>1. CASE end > last \/ end <= left
    BY <1>2, <2>1
  <2>2. CASE ~(end > last) /\ ~(end <= left)
    <3>1. ReadLine(i).line = SubSeq(bytes, left, right - 1) /\ end \in left..last
      <4>1. ReadLine(i).line = SubSeq(bytes, left, right - 1)
        <5>1. ReadLine(i) = [line |-> SubSeq(bytes, left, right - 1), next |-> end + 1]
          BY <1>2, <2>2, Zenon
        <5>2. \A a, b : [line |-> a, next |-> b].line = a
          OBVIOUS
        <5> QED BY <5>1, <5>2, Zenon
      <4> QED BY <1>7, <1>8, <2>2, <4>1, Zenon
    <3>2. trim \in left..end
      <4>1. T \in SUBSET Nat /\ T \in SUBSET (left..(end - 1))
        BY <1>1, <1>4, <1>24, <3>1
      <4>2. trim = end \/ trim \in T
        BY <1>25, <4>1, MinOf, Zenon DEF First
      <4>3. end \in left..end /\ \A p \in left..(end - 1) : p \in left..end
        BY <1>1, <1>4, <3>1
      <4> QED BY <4>1, <4>2, <4>3, Zenon
    <3>3. right = trim \/ right = end + 1
      BY <1>26, Zenon
    <3>4. left \in 1..(last + 1) /\ right - 1 \in (left - 1)..last
      BY <1>1, <1>4, <3>1, <3>2, <3>3
    <3> QED BY <3>1, <3>4
  <2> QED BY <2>1, <2>2, Zenon
<1> QED BY <1>10, <1>11, <1>12, Zenon

\* The next line to read is the one after as many newlines as there are lines read.
LinesInv ==
  /\ bytes \in Seq(Bytes) /\ readIndex \in 1..(Len(bytes) + 1) /\ out \in Seq(Seq(Bytes))
  /\ readIndex <= Len(bytes) =>
       /\ Cardinality(Before(readIndex)) = Len(out)
       /\ readIndex = 1 \/ bytes[readIndex - 1] = "nl"
  /\ LinesReadExact

\* One call of ReadLine keeps the lines read so far those of the bytes before readIndex.
LEMMA ReadNextInv == LinesInv /\ readNext => LinesInv'
<1> SUFFICES ASSUME LinesInv, readNext PROVE LinesInv'
  OBVIOUS
<1> DEFINE i == readIndex
           n == Len(out) + 1
<1>1. bytes \in Seq(Bytes) /\ i \in 1..Len(bytes) /\ Len(bytes) \in Nat
  BY DEF LinesInv, readNext
<1>2. out \in Seq(Seq(Bytes)) /\ n \in Nat \ {0} /\ n - 1 = Len(out)
  BY DEF LinesInv
<1>3. Cardinality(Before(i)) = n - 1 /\ (i = 1 \/ bytes[i - 1] = "nl")
  BY <1>2, Zenon DEF LinesInv, readNext
<1>4. /\ out' = Append(out, ReadLine(i).line) /\ readIndex' = ReadLine(i).next /\ bytes' = bytes
  BY Zenon DEF readNext
<1> HIDE DEF i
<1>5. /\ ReadLine(i).line \in Seq(Bytes) /\ ReadLine(i).next \in 1..(Len(bytes) + 1)
      /\ ReadLine(i).next <= Len(bytes) => EndsAt(i, ReadLine(i).next - 1)
  BY <1>1, ReadLineAt, Zenon
<1>6. /\ out' \in Seq(Seq(Bytes)) /\ Len(out') = n /\ out'[n] = ReadLine(i).line
      /\ \A k \in DOMAIN out : out'[k] = out[k]
      /\ \A k \in DOMAIN out' : k = n \/ k \in DOMAIN out
  BY <1>2, <1>4, <1>5
<1> HIDE DEF n
<1>7. readIndex' <= Len(bytes) => Cardinality(Before(readIndex')) = n /\ bytes[readIndex' - 1] = "nl"
  <2> SUFFICES ASSUME readIndex' <= Len(bytes)
               PROVE  Cardinality(Before(readIndex')) = n /\ bytes[readIndex' - 1] = "nl"
    BY Zenon
  <2>1. EndsAt(i, readIndex' - 1)
    BY <1>4, <1>5, Zenon
  <2>2. Cardinality(Before((readIndex' - 1) + 1)) = n
    BY <1>1, <1>2, <1>3, <2>1, LinePositions, Zenon
  <2>3. (readIndex' - 1) + 1 = readIndex'
    BY <1>1, <1>4, <1>5
  <2> QED BY <2>1, <2>2, <2>3, Zenon DEF EndsAt
<1>8. n <= Cardinality(Newlines) => ReadLine(i).line = Trimmed(n)
  <2> SUFFICES ASSUME n <= Cardinality(Newlines) PROVE ReadLine(i).line = Trimmed(n)
    BY Zenon
  <2>1. \E q \in Newlines : q >= i
    <3> SUFFICES ASSUME \A q \in Newlines : ~(q >= i) PROVE FALSE
      BY Zenon
    <3>1. Newlines \in SUBSET (1..Len(bytes))
      BY <1>1, NewlinesBefore, Zenon
    <3>2. \A q \in Newlines : q < i
      BY <1>1, <3>1
    <3>3. Before(i) = Newlines
      BY <3>2, Zenon DEF Before
    <3>4. n <= n - 1
      BY <1>3, <3>3, Zenon
    <3> QED BY <1>2, <3>4
  <2>2. PICK e : EndsAt(i, e)
    BY <1>1, <2>1, NextNewline, Zenon
  <2>3. Within(n) = i..(e - 1)
    BY <1>1, <1>2, <1>3, <2>2, LinePositions, Zenon
  <2>4. WordsOf(i, e) = Words(n)
    BY <2>3, Zenon DEF WordsOf, Words
  <2>5. ReadLine(i).line = IF WordsOf(i, e) = {} THEN <<>>
                           ELSE SubSeq(bytes, Min(WordsOf(i, e)), Max(WordsOf(i, e)))
    BY <1>1, <2>2, ReadLineAt, Zenon
  <2> QED BY <2>4, <2>5, Zenon DEF Trimmed
<1>9. Newlines' = Newlines /\ \A k : Trimmed(k)' = Trimmed(k) /\ Before(k)' = Before(k)
  BY <1>4, Zenon DEF Trimmed, Words, Within, Newlines, Before
<1>10. LinesReadExact'
  BY <1>6, <1>8, <1>9, Zenon DEF LinesInv, LinesReadExact
<1> QED BY <1>1, <1>4, <1>5, <1>6, <1>7, <1>9, <1>10 DEF LinesInv

\* For a buffer of any length, repeated ReadLine returns its lines, trimmed and in order.
THEOREM LinesAreRead == SaveSpec => []LinesReadExact
<1>1. SaveInit => LinesInv
  <2> SUFFICES ASSUME SaveInit PROVE LinesInv
    OBVIOUS
  <2>1. bytes \in Seq(Bytes) /\ readIndex = 1 /\ out = <<>>
    <3>1. readIndex = 1 /\ out = <<>> /\ (bytes \in SeqsUpTo(Bytes, MaxBytes) \/ bytes = <<>>)
      BY Zenon DEF SaveInit, Bytes
    <3>2. ASSUME NEW m \in 0..MaxBytes, bytes \in [1..m -> Bytes] PROVE bytes \in Seq(Bytes)
      BY <3>2, BoundsAssumption
    <3>3. <<>> \in Seq(Bytes)
      OBVIOUS
    <3> QED BY <3>1, <3>2, <3>3, Zenon DEF SeqsUpTo
  <2>2. Before(1) = {}
    BY <2>1 DEF Before, Newlines
  <2>3. Cardinality({}) = 0
    BY FS_EmptySet
  <2>4. 1 \in 1..(Len(bytes) + 1) /\ <<>> \in Seq(Seq(Bytes)) /\ Len(<<>>) = 0 /\ DOMAIN <<>> = {}
    <3>1. Len(bytes) \in Nat
      BY <2>1
    <3> QED BY <3>1
  <2> QED BY <2>1, <2>2, <2>3, <2>4, Zenon DEF LinesInv, LinesReadExact
<1>2. LinesInv /\ [SaveNext]_svars => LinesInv'
  <2> SUFFICES ASSUME LinesInv, GetChainLines \/ UNCHANGED svars PROVE LinesInv'
    BY ReadNextInv DEF SaveNext
  <2>1. UNCHANGED <<bytes, readIndex, out>>
    BY DEF GetChainLines, svars
  <2>2. Newlines' = Newlines /\ \A k : Trimmed(k)' = Trimmed(k) /\ Before(k)' = Before(k)
    BY <2>1, Zenon DEF Trimmed, Words, Within, Newlines, Before
  <2> QED BY <2>1, <2>2 DEF LinesInv, LinesReadExact
<1>3. LinesInv => LinesReadExact
  BY DEF LinesInv
<1> QED BY <1>1, <1>2, <1>3, PTL DEF SaveSpec

Ends == {"COMMIT", "*nat", "*filter"}

\* The section that is read ended before the next line.
SectionEnded == \E h, e \in 1..(at - 1) : InSection(save, h, e) /\ save[e] \in Ends

\* Where GetChainLines is: before the first header, with no end since that header, or
\* behind that end.
ChainsInv ==
  /\ at \in Nat \ {0} /\ Len(save) \in Nat /\ DOMAIN save = 1..Len(save) /\ at <= Len(save) + 1
  /\ section = "find" => \A j \in 1..(at - 1) : save[j] # "*nat"
  /\ section = "parse" => \E h \in 1..(at - 1) : InSection(save, h, at)
  /\ section = "done" => SectionEnded
  /\ section \in {"find", "parse", "done", "panic"}
  /\ \A c \in {":A", ":B"} :
       c \in chainsMap <=> \E h, i \in 1..(at - 1) : InSection(save, h, i) /\ save[i] = c

\* Every line GetChainLines looks at keeps chainsMap the chains of the section so far.
LEMMA ChainsAlways == SaveSpec => []ChainsInv
<1>1. ASSUME SaveInit PROVE ChainsInv
  <2>1. \E m \in Nat : save \in [1..m -> LineKinds]
    <3>1. <<>> \in [1..0 -> LineKinds]
      OBVIOUS
    <3>2. save \in SeqsUpTo(LineKinds, MaxLines) => \E m \in 0..MaxLines : save \in [1..m -> LineKinds]
      BY Zenon DEF SeqsUpTo
    <3>3. 0..MaxLines \subseteq Nat /\ 0 \in Nat
      BY BoundsAssumption
    <3> QED BY <1>1, <3>1, <3>2, <3>3, Zenon DEF SaveInit
  <2>2. Len(save) \in Nat /\ DOMAIN save = 1..Len(save)
    BY <2>1
  <2>3. at = 1 /\ section = "find" /\ chainsMap = {}
    BY <1>1 DEF SaveInit
  <2> QED BY <2>2, <2>3 DEF ChainsInv
<1>2. ASSUME ChainsInv, GetChainLines PROVE ChainsInv'
  <2>1. /\ at' = at + 1 /\ at \in Nat \ {0} /\ save' = save /\ section \in {"find", "parse"}
        /\ Len(save) \in Nat /\ DOMAIN save = 1..Len(save) /\ at <= Len(save)
    BY <1>2 DEF ChainsInv, GetChainLines
  <2>2. 1..(at' - 1) = 1..(at - 1) \cup {at} /\ at \notin 1..(at - 1)
    BY <2>1
  <2>3. section = "parse" <=> \E h \in 1..(at - 1) : InSection(save, h, at)
    <3>1. CASE section = "parse"
      BY <1>2, <3>1, Zenon DEF ChainsInv
    <3>2. CASE section = "find"
      <4>1. \A j \in 1..(at - 1) : save[j] # "*nat"
        BY <1>2, <3>2, Zenon DEF ChainsInv
      <4> QED BY <3>2, <4>1, Zenon DEF InSection
    <3> QED BY <2>1, <3>1, <3>2, Zenon
  <2>4. section' = "find" => section = "find" /\ save[at] # "*nat"
    BY <1>2, <2>1 DEF GetChainLines, Section
  <2>5. section' = "find" => \A j \in 1..(at' - 1) : save'[j] # "*nat"
    <3> SUFFICES ASSUME section' = "find", NEW j \in 1..(at' - 1) PROVE save[j] # "*nat"
      BY <2>1, Zenon
    <3>1. CASE j = at
      BY <2>4, <3>1, Zenon
    <3>2. CASE j \in 1..(at - 1)
      BY <1>2, <2>4, <3>2, Zenon DEF ChainsInv
    <3> QED BY <2>2, <3>1, <3>2, Zenon
  <2>6. section' = "parse" => \E h \in 1..(at' - 1) : InSection(save', h, at')
    <3>1. CASE section = "find" /\ section' = "parse"
      <4>1. save[at] = "*nat"
        BY <1>2, <3>1 DEF GetChainLines, Section
      <4>2. \A j \in 1..(at - 1) : save[j] # "*nat"
        BY <1>2, <3>1, Zenon DEF ChainsInv
      <4>3. (at + 1)..((at + 1) - 1) = {} /\ at < at + 1
        BY <2>1
      <4>4. InSection(save', at, at')
        BY <2>1, <4>1, <4>2, <4>3 DEF InSection
      <4> QED BY <2>2, <4>4, Zenon
    <3>2. CASE section = "parse" /\ section' = "parse"
      <4>1. save[at] \notin Ends
        BY <1>2, <3>2 DEF GetChainLines, Section, Ends
      <4>2. PICK h \in 1..(at - 1) : InSection(save, h, at)
        BY <2>3, <3>2, Zenon
      <4>3. h < at + 1 /\ (h + 1)..((at + 1) - 1) = (h + 1)..(at - 1) \cup {at}
        BY <2>1, <4>2
      <4>4. InSection(save, h, at + 1)
        <5>1. \A j \in (h + 1)..((at + 1) - 1) : save[j] \notin Ends
          BY <4>1, <4>2, <4>3, Zenon DEF InSection, Ends
        <5>2. h < at + 1
          BY <4>3, Zenon
        <5>3. save[h] = "*nat" /\ \A j \in 1..(h - 1) : save[j] # "*nat"
          BY <4>2, Zenon DEF InSection
        <5> QED BY <5>1, <5>2, <5>3, Zenon DEF InSection, Ends
      <4>5. InSection(save', h, at')
        BY <2>1, <4>4
      <4> QED BY <2>2, <4>5, Zenon
    <3> QED BY <2>1, <3>1, <3>2, Zenon
  <2>7. section' \in {"find", "parse", "done", "panic"}
    BY <1>2, <2>1 DEF GetChainLines, Section
  <2>9. section' = "done" => SectionEnded'
    <3> SUFFICES ASSUME section' = "done" PROVE SectionEnded'
      OBVIOUS
    <3>1. section = "parse" /\ save[at] \in Ends
      BY <1>2, <2>1 DEF GetChainLines, Section, Ends
    <3>2. PICK h \in 1..(at - 1) : InSection(save, h, at)
      BY <2>3, <3>1, Zenon
    <3>3. save' = save
      BY <2>1, Zenon
    <3> QED BY <2>2, <3>1, <3>2, <3>3, Zenon DEF SectionEnded
  <2>10. at' <= Len(save') + 1
    BY <2>1
  <2>8. ASSUME NEW c \in {":A", ":B"}
        PROVE  c \in chainsMap' <=> \E h, i \in 1..(at' - 1) : InSection(save', h, i) /\ save'[i] = c
    <3>1. c \in chainsMap <=> \E h, i \in 1..(at - 1) : InSection(save, h, i) /\ save[i] = c
      BY <1>2, Zenon DEF ChainsInv
    <3>2. c \in chainsMap' <=> c \in chainsMap \/ (section = "parse" /\ save[at] = c)
      BY <1>2 DEF GetChainLines
    <3>3. \A h, i \in 1..(at' - 1) : InSection(save, h, i) => h \in 1..(at - 1)
      BY <2>1 DEF InSection
    <3>4. (\E h, i \in 1..(at' - 1) : InSection(save, h, i) /\ save[i] = c)
             <=> \/ \E h, i \in 1..(at - 1) : InSection(save, h, i) /\ save[i] = c
                 \/ \E h \in 1..(at - 1) : InSection(save, h, at) /\ save[at] = c
      BY <2>2, <3>3, Zenon
    <3>5. save' = save
      BY <2>1, Zenon
    <3> QED BY <2>3, <3>1, <3>2, <3>4, <3>5, Zenon
  <2> QED BY <2>1, <2>5, <2>6, <2>7, <2>8, <2>9, <2>10 DEF ChainsInv
<1>3. ASSUME ChainsInv, readNext \/ UNCHANGED svars PROVE ChainsInv'
  <2>1. UNCHANGED <<save, at, section, chainsMap>>
    BY <1>3 DEF readNext, svars
  <2> QED BY <1>3, <2>1 DEF ChainsInv, SectionEnded
<1> QED BY <1>1, <1>2, <1>3, PTL DEF SaveSpec, SaveNext

\* A file has one first section of the table, and nothing behind its end is in it.
LEMMA NothingBehind ==
  ASSUME NEW n \in Nat, NEW h \in 1..n, NEW e \in 1..n, NEW g \in 1..n, NEW i \in 1..n,
         InSection(save, h, e), save[e] \in Ends, InSection(save, g, i)
  PROVE  i <= e
<1>1. h \in Nat \ {0} /\ g \in Nat \ {0} /\ e \in Nat /\ i \in Nat
  OBVIOUS
<1>2. ~(g \in 1..(h - 1)) /\ ~(h \in 1..(g - 1))
  BY Zenon DEF InSection
<1>3. g = h
  BY <1>1, <1>2
<1>4. h < e
  BY DEF InSection
<1>5. ~(e \in (g + 1)..(i - 1))
  BY Zenon DEF InSection, Ends
<1> QED BY <1>1, <1>3, <1>4, <1>5

\* For a file of any length, GetChainLines returns the chains of the table's first section,
\* all of them and no others, unless it panics.
THEOREM ChainsAreOfTable == SaveSpec => []ChainsOfTable
<1>1. ChainsInv => ChainsOfTable
  <2> SUFFICES ASSUME ChainsInv, NEW c \in {":A", ":B"}
               PROVE  LET listed == \E h, i \in DOMAIN save : InSection(save, h, i) /\ save[i] = c
                      IN /\ c \in chainsMap => listed
                         /\ section = "done" \/ (at > Len(save) /\ section # "panic")
                              => (c \in chainsMap <=> listed)
    BY Zenon DEF ChainsOfTable
  <2>1. c \in chainsMap <=> \E h, i \in 1..(at - 1) : InSection(save, h, i) /\ save[i] = c
    BY Zenon DEF ChainsInv
  <2>2. /\ at \in Nat \ {0} /\ Len(save) \in Nat /\ DOMAIN save = 1..Len(save)
        /\ at <= Len(save) + 1
    BY DEF ChainsInv
  <2>3. 1..(at - 1) \subseteq DOMAIN save
    BY <2>2
  <2>4. c \in chainsMap => \E h, i \in DOMAIN save : InSection(save, h, i) /\ save[i] = c
    BY <2>1, <2>3, Zenon
  <2>5. ASSUME section = "done", NEW g \in DOMAIN save, NEW i \in DOMAIN save,
               InSection(save, g, i), save[i] = c
        PROVE  c \in chainsMap
    <3>1. PICK h \in 1..(at - 1), e \in 1..(at - 1) : InSection(save, h, e) /\ save[e] \in Ends
      BY <2>5, Zenon DEF ChainsInv, SectionEnded
    <3>2. g \in 1..Len(save) /\ i \in 1..Len(save) /\ h \in 1..Len(save) /\ e \in 1..Len(save)
      BY <2>2, <2>3
    <3>3. i <= e
      BY <2>2, <2>5, <3>1, <3>2, NothingBehind, Zenon
    <3>4. g < i
      BY <2>5 DEF InSection
    <3>5. g \in 1..(at - 1) /\ i \in 1..(at - 1)
      BY <2>2, <3>2, <3>3, <3>4
    <3> QED BY <2>1, <2>5, <3>5, Zenon
  <2>6. at > Len(save) => 1..(at - 1) = DOMAIN save
    BY <2>2
  <2> QED BY <2>1, <2>4, <2>5, <2>6, Zenon
<1> QED BY <1>1, ChainsAlways, PTL

=============================================================================
