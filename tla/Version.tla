------------------------------ MODULE Version ------------------------------
(***************************************************************************)
(* pkg/util/version, and the two places that decide from a version what an *)
(* iptables can do.  The text of a version is abstracted to what parse     *)
(* reads in it: its numbers, which of them have a leading zero, and the    *)
(* identifiers of its pre-release.  An identifier is all digits or a word; *)
(* text is its rank in the order of strings.                               *)
(***************************************************************************)
EXTENDS Integers, Sequences, FiniteSetsExt

CONSTANTS Texts, Identifiers, MaxUint, Illegal

\* Identifiers that are different are different strings.
ASSUME IdentifiersAssumption ==
  /\ Identifiers \subseteq [digits: BOOLEAN, value: Nat, text: Int, zeroed: BOOLEAN]
  /\ \A a, b \in Identifiers : a.text = b.text => a = b
  /\ MaxUint \in Nat

\* A text that is not a version has no numbers.
ASSUME TextsAssumption == \A t \in Texts : t.numbers \in Seq(Nat) /\ t.pre \in Seq(Identifiers)

VARIABLES v, other, result      \* v.Compare(other); result is Illegal on an error

vvars == <<v, other, result>>

\* strconv.ParseUint returns no error.
IsUint(a) == a.digits /\ a.value <= MaxUint

parse(t, semver) ==
  IF \/ semver /\ Len(t.numbers) # 3
     \/ ~semver /\ Len(t.numbers) < 2
     \/ \E i \in t.zeroed : i = 1 \/ semver
     \/ \E i \in DOMAIN t.numbers : t.numbers[i] > MaxUint
     \/ semver /\ (t.malformed \/ \E i \in DOMAIN t.pre : IsUint(t.pre[i]) /\ t.pre[i].zeroed)
  THEN Illegal
  ELSE [components |-> t.numbers, semver |-> semver, preRelease |-> IF semver THEN t.pre ELSE <<>>]

Sign(n) == IF n > 0 THEN 1 ELSE IF n < 0 THEN -1 ELSE 0

\* Components that are not there count as 0.
Component(w, i) == IF i \in DOMAIN w.components THEN w.components[i] ELSE 0

\* Numbers as numbers, all else as strings.
Identifier(a, b) == IF IsUint(a) /\ IsUint(b) THEN Sign(a.value - b.value) ELSE Sign(a.text - b.text)

\* The loop over the identifiers of v's pre-release.
comparePreRelease(p, q) ==
  LET differ == {i \in DOMAIN p : i > Len(q) \/ Identifier(p[i], q[i]) # 0}
      i == Min(differ)
  IN IF differ = {} THEN 0 ELSE IF i > Len(q) THEN 1 ELSE Identifier(p[i], q[i])

\* The other version is the one that is older.
ComparesBackwards(a, b) ==
  LET differ == {i \in DOMAIN a.components : a.components[i] # Component(b, i)}
  IN IF differ # {} THEN Sign(Component(b, Min(differ)) - a.components[Min(differ)]) ELSE 0

compareInternal(a, b) ==
  LET differ == {i \in DOMAIN a.components : a.components[i] # Component(b, i)}
  IN CASE differ # {} -> Sign(a.components[Min(differ)] - Component(b, Min(differ)))
       [] differ = {} /\ (~a.semver \/ ~b.semver) -> 0
       [] OTHER -> IF a.preRelease = <<>> \/ b.preRelease = <<>>
                   THEN Sign(Len(b.preRelease) - Len(a.preRelease))
                   ELSE comparePreRelease(a.preRelease, b.preRelease)

AtLeast(a, min) == compareInternal(a, min) # -1

LessThan(a, b) == compareInternal(a, b) = -1

Compare(a, t) ==
  LET b == parse(t, a.semver) IN IF b = Illegal THEN Illegal ELSE compareInternal(a, b)

VersionInit ==
  /\ v \in {parse(t, s) : t \in Texts, s \in BOOLEAN} \ {Illegal}
  /\ other \in Texts /\ result = Compare(v, other)

\* A version is compared with one text after another.
VersionNext == other' \in Texts /\ result' = Compare(v, other') /\ UNCHANGED v

VersionSpec == VersionInit /\ [][VersionNext]_vvars

\* What iptables 1.4.11, 1.4.20 and 1.4.22 brought: the check, the wait flag and its time.
MinCheckVersion == [components |-> <<1, 4, 11>>, semver |-> FALSE, preRelease |-> <<>>]

MinWaitVersion == [components |-> <<1, 4, 20>>, semver |-> FALSE, preRelease |-> <<>>]

MinWait2Version == [components |-> <<1, 4, 22>>, semver |-> FALSE, preRelease |-> <<>>]

\* The patch is compared whatever the minor is.
IgnoresMinor(v1, v2, v3) == v1 > 1 \/ (v1 = 1 /\ v2 >= 4 /\ v3 >= 11)

iptablesHasCheckCommand(v1, v2, v3) ==
  v1 > 1 \/ (v1 = 1 /\ v2 > 4) \/ (v1 = 1 /\ v2 = 4 /\ v3 >= 11)

iptablesHasWaitCommand(v1, v2, v3) ==
  v1 > 1 \/ (v1 = 1 /\ v2 > 4) \/ (v1 = 1 /\ v2 = 4 /\ v3 >= 20)

\* A text that cannot be parsed has the check, and no wait flag.
getIPTablesHasCheckCommand(t) ==
  LET w == parse(t, FALSE) IN w = Illegal \/ AtLeast(w, MinCheckVersion)

getIPTablesWaitFlag(t) ==
  LET w == parse(t, FALSE) IN
  IF w = Illegal \/ LessThan(w, MinWaitVersion) THEN "none"
  ELSE IF LessThan(w, MinWait2Version) THEN "-w" ELSE "-w2"

-----------------------------------------------------------------------------

\* The order of the identifiers of Semantic Versioning: a number is before every word.
SemverIdentifier(a, b) ==
  CASE a.digits /\ b.digits   -> Sign(a.value - b.value)
    [] ~a.digits /\ ~b.digits -> Sign(a.text - b.text)
    [] OTHER                  -> IF a.digits THEN -1 ELSE 1

\* The order of versions that AtLeast's comment promises: absent components are 0; of
\* two pre-releases that agree as far as the shorter goes, the longer is the later.
SemverOrder(a, b) ==
  LET all == DOMAIN a.components \cup DOMAIN b.components
      differ == {i \in all : Component(a, i) # Component(b, i)}
      p == a.preRelease
      q == b.preRelease
      pdiffer == {i \in DOMAIN p \cap DOMAIN q : SemverIdentifier(p[i], q[i]) # 0}
  IN CASE differ # {} -> Sign(Component(a, Min(differ)) - Component(b, Min(differ)))
       [] differ = {} /\ (p = <<>> \/ q = <<>>) -> Sign(Len(q) - Len(p))
       [] OTHER -> IF pdiffer = {} THEN Sign(Len(p) - Len(q))
                   ELSE SemverIdentifier(p[Min(pdiffer)], q[Min(pdiffer)])

\* As far as a goes it agrees with b, and b goes on.
BeyondEnd(a, b) ==
  LET p == a.preRelease
      q == b.preRelease
  IN /\ \A i \in DOMAIN a.components : a.components[i] = Component(b, i)
     /\ \/ Len(a.components) < Len(b.components)
        \/ Len(p) < Len(q) /\ \A i \in DOMAIN p : Identifier(p[i], q[i]) = 0

\* The pre-releases part where a number is compared as a string, with a word or since it
\* is too large for ParseUint.
NumberAsText(a, b) ==
  LET p == a.preRelease
      q == b.preRelease
  IN /\ \A i \in DOMAIN a.components : a.components[i] = Component(b, i)
     /\ \E i \in DOMAIN p \cap DOMAIN q :
          /\ \A j \in 1..(i - 1) : Identifier(p[j], q[j]) = 0
          /\ Identifier(p[i], q[i]) # 0 /\ (p[i].digits \/ q[i].digits)
          /\ ~(IsUint(p[i]) /\ IsUint(q[i]))

\* Compare gives the order of Semantic Versioning, with two exceptions.  It calls equal
\* what is older when all that tells the versions apart is beyond the end of v: there
\* LessThan is never wrongly true, and AtLeast is.  And where a number meets a word or is
\* too large, the strings decide: 1.0.0--a comes before 1.0.0-1.
CompareFollowsSemver ==
  result # Illegal =>
    LET b == parse(other, v.semver)
        r == SemverOrder(v, b)
    IN \/ result = r
       \/ result = 0 /\ r = -1 /\ BeyondEnd(v, b)
       \/ NumberAsText(v, b)

\* go-iptables and pkg/util/iptables agree on what an iptables can do whose version they
\* both read as three numbers.
CapabilitiesAgree ==
  LET n == other.numbers IN
  Len(n) = 3 /\ parse(other, FALSE) # Illegal =>
    /\ iptablesHasCheckCommand(n[1], n[2], n[3]) <=> getIPTablesHasCheckCommand(other)
    /\ iptablesHasWaitCommand(n[1], n[2], n[3]) <=> getIPTablesWaitFlag(other) # "none"

=============================================================================
