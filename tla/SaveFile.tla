------------------------------ MODULE SaveFile ------------------------------
(***************************************************************************)
(* The reader of iptables-save output, save_restore.go: ReadLine over the  *)
(* bytes of a buffer, and GetChainLines over the lines it returns.         *)
(***************************************************************************)
EXTENDS Naturals, Sequences, FiniteSetsExt

CONSTANTS MaxBytes, MaxLines

ASSUME BoundsAssumption == MaxBytes \in Nat /\ MaxLines \in Nat

VARIABLES
  bytes, readIndex, out,        \* a buffer, the next index, the lines read so far
  save, at, section, chainsMap  \* lines of a file, the next one, where GetChainLines is

svars == <<bytes, readIndex, out, save, at, section, chainsMap>>

First(S, none) == IF S = {} THEN none ELSE Min(S)

\* The spaces at the end of the line are kept.
KeepsRightSpaces(i) ==
  LET last == Len(bytes)
      left == First({p \in i..last : bytes[p] # "sp"}, last + 1)
      end  == First({p \in left..last : bytes[p] = "nl"}, last + 1)
  IN [line |-> SubSeq(bytes, left, end - 1), next |-> end + 1]

\* ReadLine from index i: the line, and the index after it.  The last byte ends a line
\* like a newline does, unless it is a space; the spaces before it are then trimmed
\* as if it were not there.
ReadLine(i) ==
  LET last  == Len(bytes)
      left  == First({p \in i..last : bytes[p] # "sp"}, last + 1)
      end   == First({p \in left..last : bytes[p] = "nl" \/ (p = last /\ bytes[p] # "sp")}, last + 1)
      trim  == First({p \in left..(end - 1) : \A q \in p..(end - 1) : bytes[q] = "sp"}, end)
      right == IF trim = end /\ bytes[end] # "nl" THEN end + 1 ELSE trim
  IN IF end > last THEN [line |-> <<>>, next |-> last + 1]
     ELSE [line |-> IF end <= left THEN <<>> ELSE SubSeq(bytes, left, right - 1),
           next |-> end + 1]

readNext ==
  LET r == ReadLine(readIndex) IN
  /\ readIndex <= Len(bytes)
  /\ out' = Append(out, r.line) /\ readIndex' = r.next
  /\ UNCHANGED <<bytes, save, at, section, chainsMap>>

\* The section is left when the next one begins, but not at its COMMIT.
ReadsPastCommit(s, l) ==
  CASE s = "find"  -> IF l = "*nat" THEN "parse" ELSE "find"
    [] s = "parse" -> IF l = "*filter" THEN "done" ELSE "parse"

\* The two loops of GetChainLines: until the table's header, until its end.  The line of
\* a chain that has no space, ":cut", makes it panic.
Section(s, l) ==
  CASE s = "find"  -> IF l = "*nat" THEN "parse" ELSE "find"
    [] s = "parse" -> IF l \in {"COMMIT", "*nat", "*filter"} THEN "done"
                      ELSE IF l = ":cut" THEN "panic" ELSE "parse"

GetChainLines ==
  /\ section \in {"find", "parse"} /\ at <= Len(save)
  /\ section' = Section(section, save[at]) /\ at' = at + 1
  /\ chainsMap' = IF section = "parse" /\ save[at] \in {":A", ":B"}
                  THEN chainsMap \cup {save[at]} ELSE chainsMap
  /\ UNCHANGED <<bytes, readIndex, out, save>>

\* The sequences over S of length at most n.
SeqsUpTo(S, n) == UNION {[1..m -> S] : m \in 0..n}

LineKinds == {"*nat", "*filter", ":A", ":B", ":cut", "COMMIT"}

SaveInit ==
  /\ readIndex = 1 /\ out = <<>> /\ at = 1 /\ section = "find" /\ chainsMap = {}
  /\ \/ bytes \in SeqsUpTo({"sp", "nl", "x"}, MaxBytes) /\ save = <<>>
     \/ bytes = <<>> /\ save \in SeqsUpTo(LineKinds, MaxLines)

SaveNext == readNext \/ GetChainLines

SaveSpec == SaveInit /\ [][SaveNext]_svars

-----------------------------------------------------------------------------

\* The positions at which line n of the buffer begins and ends.
Newlines == {p \in DOMAIN bytes : bytes[p] = "nl"}

Within(n) ==
  {p \in DOMAIN bytes : bytes[p] # "nl" /\ Cardinality({q \in Newlines : q < p}) = n - 1}

Words(n) == {p \in Within(n) : bytes[p] = "x"}

Trimmed(n) == IF Words(n) = {} THEN <<>> ELSE SubSeq(bytes, Min(Words(n)), Max(Words(n)))

\* Repeated ReadLine returns the lines of the buffer, trimmed, in order and each once.
\* A last line without a newline may be cut short, every line before it is whole.
LinesReadExact ==
  \A n \in DOMAIN out : n <= Cardinality(Newlines) => out[n] = Trimmed(n)

\* Line i is in the first section of the table, which begins at line h.
InSection(s, h, i) ==
  /\ h < i /\ s[h] = "*nat"
  /\ \A j \in 1..(h - 1) : s[j] # "*nat"
  /\ \A j \in (h + 1)..(i - 1) : s[j] \notin {"COMMIT", "*nat", "*filter"}

\* GetChainLines takes chains of the first section of the table only, none of another
\* table's section or of a later one of the same table, and when it returns it has them
\* all, whatever else the file holds.
ChainsOfTable ==
  \A c \in {":A", ":B"} :
    LET listed == \E h, i \in DOMAIN save : InSection(save, h, i) /\ save[i] = c
    IN /\ c \in chainsMap => listed
       /\ section = "done" \/ (at > Len(save) /\ section # "panic")
            => (c \in chainsMap <=> listed)

=============================================================================
