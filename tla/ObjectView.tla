----------------------------- MODULE ObjectView -----------------------------
(***************************************************************************)
(* What a change map and the map it feeds promise together: a view of a    *)
(* collection of objects that may lag behind and may even miss a state of  *)
(* an object, but that never goes back: an entry only ever changes to what *)
(* the object says at that moment.                                         *)
(***************************************************************************)
CONSTANTS
  Names,    \* the objects
  Ports,    \* the entries of an object
  Entries,  \* the values of an entry
  Absent    \* the value of an entry that is not there

VARIABLES
  observed, \* observed[n][p]: the entry in the state of n seen last
  view      \* view[n][p]: the entry in the view

Nothing == [n \in Names |-> [p \in Ports |-> Absent]]

Init == observed = Nothing /\ view = Nothing

\* An object is created, changed or deleted.
Observe ==
  /\ observed' \in [Names -> [Ports -> Entries \cup {Absent}]]
  /\ \E n \in Names : \A m \in Names \ {n} : observed'[m] = observed[m]
  /\ UNCHANGED view

\* Some entries of the view are brought up to date.
Refresh ==
  /\ view' \in [Names -> [Ports -> Entries \cup {Absent}]]
  /\ \A n \in Names, p \in Ports : view'[n][p] \in {view[n][p], observed[n][p]}
  /\ UNCHANGED observed

\* The process starts again with nothing seen.
Restart == observed' = Nothing /\ view' = Nothing

Next == Observe \/ Refresh \/ Restart

Spec == Init /\ [][Next]_<<observed, view>>

=============================================================================
