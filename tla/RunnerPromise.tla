---------------------------- MODULE RunnerPromise ----------------------------
(***************************************************************************)
(* What a bounded frequency runner promises: runs of the function are      *)
(* serialized, a request is followed by a run that starts after it, and as *)
(* long as nobody stops the loop the function runs again and again.        *)
(***************************************************************************)

\* owed: a request came after the start of the last run.
VARIABLES owed, running, closed

promise == <<owed, running, closed>>

PInit == owed = FALSE /\ running = FALSE /\ closed \in BOOLEAN

Request == owed' = TRUE /\ UNCHANGED <<running, closed>>

Begin == ~running /\ running' = TRUE /\ owed' = FALSE /\ UNCHANGED closed

End == running /\ running' = FALSE /\ UNCHANGED <<owed, closed>>

Close == closed' = TRUE /\ UNCHANGED <<owed, running>>

PNext == Request \/ Begin \/ End \/ Close

PSpec == PInit /\ [][PNext]_promise /\ WF_promise(~closed /\ Begin) /\ WF_promise(End)

=============================================================================
