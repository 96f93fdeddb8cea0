------------------------------ MODULE MCServer ------------------------------
(***************************************************************************)
(* A small instance of Server: a Service that changes, and no Endpoints.   *)
(***************************************************************************)
EXTENDS Server

\* Two versions of a Service.
MCObjs == [k \in Kinds |-> IF k = "service" THEN {1, 2} ELSE {}]

=============================================================================
