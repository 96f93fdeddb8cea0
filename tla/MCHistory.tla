------------------------------ MODULE MCHistory ------------------------------
(***************************************************************************)
(* Small instances of ProxierHistory.                                      *)
(***************************************************************************)
EXTENDS MCProxier, ProxierHistory

=============================================================================
