---------------------------- MODULE MCMasquerade ----------------------------
(***************************************************************************)
(* A small instance of Masquerade: --masq-all and --cluser-CIDR, or one,   *)
(* or neither.                                                             *)
(***************************************************************************)
EXTENDS Masquerade

MCConfigs == {<<>>, <<"cidr">>, <<"all", "cidr">>}

=============================================================================
