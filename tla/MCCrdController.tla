-------------------------- MODULE MCCrdController ---------------------------
(* One object, for both workers, in the default namespace. *)
EXTENDS CrdController

OneKey == {<<"default", "x1">>}
=============================================================================
