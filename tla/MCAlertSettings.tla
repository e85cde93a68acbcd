-------------------------- MODULE MCAlertSettings ---------------------------
(* AlertSettings with two fields, so that updates can name different ones. *)
EXTENDS AlertSettings

MCDefault == [f \in Fields |-> 0]
=============================================================================
