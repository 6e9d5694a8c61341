----------------------------- MODULE MCOneFlow -----------------------------
(***************************************************************************)
(* OneFlow with the values of the model checker.                           *)
(***************************************************************************)
EXTENDS OneFlow

One == << [from |-> "a", to |-> "b"] >>
=============================================================================
