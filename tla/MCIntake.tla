------------------------------ MODULE MCIntake ------------------------------
(***************************************************************************)
(* Instances of Intake for TLC: uploads are interchangeable, and so are    *)
(* idempotency keys.                                                       *)
(***************************************************************************)
EXTENDS Intake, TLC

Symmetry == Permutations(Uploads) \cup Permutations(Keys)
=============================================================================
