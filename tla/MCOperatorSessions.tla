------------------------- MODULE MCOperatorSessions -------------------------
(***************************************************************************)
(* Instances of OperatorSessions for TLC: handlers are interchangeable,    *)
(* and so are tokens.                                                      *)
(***************************************************************************)
EXTENDS OperatorSessions, TLC

Symmetry == Permutations(Requests) \cup Permutations(Tokens)
=============================================================================
