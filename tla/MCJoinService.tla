--------------------------- MODULE MCJoinService ---------------------------
(***************************************************************************)
(* Instances of JoinService for TLC.  The request slots are interchangeable*)
(* in every safety run.                                                    *)
(***************************************************************************)
EXTENDS JoinService, TLC

Symmetry == Permutations(Request)
=============================================================================
