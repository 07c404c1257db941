------------------------------- MODULE MCFork --------------------------------
(***************************************************************************)
(* Fork for TLC.  The environments that do not exist at the start are      *)
(* alike.                                                                  *)
(***************************************************************************)
EXTENDS Fork, TLC

Alike == Permutations(Envs \ {First})

=============================================================================
