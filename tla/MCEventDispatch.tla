-------------------------- MODULE MCEventDispatch ---------------------------
(***************************************************************************)
(* Model values for checking EventDispatch.                                *)
(***************************************************************************)
EXTENDS EventDispatch

CONSTANTS e1, d1, h1, m1, m2
=============================================================================
