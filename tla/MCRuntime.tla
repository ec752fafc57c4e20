------------------------------ MODULE MCRuntime ------------------------------
(***************************************************************************)
(* A warning window of two seconds, a monitor that runs every two seconds, *)
(* and material that lasts for three seconds or for four.                  *)
(***************************************************************************)
EXTENDS Runtime

MCLives == {6, 8}
=============================================================================
