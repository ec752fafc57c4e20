------------------------------ MODULE MCRelease ------------------------------
(***************************************************************************)
(* One commit is locked to version "1.30.4-ubi9" (v4), a later one to the  *)
(* next version (v5), and between them one whose amd64 lock was refreshed  *)
(* and arm64 lock was not.                                                 *)
(***************************************************************************)
EXTENDS Release

CONSTANTS reviewed, later, halfRefreshed, v4, v5

MCLockOf == [c \in Commits |->
               [a \in Arches |-> IF c = later \/ (c = halfRefreshed /\ a = "amd64")
                               THEN v5 ELSE v4]]
=============================================================================
