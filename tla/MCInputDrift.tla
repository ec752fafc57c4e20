---------------------------- MODULE MCInputDrift ----------------------------
(***************************************************************************)
(* One or two inputs: the NGINX package, and the digest of a base image.    *)
(***************************************************************************)
EXTENDS InputDrift

CONSTANTS nginx, runtimeBase

PackageOnly == <<nginx>>
PackageAndBase == <<nginx, runtimeBase>>
=============================================================================
