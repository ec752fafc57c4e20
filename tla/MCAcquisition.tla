---------------------------- MODULE MCAcquisition ----------------------------
(***************************************************************************)
(* Three lock contents over one key, one package and one source package:   *)
(* lockA and lockB pin different packages, broken is lockA half-written    *)
(* (what a non-atomic writer leaves for a moment).  The wrong package has  *)
(* the size of the right one, so only its digest gives it away.  The key   *)
(* and the source package share a content: no property tells them apart.   *)
(***************************************************************************)
EXTENDS Acquisition, TLC

CONSTANTS lockA, lockB, broken, key, rpmA, rpmB, meta

Pin(c) == [sha256 |-> c, size |-> 1, meta |-> meta]

PinsOf(rpm) == [keys  |-> [f \in {"key"} |-> Pin(key)],
                rpms  |-> [f \in {"nginx"} |-> Pin(rpm)],
                srpms |-> [f \in {"nginx-src"} |-> Pin(key)]]

MCPins == [l \in Locks |-> PinsOf(IF l = lockB THEN rpmB ELSE rpmA)]
MCSizeOf == [c \in Digests |-> 1]
Symmetry == Permutations(Acquirers)
MCNames == {"key", "nginx", "nginx-src"}
=============================================================================
