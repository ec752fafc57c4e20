------------------------------ MODULE MCAssembly ------------------------------
(***************************************************************************)
(* lockA and lockB pin different packages and different bases; broken is a *)
(* lock that validate_lock rejects.  torn is a content that says nothing   *)
(* of itself (a truncated file).                                           *)
(***************************************************************************)
EXTENDS Assembly

CONSTANTS lockA, lockB, broken, key, rpmA, rpmB, lib, torn, signer, nevraA, nevraB, nevra,
          nothing

MCMetaOf == [c \in Digests |-> CASE c = key -> signer [] c = rpmA -> nevraA
                                 [] c = rpmB -> nevraB
                                 [] c = lib -> nevra [] c = torn -> nothing]

Pin(c) == [sha256 |-> c, size |-> 1, meta |-> MCMetaOf[c]]

PinsOf(rpm) == [keys  |-> [f \in {"key"} |-> Pin(key)],
                rpms  |-> [f \in {"nginx", "libs"} |-> Pin(IF f = "nginx" THEN rpm ELSE lib)],
                srpms |-> [f \in {"nginx-src"} |-> Pin(rpm)]]

MCPins == [l \in Locks |-> PinsOf(IF l = lockB THEN rpmB ELSE rpmA)]
MCBaseOf == [l \in Locks |-> IF l = lockB
                               THEN [builder |-> "minimalB", runtime |-> "microB"]
                               ELSE [builder |-> "minimalA", runtime |-> "microA"]]
MCSizeOf == [c \in Digests |-> 1]
MCNames == {"key", "nginx", "libs", "nginx-src"}
=============================================================================
