--------------------------- MODULE MCLockRefresh ---------------------------
(***************************************************************************)
(* One package beside NGINX.  The publishers move openssl to a build that  *)
(* a new key signs, for amd64 first and for arm64 later.  The inputs may   *)
(* move to a rebuilt NGINX package of the same version, or to a new        *)
(* version with a new base and the new key approved.                       *)
(***************************************************************************)
EXTENDS LockRefresh

Reviewed(nginx, amd64, arm64, keys, base) ==
  [nginx |-> nginx, nginxKey |-> "kn", keys |-> {"kn"} \union keys, base |-> base,
   seed |-> [a \in Arches |-> IF a = "amd64" THEN amd64 ELSE arm64]]

MCFirst == Reviewed("nginx-1", 11, 12, {"ku"}, "base-1")
MCInputs == {MCFirst,
             Reviewed("nginx-1", 13, 14, {"ku"}, "base-1"),
             Reviewed("nginx-2", 21, 22, {"ku", "kv"}, "base-2")}

Package(name, a, source, key) ==
  [name |-> name, arch |-> a, source |-> source, sha256 |-> <<source, a>>, key |-> key]

Old(a) == {Package("openssl", a, "openssl-1", "ku")}
New(a) == {Package("openssl", a, "openssl-2", "kv")}

MCClosure ==
  [s \in Snapshots |-> [a \in Arches |->
     IF s = 1 \/ (s = 2 /\ a = "arm64") THEN Old(a) ELSE New(a)]]
=============================================================================
