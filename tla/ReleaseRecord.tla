---------------------------- MODULE ReleaseRecord ----------------------------
(***************************************************************************)
(* What .github/workflows/release.yml promises to those who pull by        *)
(* digest, without tags that move, runs, jobs and their failures: the      *)
(* evidence bound to a manifest and the releases that announce one are     *)
(* only ever added to; a manifest is signed when it is attested both ways, *)
(* and announced, under a tag that announced nothing before, when it is    *)
(* signed.                                                                 *)
(***************************************************************************)
CONSTANTS
  Tags,
  Manifests  \* manifests with an image for each architecture

VARIABLES
  evidence,  \* <<kind, manifest>>
  releases   \* tag -> manifest

record == <<evidence, releases>>

Attestations == {"provenance", "sbom"}

Init == evidence = {} /\ DOMAIN releases = {}

BindEvidence(kind, m) == evidence' = evidence \union {<<kind, m>>} /\ UNCHANGED releases

Attest(m) == \E kind \in Attestations : BindEvidence(kind, m)

Sign(m) ==
  /\ \A kind \in Attestations : <<kind, m>> \in evidence
  /\ BindEvidence("signature", m)

Announce(m) ==
  /\ <<"signature", m>> \in evidence
  /\ \E t \in Tags \ DOMAIN releases :
       releases' = [u \in (DOMAIN releases) \union {t} |-> IF u = t THEN m ELSE releases[u]]
  /\ UNCHANGED evidence

Next == record' # record /\ \E m \in Manifests : Attest(m) \/ Sign(m) \/ Announce(m)

Spec == Init /\ [][Next]_record
=============================================================================
